---------------------- MODULE WorkspacePublicationProofs ----------------------
(***************************************************************************)
(* Proofs about workspace publication, for any number of workers, tasks,    *)
(* lapsed leases and crashes; and of concurrent imports, where it does not  *)
(* depend on imports not overlapping.                                       *)
(***************************************************************************)
EXTENDS WorkspacePublication, TLAPS

TaskState == [pc : {"new", "read", "active", "completed", "failed"},
              worker : Workers, rev : Revisions]
WsState   == [rev : Revisions, owner : Owners \cup {NoOp},
              lease : {"none", "live", "expired"}, pub : Revisions \cup {NoRev}]
Labels    == ImportPcs \cup SyncPcs \cup CleanPcs \cup {"done"}

\* A control step to a known label keeps pc a function to labels.
LEMMA GotoType ==
    ASSUME pc \in [Ops -> Labels], NEW o \in Ops, NEW l \in Labels, Goto(o, l)
    PROVE  pc' \in [Ops -> Labels]
BY DEF Goto

\* Promotion, by an import or by a synchronizer, keeps the types.
LEMMA PromotionType ==
    ASSUME TypeOK, NEW o \in Ops, NEW w \in Workers, NEW n \in Revisions,
           NEW p \in {"discard"}, NEW l \in {"done", "idle"},
           LookForPending(o, w, n, p, l) \/ RenamePending(o, w, n, p, l)
    PROVE  /\ active' \in Revisions /\ pending' \in Revisions \cup {NoRev}
           /\ temp' \in Revisions \cup {NoRev}
           /\ installed' \in [Workers -> Revisions]
           /\ pc' \in [Ops -> Labels]
<1>1. pc' \in [Ops -> Labels]
  <2>1. PICK q \in {"replace", "discard", "done", "idle"} : Goto(o, q)
    BY DEF LookForPending, RenamePending
  <2> QED BY <2>1, GotoType DEF TypeOK, Labels, ImportPcs, SyncPcs, CleanPcs
<1>2. /\ active' \in Revisions /\ pending' \in Revisions \cup {NoRev}
      /\ temp' \in Revisions \cup {NoRev}
      /\ installed' \in [Workers -> Revisions]
  BY DEF LookForPending, RenamePending, TypeOK, files
<1> QED BY <1>1, <1>2

\* The transactions keep workspace_state a row of its type.
LEMMA RowType ==
    ASSUME TypeOK, NEW owner \in Owners, NEW n \in Revisions,
           \/ BeginUpdate(owner) \/ CommitRevision(n) \/ FinishUpdate(owner, n)
           \/ FinishPublication(n) \/ AbortUpdate(owner)
    PROVE  ws' \in WsState
BY DEF TypeOK, WsState, BeginUpdate, CommitRevision, FinishUpdate, FinishPublication,
       AbortUpdate, Released

-----------------------------------------------------------------------------
(* Type correctness.                                                        *)

\* The initial state.
LEMMA InitType == Init => TypeOK
BY FirstRevAssumption DEF Init, TypeOK, ImportPcs, SyncPcs

\* Cleaning up, by a failed import or a synchronizer.
LEMMA CleanType ==
    ASSUME TypeOK, NEW o \in Ops, NEW l \in {"done", "idle"},
           CleanBegin(o, l) \/ CleanDiscard(o) \/ CleanAbort(o, l)
    PROVE  TypeOK'
<1> USE DEF Labels, ImportPcs, SyncPcs, CleanPcs
<1>1. <<o, "update">> \in Owners /\ <<o, "cleanup">> \in Owners
  BY DEF Owners
<1>2. pc \in [Ops -> Labels] /\ ws \in WsState
  BY DEF TypeOK, WsState
<1>3. PICK q \in {"cleanDiscard", "cleanAbort", "done", "idle"} : Goto(o, q)
  BY DEF CleanBegin, CleanDiscard, CleanAbort
<1>4. pc' \in [Ops -> Labels]
  BY <1>2, <1>3, GotoType
<1>5. ws' \in WsState
  BY <1>1, <1>2, RowType, FirstRevAssumption DEF CleanBegin, CleanDiscard, CleanAbort
<1>6. /\ active' \in Revisions /\ pending' \in Revisions \cup {NoRev}
      /\ temp' \in Revisions \cup {NoRev}
  BY DEF CleanBegin, CleanDiscard, CleanAbort, Discard, files, TypeOK
<1>7. UNCHANGED <<installed, seen, tasks, committed, used>>
  BY DEF CleanBegin, CleanDiscard, CleanAbort
<1> QED BY <1>4, <1>5, <1>6, <1>7 DEF TypeOK, WsState

\* The steps of an import.
LEMMA ImportType == ASSUME TypeOK, NEW i \in Imports, ImportStep(i) PROVE TypeOK'
<1> USE DEF Labels, ImportPcs, SyncPcs, CleanPcs
<1>1. i \in Ops /\ ServedBy[i] \in Workers /\ RevOf[i] \in Revisions
  BY ImportAssumption DEF Ops
<1>2. <<i, "update">> \in Owners
  BY <1>1 DEF Owners
<1>3. pc \in [Ops -> Labels] /\ ws \in WsState
  BY DEF TypeOK, WsState
<1>4. CASE ImportPromote(i) \/ ImportReplace(i)
  <2>1. /\ active' \in Revisions /\ pending' \in Revisions \cup {NoRev}
        /\ temp' \in Revisions \cup {NoRev}
        /\ installed' \in [Workers -> Revisions]
        /\ pc' \in [Ops -> Labels]
    BY <1>1, <1>4, PromotionType DEF ImportPromote, ImportReplace
  <2>2. UNCHANGED <<ws, seen, tasks, committed, used>>
    BY <1>4 DEF ImportPromote, ImportReplace
  <2> QED BY <2>1, <2>2 DEF TypeOK
<1>5. CASE CleanBegin(i, "done") \/ CleanDiscard(i) \/ CleanAbort(i, "done")
  BY <1>1, <1>5, CleanType
<1>6. CASE ImportBegin(i) \/ ImportWrite(i) \/ ImportStage(i) \/ ImportCommit(i)
           \/ ImportDiscard(i) \/ ImportFinish(i) \/ ImportAbort(i)
  <2> USE DEF ImportBegin, ImportWrite, ImportStage, ImportCommit, ImportDiscard,
              ImportFinish, ImportAbort
  <2>1. PICK q \in Labels : Goto(i, q)
    BY <1>6
  <2>2. pc' \in [Ops -> Labels]
    BY <1>1, <1>3, <2>1, GotoType
  <2>3. ws' \in WsState
    BY <1>1, <1>2, <1>3, <1>6, RowType
  <2>4. /\ active' \in Revisions /\ pending' \in Revisions \cup {NoRev}
        /\ temp' \in Revisions \cup {NoRev}
    BY <1>1, <1>6 DEF TypeOK, Discard, files
  <2>5. committed' \subseteq Revisions
    BY <1>1, <1>6 DEF TypeOK, CommitRevision
  <2>6. UNCHANGED <<installed, seen, tasks, used>>
    BY <1>6
  <2> QED BY <2>2, <2>3, <2>4, <2>5, <2>6 DEF TypeOK, WsState
<1> QED BY <1>4, <1>5, <1>6 DEF ImportStep

\* The steps of a synchronizer.
LEMMA SyncType == ASSUME TypeOK, NEW w \in Workers, SyncStep(w) PROVE TypeOK'
<1> USE DEF Labels, ImportPcs, SyncPcs, CleanPcs
<1>1. w \in Ops /\ seen[w].rev \in Revisions /\ ws.rev \in Revisions
  BY DEF Ops, TypeOK
<1>2. <<w, "update">> \in Owners
  BY <1>1 DEF Owners
<1>3. pc \in [Ops -> Labels] /\ ws \in WsState
  BY DEF TypeOK, WsState
<1>4. CASE SyncPromote(w) \/ SyncReplace(w)
  <2>1. /\ active' \in Revisions /\ pending' \in Revisions \cup {NoRev}
        /\ temp' \in Revisions \cup {NoRev}
        /\ installed' \in [Workers -> Revisions]
        /\ pc' \in [Ops -> Labels]
    BY <1>1, <1>4, PromotionType DEF SyncPromote, SyncReplace
  <2>2. UNCHANGED <<ws, seen, tasks, committed, used>>
    BY <1>4 DEF SyncPromote, SyncReplace
  <2> QED BY <2>1, <2>2 DEF TypeOK
<1>5. CASE CleanBegin(w, "idle") \/ CleanDiscard(w) \/ CleanAbort(w, "idle")
  BY <1>1, <1>5, CleanType
<1>6. CASE SyncBegin(w) \/ SyncLoad(w) \/ SyncMatch(w) \/ SyncDiscard(w) \/ SyncRelease(w)
  <2> USE DEF SyncBegin, SyncLoad, SyncMatch, SyncDiscard, SyncRelease
  <2>1. PICK q \in Labels : Goto(w, q)
    BY <1>6
  <2>2. pc' \in [Ops -> Labels]
    BY <1>1, <1>3, <2>1, GotoType
  <2>3. ws' \in WsState
    BY <1>1, <1>2, <1>3, <1>6, RowType
  <2>4. /\ active' \in Revisions /\ pending' \in Revisions \cup {NoRev}
        /\ temp' \in Revisions \cup {NoRev}
    BY <1>6 DEF TypeOK, Discard, files
  <2>5. installed' \in [Workers -> Revisions]
    BY <1>1, <1>6 DEF TypeOK
  <2>6. seen' \in [Workers -> [rev : Revisions, pub : BOOLEAN, litter : BOOLEAN]]
    <3> DEFINE look == [rev |-> ws.rev, pub |-> ws.pub = ws.rev,
                        litter |-> pending # NoRev \/ temp # NoRev]
    <3>1. look \in [rev : Revisions, pub : BOOLEAN, litter : BOOLEAN]
      BY <1>1
    <3>2. seen' = seen \/ seen' = [seen EXCEPT ![w] = look]
      BY <1>6
    <3> HIDE DEF look
    <3> QED BY <3>1, <3>2 DEF TypeOK
  <2>7. UNCHANGED <<tasks, committed, used>>
    BY <1>6
  <2> QED BY <2>2, <2>3, <2>4, <2>5, <2>6, <2>7 DEF TypeOK, WsState
<1> QED BY <1>4, <1>5, <1>6 DEF SyncStep

\* Tasks, time and crashes.
LEMMA EnvironmentType ==
    ASSUME TypeOK,
           \/ \E w \in Workers : Crash(w)
           \/ \E t \in Tasks : TaskRead(t) \/ TaskStart(t) \/ TaskEnd(t)
           \/ Lapse
    PROVE  TypeOK'
<1>1. CASE \E w \in Workers : Crash(w)
  <2> PICK w \in Workers : Crash(w)
    BY <1>1
  <2>1. pc' \in [Ops -> Labels]
    <3>1. "idle" \in Labels /\ "done" \in Labels /\ pc \in [Ops -> Labels]
      BY DEF Labels, SyncPcs, TypeOK
    <3> HIDE DEF Labels
    <3> QED BY <3>1 DEF Crash
  <2>2. installed' \in [Workers -> Revisions]
    BY DEF Crash, TypeOK
  <2>3. tasks' \in [Tasks -> TaskState]
    <3>1. \A t \in Tasks : tasks[t] \in TaskState /\ [tasks[t] EXCEPT !.pc = "failed"] \in TaskState
      BY DEF TypeOK, TaskState
    <3> QED BY <3>1 DEF Crash
  <2>4. used' \in [lapses : Nat, crashes : Nat]
    BY DEF Crash, TypeOK
  <2>5. UNCHANGED <<ws, files, seen, committed>>
    BY DEF Crash
  <2> QED BY <2>1, <2>2, <2>3, <2>4, <2>5 DEF TypeOK, files, Labels, TaskState
<1>2. ASSUME NEW t \in Tasks, TaskRead(t) \/ TaskStart(t) \/ TaskEnd(t)
      PROVE  TypeOK'
  <2>1. tasks' \in [Tasks -> TaskState]
    <3> USE DEF TypeOK, TaskState
    <3>1. tasks[t] \in TaskState /\ installed[tasks[t].worker] \in Revisions
      OBVIOUS
    <3>2. CASE TaskRead(t)
      BY <3>1, <3>2 DEF TaskRead
    <3>3. CASE TaskStart(t)
      BY <3>1, <3>3 DEF TaskStart
    <3>4. CASE TaskEnd(t)
      BY <3>1, <3>4 DEF TaskEnd
    <3> QED BY <1>2, <3>2, <3>3, <3>4
  <2>2. UNCHANGED <<ws, files, installed, pc, seen, committed, used>>
    BY <1>2 DEF TaskRead, TaskStart, TaskEnd
  <2> QED BY <2>1, <2>2 DEF TypeOK, TaskState, files
<1>3. CASE Lapse
  BY <1>3 DEF Lapse, TypeOK, files
<1> QED BY <1>1, <1>2, <1>3

\* Every step preserves the types.
LEMMA NextType == ASSUME TypeOK, [Next]_vars PROVE TypeOK'
<1>1. CASE UNCHANGED vars
  BY <1>1 DEF vars, files, TypeOK
<1>2. CASE Next
  BY <1>2, ImportType, SyncType, EnvironmentType DEF Next
<1> QED BY <1>1, <1>2

\* The variables keep their types: in particular the active catalog file is never
\* missing, whatever the promotions race for.
THEOREM WorkspaceTypeCorrect == Spec => []TypeOK
BY InitType, NextType, PTL DEF Spec

-----------------------------------------------------------------------------
(* Tasks and publications.                                                  *)

\* What a step does to the revision, the publication and the tasks: only a commit
\* moves the revision or opens a publication, and there is no active task then; a
\* task becomes active only without a publication.
LEMMA StepEffect ==
    ASSUME TypeOK, [Next]_vars
    PROVE  /\ ws'.rev # ws.rev => ~TaskActive
           /\ ws'.pub \notin {NoRev, ws.pub} => ~TaskActive /\ tasks' = tasks
           /\ TaskActive' /\ ~TaskActive => ws.pub = NoRev /\ ws' = ws
<1> DEFINE Effect == /\ ws'.rev # ws.rev => ~TaskActive
                     /\ ws'.pub \notin {NoRev, ws.pub} => ~TaskActive /\ tasks' = tasks
                     /\ TaskActive' /\ ~TaskActive => ws.pub = NoRev /\ ws' = ws
<1>1. ASSUME tasks' = tasks, NEW owner \in Owners, NEW n \in Revisions,
             \/ ws' = ws \/ BeginUpdate(owner) \/ FinishUpdate(owner, n)
             \/ FinishPublication(n) \/ AbortUpdate(owner)
             \/ (MayCommit(owner) /\ CommitRevision(n))
      PROVE  Effect
  BY <1>1 DEF TypeOK, BeginUpdate, FinishUpdate, FinishPublication, AbortUpdate, Released,
              MayCommit, CommitRevision, TaskActive
<1>2. ASSUME NEW i \in Imports, ImportStep(i)
      PROVE  Effect
  <2>1. RevOf[i] \in Revisions /\ <<i, "update">> \in Owners /\ <<i, "cleanup">> \in Owners
    BY ImportAssumption DEF Owners, Ops
  <2>2. tasks' = tasks
    BY <1>2 DEF ImportStep, ImportBegin, ImportWrite, ImportStage, ImportCommit,
       ImportPromote, ImportReplace, ImportDiscard, ImportFinish, ImportAbort,
       CleanBegin, CleanDiscard, CleanAbort
  <2>3. \E owner \in Owners :
           \/ ws' = ws \/ BeginUpdate(owner) \/ FinishUpdate(owner, RevOf[i])
           \/ AbortUpdate(owner)
           \/ (MayCommit(owner) /\ CommitRevision(RevOf[i]))
    BY <1>2, <2>1 DEF ImportStep, ImportBegin, ImportWrite, ImportStage, ImportCommit,
       ImportPromote, ImportReplace, ImportDiscard, ImportFinish, ImportAbort,
       CleanBegin, CleanDiscard, CleanAbort
  <2> QED BY <1>1, <2>1, <2>2, <2>3
<1>3. ASSUME NEW w \in Workers, SyncStep(w)
      PROVE  Effect
  <2>1. seen[w].rev \in Revisions /\ <<w, "cleanup">> \in Owners
    BY DEF Owners, Ops, TypeOK
  <2>2. tasks' = tasks
    BY <1>3 DEF SyncStep, SyncBegin, SyncLoad, SyncMatch, SyncPromote, SyncReplace,
       SyncDiscard, SyncRelease, CleanBegin, CleanDiscard, CleanAbort
  <2>3. \E owner \in Owners :
           \/ ws' = ws \/ BeginUpdate(owner)
           \/ FinishPublication(seen[w].rev) \/ AbortUpdate(owner)
    BY <1>3, <2>1 DEF SyncStep, SyncBegin, SyncLoad, SyncMatch, SyncPromote, SyncReplace,
       SyncDiscard, SyncRelease, CleanBegin, CleanDiscard, CleanAbort
  <2> QED BY <1>1, <2>1, <2>2, <2>3
<1>4. ASSUME NEW w \in Workers, Crash(w)
      PROVE  Effect
  BY <1>4 DEF Crash, TaskActive, TypeOK
<1>5. ASSUME NEW t \in Tasks, TaskRead(t) \/ TaskStart(t) \/ TaskEnd(t)
      PROVE  Effect
  <2>1. ws' = ws
    BY <1>5 DEF TaskRead, TaskStart, TaskEnd
  <2>2. CASE TaskStart(t)
    BY <2>1, <2>2 DEF TaskStart, UpdateHeld
  <2>3. CASE TaskRead(t) \/ TaskEnd(t)
    <3>1. TaskActive' => TaskActive
      BY <2>3 DEF TaskRead, TaskEnd, TaskActive, TypeOK
    <3> QED BY <2>1, <3>1
  <2> QED BY <1>5, <2>2, <2>3
<1>6. CASE Lapse
  BY <1>6 DEF Lapse, TaskActive, TypeOK
<1>7. CASE UNCHANGED vars
  BY <1>7 DEF vars, TaskActive
<1> QED BY <1>2, <1>3, <1>4, <1>5, <1>6, <1>7 DEF Next

\* While a committed revision is being published no task is active, and none can
\* start: a single fence in two transactions, one of each kind of client.
THEOREM PublicationsExcludeTasks == Spec => []NoTaskDuringPublication
<1>1. Init => NoTaskDuringPublication
  BY DEF Init, NoTaskDuringPublication
<1>2. ASSUME TypeOK, NoTaskDuringPublication, [Next]_vars
      PROVE  NoTaskDuringPublication'
  <2>1. /\ ws'.pub \notin {NoRev, ws.pub} => ~TaskActive /\ tasks' = tasks
        /\ TaskActive' /\ ~TaskActive => ws.pub = NoRev /\ ws' = ws
    BY <1>2, StepEffect
  <2>2. tasks' = tasks => TaskActive' = TaskActive
    BY DEF TaskActive
  <2> QED BY <1>2, <2>1, <2>2 DEF NoTaskDuringPublication
<1> QED BY <1>1, <1>2, WorkspaceTypeCorrect, PTL DEF Spec

\* The durable revision never moves under an active task.
THEOREM RevisionIsStable == Spec => RevisionStableUnderTasks
<1>1. ASSUME TypeOK, [Next]_vars
      PROVE  [TaskActive => ws'.rev = ws.rev]_vars
  BY <1>1, StepEffect
<1> QED BY <1>1, WorkspaceTypeCorrect, PTL DEF Spec, RevisionStableUnderTasks

-----------------------------------------------------------------------------
(* The durable revision can be served.                                      *)

\* Imports that overlap share the staging names, and the property does not hold then.
OneImport   == \A i, j \in Imports : i = j
Uncommitted == {"write", "stage", "commit"}

\* One import at a time writes the staging names.
StagingInv ==
    /\ \A i, j \in Imports : pc[i] \in Uncommitted /\ pc[j] \in Uncommitted => i = j
    /\ \A i \in Imports : /\ pc[i] = "stage" => temp \in {RevOf[i], NoRev}
                          /\ pc[i] = "commit" => pending \in {RevOf[i], NoRev}

\* Revision n is durable, nothing else is staged, and no import is about to commit another.
Final(n) == ws.rev = n /\ pending \in {n, NoRev} /\ \A i \in Imports : pc[i] \notin Uncommitted

\* A publication is that of the durable revision, whose file is staged or active.
PublicationInv ==
    /\ ws.pub = NoRev => active = ws.rev
    /\ ws.pub # NoRev =>
          /\ ws.pub = ws.rev /\ Final(ws.rev) /\ (active = ws.rev \/ pending = ws.rev)
          /\ \A o \in Ops : pc[o] # "cleanDiscard"

\* While an import owns the row nobody discards what it staged.
FenceInv ==
    \A i \in Imports : ws.owner = <<i, "update">> /\ pc[i] \in Uncommitted =>
       /\ \A o \in Ops : pc[o] # "cleanDiscard"
       /\ pc[i] = "commit" => pending = RevOf[i]

\* Who promotes promotes the durable revision, and who finishes has found it active.
PromotionInv ==
    /\ \A w \in Workers :
          /\ pc[w] \in {"promote", "replace", "discard", "release"} => Final(seen[w].rev)
          /\ pc[w] = "load" /\ seen[w].pub => Final(seen[w].rev)
          /\ pc[w] \in {"discard", "release"} => active = ws.rev
    /\ \A i \in Imports :
          /\ pc[i] \in {"promote", "replace", "discard", "finish"} => Final(RevOf[i])
          /\ pc[i] \in {"discard", "finish"} => active = ws.rev

ServableInv == TypeOK /\ StagingInv /\ PublicationInv /\ FenceInv /\ PromotionInv

\* Imports and synchronizers are different clients.
LEMMA ControlTypes ==
    ASSUME ServableInv
    PROVE  /\ pc \in [Ops -> Labels] /\ Ops = Imports \cup Workers /\ Imports \cap Workers = {}
           /\ seen \in [Workers -> [rev : Revisions, pub : BOOLEAN, litter : BOOLEAN]]
           /\ ws \in WsState /\ NoRev \notin Revisions /\ FirstRev \in Revisions
           /\ \A i \in Imports : RevOf[i] \in Revisions /\ RevOf[i] # NoRev
BY ImportAssumption, NoRevAssumption, FirstRevAssumption DEF ServableInv, TypeOK, Labels, Ops, WsState

LEMMA ImportBeginServable ==
    ASSUME ServableInv, NEW i \in Imports, ImportBegin(i), BeginsInTurn
    PROVE  StagingInv' /\ PublicationInv' /\ FenceInv' /\ PromotionInv'
<1> USE ControlTypes DEF ServableInv
<1>1. /\ ws.pub = NoRev /\ ws'.pub = NoRev /\ ws'.rev = ws.rev /\ i \in Ops
      /\ pc[i] = "begin" /\ pc'[i] = "write" /\ \A o \in Ops : o # i => pc'[o] = pc[o]
      /\ UNCHANGED <<active, pending, temp, seen>>
  BY DEF ImportBegin, MayBegin, UpdateHeld, BeginUpdate, Goto, files, WsState
<1>2. \A o \in Ops : Settled(o)
  BY DEF BeginsInTurn
<1>3. /\ \A j \in Imports : pc[j] \in {"begin", "done", "idle", "abort", "clean", "cleanAbort", "match"}
      /\ \A w \in Workers :
            \/ pc[w] \in {"begin", "done", "idle", "abort", "clean", "cleanAbort", "match"}
            \/ pc[w] = "load" /\ ~seen[w].pub
  BY <1>2 DEF Settled
<1>4. StagingInv'
  BY <1>1, <1>3 DEF StagingInv, Uncommitted
<1>5. PublicationInv'
  BY <1>1 DEF PublicationInv
<1>6. FenceInv'
  BY <1>1, <1>3 DEF FenceInv, Uncommitted
<1>7. PromotionInv'
  BY <1>1, <1>3 DEF PromotionInv
<1> QED BY <1>4, <1>5, <1>6, <1>7

LEMMA ImportWriteServable ==
    ASSUME ServableInv, NEW i \in Imports, ImportWrite(i)
    PROVE  StagingInv' /\ PublicationInv' /\ FenceInv' /\ PromotionInv'
<1> USE ControlTypes DEF ServableInv, ImportWrite, Goto, files
<1>1. StagingInv'
  BY DEF StagingInv, PublicationInv, FenceInv, PromotionInv, Final, Uncommitted
<1>2. PublicationInv'
  BY DEF StagingInv, PublicationInv, FenceInv, PromotionInv, Final, Uncommitted
<1>3. FenceInv'
  BY DEF StagingInv, PublicationInv, FenceInv, PromotionInv, Final, Uncommitted
<1>4. PromotionInv'
  BY DEF StagingInv, PublicationInv, FenceInv, PromotionInv, Final, Uncommitted
<1> QED BY <1>1, <1>2, <1>3, <1>4

LEMMA ImportStageServable ==
    ASSUME ServableInv, NEW i \in Imports, ImportStage(i)
    PROVE  StagingInv' /\ PublicationInv' /\ FenceInv' /\ PromotionInv'
<1> USE ControlTypes DEF ServableInv, ImportStage, Goto, files
<1>1. StagingInv'
  BY DEF StagingInv, PublicationInv, FenceInv, PromotionInv, Final, Uncommitted
<1>2. PublicationInv'
  BY DEF StagingInv, PublicationInv, FenceInv, PromotionInv, Final, Uncommitted
<1>3. FenceInv'
  BY DEF StagingInv, PublicationInv, FenceInv, PromotionInv, Final, Uncommitted
<1>4. PromotionInv'
  BY DEF StagingInv, PublicationInv, FenceInv, PromotionInv, Final, Uncommitted
<1> QED BY <1>1, <1>2, <1>3, <1>4

LEMMA ImportCommitServable ==
    ASSUME ServableInv, NEW i \in Imports, ImportCommit(i)
    PROVE  StagingInv' /\ PublicationInv' /\ FenceInv' /\ PromotionInv'
<1> USE ControlTypes DEF ServableInv
<1>1. /\ pc[i] = "commit" /\ i \in Ops /\ \A j \in Imports : pc[j] \in Uncommitted => j = i
      /\ UNCHANGED <<active, pending, temp, installed, seen>>
  BY DEF ImportCommit, StagingInv, Uncommitted, files
<1>2. /\ \A w \in Workers : /\ pc[w] \notin {"promote", "replace", "discard", "release"}
                            /\ pc[w] = "load" => ~seen[w].pub
      /\ \A j \in Imports : pc[j] \notin {"promote", "replace", "discard", "finish"}
  BY <1>1 DEF PromotionInv, Final, Uncommitted
<1>3. CASE /\ MayCommit(<<i, "update">>) /\ CommitRevision(RevOf[i]) /\ Goto(i, "promote")
  <2>1. /\ ws'.rev = RevOf[i] /\ ws'.pub = RevOf[i] /\ ws'.owner = ws.owner
        /\ ws.owner = <<i, "update">> /\ pc' = [pc EXCEPT ![i] = "promote"]
    BY <1>3 DEF MayCommit, CommitRevision, Goto, WsState
  <2>2. pending = RevOf[i] /\ \A o \in Ops : pc[o] # "cleanDiscard"
    BY <1>1, <2>1 DEF FenceInv, Uncommitted
  <2>3. /\ pc'[i] = "promote" /\ \A o \in Ops : o # i => pc'[o] = pc[o]
        /\ \A w \in Workers : pc'[w] = pc[w]
        /\ \A j \in Imports : pc'[j] \notin Uncommitted /\ j \in Ops
    BY <1>1, <2>1 DEF Uncommitted
  <2>4. StagingInv' /\ FenceInv'
    BY <1>1, <2>3 DEF StagingInv, FenceInv, Uncommitted
  <2>5. Final(RevOf[i])'
    BY <1>1, <2>1, <2>2, <2>3 DEF Final
  <2>6. PublicationInv'
    BY <1>1, <2>1, <2>2, <2>3, <2>5 DEF PublicationInv
  <2>7. PromotionInv'
    BY <1>1, <1>2, <2>1, <2>3, <2>5 DEF PromotionInv
  <2> QED BY <2>4, <2>6, <2>7
<1>4. CASE UNCHANGED ws /\ Goto(i, "abort")
  <2>1. /\ pc'[i] = "abort" /\ \A o \in Ops : o # i => pc'[o] = pc[o]
        /\ \A w \in Workers : pc'[w] = pc[w]
    BY <1>1, <1>4 DEF Goto
  <2>2. StagingInv' /\ FenceInv'
    BY <1>1, <1>4, <2>1 DEF StagingInv, FenceInv, Uncommitted
  <2>3. PublicationInv'
    BY <1>1, <1>4, <2>1 DEF PublicationInv, Final, Uncommitted
  <2>4. PromotionInv'
    BY <1>1, <1>2, <1>4, <2>1 DEF PromotionInv
  <2> QED BY <2>2, <2>3, <2>4
<1> QED BY <1>3, <1>4 DEF ImportCommit

LEMMA ImportPromoteServable ==
    ASSUME ServableInv, NEW i \in Imports, ImportPromote(i)
    PROVE  StagingInv' /\ PublicationInv' /\ FenceInv' /\ PromotionInv'
<1> USE ControlTypes DEF ServableInv, ImportPromote, LookForPending, Goto, files
<1>1. StagingInv'
  BY DEF StagingInv, PublicationInv, FenceInv, PromotionInv, Final, Uncommitted
<1>2. PublicationInv'
  BY DEF StagingInv, PublicationInv, FenceInv, PromotionInv, Final, Uncommitted
<1>3. FenceInv'
  BY DEF StagingInv, PublicationInv, FenceInv, PromotionInv, Final, Uncommitted
<1>4. PromotionInv'
  BY DEF StagingInv, PublicationInv, FenceInv, PromotionInv, Final, Uncommitted
<1> QED BY <1>1, <1>2, <1>3, <1>4

LEMMA ImportReplaceServable ==
    ASSUME ServableInv, NEW i \in Imports, ImportReplace(i)
    PROVE  StagingInv' /\ PublicationInv' /\ FenceInv' /\ PromotionInv'
<1> USE ControlTypes DEF ServableInv, ImportReplace, RenamePending, Goto, files
<1>1. StagingInv'
  BY DEF StagingInv, PublicationInv, FenceInv, PromotionInv, Final, Uncommitted
<1>2. PublicationInv'
  BY DEF StagingInv, PublicationInv, FenceInv, PromotionInv, Final, Uncommitted
<1>3. FenceInv'
  BY DEF StagingInv, PublicationInv, FenceInv, PromotionInv, Final, Uncommitted
<1>4. PromotionInv'
  BY DEF StagingInv, PublicationInv, FenceInv, PromotionInv, Final, Uncommitted
<1> QED BY <1>1, <1>2, <1>3, <1>4

LEMMA ImportDiscardServable ==
    ASSUME ServableInv, NEW i \in Imports, ImportDiscard(i)
    PROVE  StagingInv' /\ PublicationInv' /\ FenceInv' /\ PromotionInv'
<1> USE ControlTypes DEF ServableInv, ImportDiscard, Discard, Goto, files
<1>1. StagingInv'
  BY DEF StagingInv, PublicationInv, FenceInv, PromotionInv, Final, Uncommitted
<1>2. PublicationInv'
  BY DEF StagingInv, PublicationInv, FenceInv, PromotionInv, Final, Uncommitted
<1>3. FenceInv'
  BY DEF StagingInv, PublicationInv, FenceInv, PromotionInv, Final, Uncommitted
<1>4. PromotionInv'
  BY DEF StagingInv, PublicationInv, FenceInv, PromotionInv, Final, Uncommitted
<1> QED BY <1>1, <1>2, <1>3, <1>4

LEMMA ImportFinishServable ==
    ASSUME ServableInv, NEW i \in Imports, ImportFinish(i)
    PROVE  StagingInv' /\ PublicationInv' /\ FenceInv' /\ PromotionInv'
<1> USE ControlTypes DEF ServableInv, ImportFinish, FinishUpdate, Released, Goto, files
<1>1. StagingInv'
  BY DEF StagingInv, PublicationInv, FenceInv, PromotionInv, Final, Uncommitted
<1>2. PublicationInv'
  BY DEF StagingInv, PublicationInv, FenceInv, PromotionInv, Final, Uncommitted
<1>3. FenceInv'
  BY DEF StagingInv, PublicationInv, FenceInv, PromotionInv, Final, Uncommitted
<1>4. PromotionInv'
  BY DEF StagingInv, PublicationInv, FenceInv, PromotionInv, Final, Uncommitted
<1> QED BY <1>1, <1>2, <1>3, <1>4

LEMMA ImportAbortServable ==
    ASSUME ServableInv, NEW i \in Imports, ImportAbort(i)
    PROVE  StagingInv' /\ PublicationInv' /\ FenceInv' /\ PromotionInv'
<1> USE ControlTypes DEF ServableInv
<1>1. /\ i \in Ops /\ pc[i] = "abort" /\ pc'[i] = "clean" /\ \A o \in Ops : o # i => pc'[o] = pc[o]
      /\ UNCHANGED <<active, pending, temp, seen>>
      /\ ws'.rev = ws.rev /\ ws'.pub = ws.pub /\ ws'.owner \in {ws.owner, NoOp}
  BY DEF ImportAbort, AbortUpdate, Released, Goto, files, WsState
<1>2. \A j \in Imports : j \in Ops /\ (pc'[j] \in Uncommitted => pc'[j] = pc[j])
  BY <1>1 DEF Uncommitted
<1>3. \A j \in Imports : <<j, "update">> # NoOp
  BY ImportAssumption
<1>4. \A n : Final(n) => Final(n)'
  BY <1>1, <1>2 DEF Final
<1>5. StagingInv' /\ FenceInv'
  BY <1>1, <1>2, <1>3 DEF StagingInv, FenceInv, Uncommitted
<1>6. PublicationInv' /\ PromotionInv'
  BY <1>1, <1>2, <1>4 DEF PublicationInv, PromotionInv
<1> QED BY <1>5, <1>6

LEMMA SyncBeginServable ==
    ASSUME ServableInv, NEW w \in Workers, SyncBegin(w)
    PROVE  StagingInv' /\ PublicationInv' /\ FenceInv' /\ PromotionInv'
<1> USE ControlTypes DEF ServableInv
<1> DEFINE look == [rev |-> ws.rev, pub |-> ws.pub = ws.rev,
                    litter |-> pending # NoRev \/ temp # NoRev]
<1>1. /\ seen' = [seen EXCEPT ![w] = look] /\ pc' = [pc EXCEPT ![w] = "load"] /\ pc[w] = "idle"
      /\ UNCHANGED <<ws, active, pending, temp, installed>>
  BY DEF SyncBegin, LockFree, Goto, files
<1>2. /\ look.rev = ws.rev /\ (look.pub <=> ws.pub = ws.rev)
      /\ (look.litter <=> pending # NoRev \/ temp # NoRev)
  OBVIOUS
<1> HIDE DEF look
<1>3. /\ pc'[w] = "load" /\ seen'[w] = look /\ w \in Ops
      /\ \A o \in Ops : o # w => pc'[o] = pc[o]
      /\ \A v \in Workers : v # w => seen'[v] = seen[v] /\ v \in Ops
      /\ \A i \in Imports : pc'[i] = pc[i] /\ i \in Ops
  BY <1>1
<1>4. StagingInv' /\ FenceInv'
  BY <1>1, <1>3 DEF StagingInv, FenceInv, Uncommitted
<1>5. PublicationInv'
  BY <1>1, <1>3 DEF PublicationInv, Final
<1>6. ws.pub = ws.rev => Final(ws.rev)
  BY DEF PublicationInv, WsState
<1>7. PromotionInv'
  BY <1>1, <1>2, <1>3, <1>6 DEF PromotionInv, Final
<1> QED BY <1>4, <1>5, <1>7

LEMMA SyncLoadServable ==
    ASSUME ServableInv, NEW w \in Workers, SyncLoad(w)
    PROVE  StagingInv' /\ PublicationInv' /\ FenceInv' /\ PromotionInv'
<1> USE ControlTypes DEF ServableInv, SyncLoad, Goto, files
<1>1. StagingInv'
  BY DEF StagingInv, PublicationInv, FenceInv, PromotionInv, Final, Uncommitted
<1>2. PublicationInv'
  BY DEF StagingInv, PublicationInv, FenceInv, PromotionInv, Final, Uncommitted
<1>3. FenceInv'
  BY DEF StagingInv, PublicationInv, FenceInv, PromotionInv, Final, Uncommitted
<1>4. PromotionInv'
  BY DEF StagingInv, PublicationInv, FenceInv, PromotionInv, Final, Uncommitted
<1> QED BY <1>1, <1>2, <1>3, <1>4

LEMMA SyncMatchServable ==
    ASSUME ServableInv, NEW w \in Workers, SyncMatch(w)
    PROVE  StagingInv' /\ PublicationInv' /\ FenceInv' /\ PromotionInv'
<1> USE ControlTypes DEF ServableInv, SyncMatch, Goto, files
<1>1. StagingInv'
  BY DEF StagingInv, PublicationInv, FenceInv, PromotionInv, Final, Uncommitted
<1>2. PublicationInv'
  BY DEF StagingInv, PublicationInv, FenceInv, PromotionInv, Final, Uncommitted
<1>3. FenceInv'
  BY DEF StagingInv, PublicationInv, FenceInv, PromotionInv, Final, Uncommitted
<1>4. PromotionInv'
  BY DEF StagingInv, PublicationInv, FenceInv, PromotionInv, Final, Uncommitted
<1> QED BY <1>1, <1>2, <1>3, <1>4

LEMMA SyncPromoteServable ==
    ASSUME ServableInv, NEW w \in Workers, SyncPromote(w)
    PROVE  StagingInv' /\ PublicationInv' /\ FenceInv' /\ PromotionInv'
<1> USE ControlTypes DEF ServableInv, SyncPromote, LookForPending, Goto, files
<1>1. StagingInv'
  BY DEF StagingInv, PublicationInv, FenceInv, PromotionInv, Final, Uncommitted
<1>2. PublicationInv'
  BY DEF StagingInv, PublicationInv, FenceInv, PromotionInv, Final, Uncommitted
<1>3. FenceInv'
  BY DEF StagingInv, PublicationInv, FenceInv, PromotionInv, Final, Uncommitted
<1>4. PromotionInv'
  BY DEF StagingInv, PublicationInv, FenceInv, PromotionInv, Final, Uncommitted
<1> QED BY <1>1, <1>2, <1>3, <1>4

LEMMA SyncReplaceServable ==
    ASSUME ServableInv, NEW w \in Workers, SyncReplace(w)
    PROVE  StagingInv' /\ PublicationInv' /\ FenceInv' /\ PromotionInv'
<1> USE ControlTypes DEF ServableInv, SyncReplace, RenamePending, Goto, files
<1>1. StagingInv'
  BY DEF StagingInv, PublicationInv, FenceInv, PromotionInv, Final, Uncommitted
<1>2. PublicationInv'
  BY DEF StagingInv, PublicationInv, FenceInv, PromotionInv, Final, Uncommitted
<1>3. FenceInv'
  BY DEF StagingInv, PublicationInv, FenceInv, PromotionInv, Final, Uncommitted
<1>4. PromotionInv'
  BY DEF StagingInv, PublicationInv, FenceInv, PromotionInv, Final, Uncommitted
<1> QED BY <1>1, <1>2, <1>3, <1>4

LEMMA SyncDiscardServable ==
    ASSUME ServableInv, NEW w \in Workers, SyncDiscard(w)
    PROVE  StagingInv' /\ PublicationInv' /\ FenceInv' /\ PromotionInv'
<1> USE ControlTypes DEF ServableInv, SyncDiscard, Discard, Goto, files
<1>1. StagingInv'
  BY DEF StagingInv, PublicationInv, FenceInv, PromotionInv, Final, Uncommitted
<1>2. PublicationInv'
  BY DEF StagingInv, PublicationInv, FenceInv, PromotionInv, Final, Uncommitted
<1>3. FenceInv'
  BY DEF StagingInv, PublicationInv, FenceInv, PromotionInv, Final, Uncommitted
<1>4. PromotionInv'
  BY DEF StagingInv, PublicationInv, FenceInv, PromotionInv, Final, Uncommitted
<1> QED BY <1>1, <1>2, <1>3, <1>4

LEMMA SyncReleaseServable ==
    ASSUME ServableInv, NEW w \in Workers, SyncRelease(w)
    PROVE  StagingInv' /\ PublicationInv' /\ FenceInv' /\ PromotionInv'
<1> USE ControlTypes DEF ServableInv, SyncRelease, FinishPublication, Released, Goto, files
<1>1. StagingInv'
  BY DEF StagingInv, PublicationInv, FenceInv, PromotionInv, Final, Uncommitted
<1>2. PublicationInv'
  BY DEF StagingInv, PublicationInv, FenceInv, PromotionInv, Final, Uncommitted
<1>3. FenceInv'
  BY DEF StagingInv, PublicationInv, FenceInv, PromotionInv, Final, Uncommitted
<1>4. PromotionInv'
  BY DEF StagingInv, PublicationInv, FenceInv, PromotionInv, Final, Uncommitted
<1> QED BY <1>1, <1>2, <1>3, <1>4

LEMMA CleanServable ==
    ASSUME ServableInv, NEW o \in Ops, NEW l \in {"done", "idle"},
           CleanBegin(o, l) \/ CleanDiscard(o) \/ CleanAbort(o, l)
    PROVE  StagingInv' /\ PublicationInv' /\ FenceInv' /\ PromotionInv'
<1> USE ControlTypes DEF ServableInv
<1>1. /\ \A p \in Ops : p # o => pc'[p] = pc[p]
      /\ pc'[o] \in {"cleanDiscard", "cleanAbort", l} /\ pc[o] \in {"clean", "cleanDiscard", "cleanAbort"}
      /\ UNCHANGED <<active, seen>> /\ ws'.rev = ws.rev /\ ws'.pub = ws.pub
      /\ ws'.owner \in {ws.owner, <<o, "cleanup">>, NoOp}
  BY DEF CleanBegin, CleanDiscard, CleanAbort, Goto, Discard, MayBegin, UpdateHeld, BeginUpdate,
         AbortUpdate, Released, WsState, files
<1>2. /\ pc'[o] = "cleanDiscard" => ws.pub = NoRev /\ ws'.owner = <<o, "cleanup">>
      /\ pc[o] # "cleanDiscard" => UNCHANGED <<pending, temp>>
      /\ pending' \in {pending, NoRev} /\ temp' \in {temp, NoRev}
  BY DEF CleanBegin, CleanDiscard, CleanAbort, Goto, Discard, MayBegin, UpdateHeld, BeginUpdate, WsState,
         files
<1>3. /\ \A i \in Imports : ws'.owner = <<i, "update">> => ws.owner = <<i, "update">>
      /\ \A p \in Imports \cup Workers : p \in Ops
  <2>1. ASSUME NEW i \in Imports PROVE <<i, "update">> # <<o, "cleanup">> /\ <<i, "update">> # NoOp
    <3>1. <<i, "update">> \in (Imports \cup Workers) \X {"update", "cleanup"}
      OBVIOUS
    <3>2. <<i, "update">> # NoOp
      BY <3>1, ImportAssumption, Zenon
    <3> QED BY <3>2
  <2> QED BY <1>1, <2>1
<1>4. \A i \in Imports : /\ i \in Ops
                         /\ pc'[i] \in Uncommitted \/ pc[i] \in Uncommitted => pc'[i] = pc[i] /\ i # o
  BY <1>1, <1>3 DEF Uncommitted
<1>5. StagingInv'
  BY <1>1, <1>2, <1>4 DEF StagingInv, Uncommitted
<1>6. \A n : Final(n) => Final(n)'
  BY <1>1, <1>2, <1>4 DEF Final
<1>7. PublicationInv'
  <2>1. ws.pub # NoRev => pc[o] # "cleanDiscard" /\ pc'[o] # "cleanDiscard"
    BY <1>2 DEF PublicationInv
  <2>2. ws.pub # NoRev => UNCHANGED <<pending, temp>>
    BY <1>2, <2>1
  <2> QED BY <1>1, <1>6, <2>1, <2>2 DEF PublicationInv
<1>8. FenceInv'
  <2> SUFFICES ASSUME NEW i \in Imports, ws'.owner = <<i, "update">>, pc'[i] \in Uncommitted
               PROVE  /\ \A p \in Ops : pc'[p] # "cleanDiscard"
                      /\ pc'[i] = "commit" => pending' = RevOf[i]
    BY DEF FenceInv
  <2>1. /\ \A p \in Ops : pc[p] # "cleanDiscard"
        /\ pc[i] = "commit" => pending = RevOf[i]
    BY <1>3, <1>4 DEF FenceInv
  <2>2. ws'.owner # <<o, "cleanup">>
    OBVIOUS
  <2> QED BY <1>1, <1>2, <1>4, <2>1, <2>2
<1>9. PromotionInv'
  BY <1>1, <1>3, <1>6 DEF PromotionInv
<1> QED BY <1>5, <1>7, <1>8, <1>9

LEMMA CrashServable ==
    ASSUME ServableInv, NEW w \in Workers, Crash(w)
    PROVE  StagingInv' /\ PublicationInv' /\ FenceInv' /\ PromotionInv'
<1> USE ControlTypes DEF ServableInv
<1>1. /\ \A o \in Ops : pc'[o] = pc[o] \/ (o \in Workers /\ pc'[o] = "idle") \/ (o \in Imports /\ pc'[o] = "done")
      /\ UNCHANGED <<ws, active, pending, temp, seen>>
  BY DEF Crash, files
<1>2. \A i \in Imports : i \in Ops /\ (pc'[i] \in Uncommitted => pc'[i] = pc[i])
  BY <1>1 DEF Uncommitted
<1>3. StagingInv'
  BY <1>1, <1>2 DEF StagingInv, Uncommitted
<1>4. \A n : Final(n) => Final(n)'
  BY <1>1, <1>2 DEF Final
<1>5. PublicationInv'
  BY <1>1, <1>4 DEF PublicationInv
<1>6. FenceInv'
  BY <1>1, <1>2 DEF FenceInv
<1>7. PromotionInv'
  BY <1>1, <1>4 DEF PromotionInv
<1> QED BY <1>3, <1>5, <1>6, <1>7

LEMMA OtherServable ==
    ASSUME ServableInv, (\E t \in Tasks : TaskRead(t) \/ TaskStart(t) \/ TaskEnd(t)) \/ Lapse \/ UNCHANGED vars
    PROVE  StagingInv' /\ PublicationInv' /\ FenceInv' /\ PromotionInv'
<1>1. /\ ws'.rev = ws.rev /\ ws'.pub = ws.pub /\ ws'.owner = ws.owner
      /\ UNCHANGED <<active, pending, temp, pc, seen>>
  BY ControlTypes DEF TaskRead, TaskStart, TaskEnd, Lapse, vars, files, WsState
<1> QED BY <1>1 DEF ServableInv, StagingInv, PublicationInv, FenceInv, PromotionInv, Final, Uncommitted

LEMMA ServableStep ==
    ASSUME ServableInv, [Next /\ BeginsInTurn]_vars
    PROVE  ServableInv'
<1>0. [Next]_vars
  OBVIOUS
<1>1. TypeOK'
  BY <1>0, NextType DEF ServableInv
<1>2. ASSUME NEW i \in Imports, ImportStep(i), BeginsInTurn
      PROVE  StagingInv' /\ PublicationInv' /\ FenceInv' /\ PromotionInv'
  <2>1. i \in Ops
    BY DEF Ops
  <2> QED BY <1>2, <2>1, ImportBeginServable, ImportWriteServable, ImportStageServable,
     ImportCommitServable, ImportPromoteServable, ImportReplaceServable, ImportDiscardServable,
     ImportFinishServable, ImportAbortServable, CleanServable DEF ImportStep
<1>3. ASSUME NEW w \in Workers, SyncStep(w)
      PROVE  StagingInv' /\ PublicationInv' /\ FenceInv' /\ PromotionInv'
  <2>1. w \in Ops
    BY DEF Ops
  <2> QED BY <1>3, <2>1, SyncBeginServable, SyncLoadServable, SyncMatchServable, SyncPromoteServable,
     SyncReplaceServable, SyncDiscardServable, SyncReleaseServable, CleanServable DEF SyncStep
<1> QED BY <1>1, <1>2, <1>3, CrashServable, OtherServable DEF Next, ServableInv

\* As long as imports take turns, whatever leases lapse, wherever workers die, and whatever an
\* earlier import left staged, the catalog of the durable revision is never lost: it is active,
\* or staged under the fence that every synchronizer finishes.
\* (_activate_catalog, _sync_workspace, _cleanup_uncommitted_pending)
THEOREM CommittedIsServable == InTurn => []CommittedIsMaterialisable
<1>1. Init => ServableInv
  <2> SUFFICES ASSUME Init PROVE ServableInv
    OBVIOUS
  <2>1. TypeOK
    BY InitType
  <2>2. /\ ws.rev = FirstRev /\ ws.owner = NoOp /\ ws.pub = NoRev /\ active = FirstRev
        /\ \A i \in Imports : pc[i] = "begin" /\ i \in Ops /\ <<i, "update">> # NoOp
        /\ \A w \in Workers : pc[w] = "idle" /\ w \in Ops
    BY ImportAssumption DEF Init, Ops
  <2>3. StagingInv /\ PublicationInv /\ FenceInv /\ PromotionInv
    BY <2>2 DEF StagingInv, PublicationInv, FenceInv, PromotionInv, Uncommitted
  <2> QED BY <2>1, <2>3 DEF ServableInv
<1>2. ServableInv => CommittedIsMaterialisable
  BY DEF ServableInv, PublicationInv, CommittedIsMaterialisable
<1>3. ServableInv /\ [Next /\ BeginsInTurn]_vars => ServableInv'
  BY ServableStep
<1> QED BY <1>1, <1>2, <1>3, PTL DEF InTurn

\* Before a single import begins there is nothing to clean or to publish.
BeforeInv ==
    \A i \in Imports : pc[i] = "begin" =>
       /\ pending = NoRev /\ temp = NoRev /\ ws.pub = NoRev /\ active = ws.rev
       /\ \A w \in Workers :
             /\ pc[w] \in {"idle", "load"}
             /\ pc[w] = "load" => ~seen[w].litter /\ ~seen[w].pub /\ seen[w].rev = active

LEMMA BeforeStep ==
    ASSUME OneImport, TypeOK, BeforeInv, [Next]_vars
    PROVE  BeforeInv' /\ [Next /\ BeginsInTurn]_vars
<1>0. /\ pc \in [Ops -> Labels] /\ Ops = Imports \cup Workers /\ Imports \cap Workers = {}
      /\ ws \in WsState /\ NoRev \notin Revisions
      /\ seen \in [Workers -> [rev : Revisions, pub : BOOLEAN, litter : BOOLEAN]]
  BY ImportAssumption, NoRevAssumption DEF TypeOK, Labels, Ops, WsState
<1>1. BeginsInTurn
  BY <1>0 DEF BeginsInTurn, BeforeInv, OneImport, Settled, ImportBegin
<1>2. ASSUME NEW i \in Imports, pc'[i] = "begin"
      PROVE  /\ pending' = NoRev /\ temp' = NoRev /\ ws'.pub = NoRev /\ active' = ws'.rev
             /\ \A w \in Workers :
                   /\ pc'[w] \in {"idle", "load"}
                   /\ pc'[w] = "load" => ~seen'[w].litter /\ ~seen'[w].pub /\ seen'[w].rev = active'
  <2>1. Imports = {i} /\ i \notin Workers
    BY <1>0 DEF OneImport
  <2>2. pc[i] = "begin" /\ ~ImportStep(i)
    <3>1. ~ImportStep(i)
      BY <1>0, <1>2 DEF ImportStep, ImportBegin, ImportWrite, ImportStage, ImportCommit, ImportPromote,
         ImportReplace, ImportDiscard, ImportFinish, ImportAbort, CleanBegin, CleanDiscard, CleanAbort,
         LookForPending, RenamePending, Goto
    <3>2. ASSUME NEW w \in Workers, SyncStep(w) PROVE pc[i] = "begin"
      <4>1. \E l : Goto(w, l)
        BY <3>2 DEF SyncStep, SyncBegin, SyncLoad, SyncMatch, SyncPromote, SyncReplace, SyncDiscard,
           SyncRelease, CleanBegin, CleanDiscard, CleanAbort, LookForPending, RenamePending
      <4> QED BY <1>0, <1>2, <2>1, <4>1 DEF Goto
    <3>3. (\E w \in Workers : Crash(w)) => pc[i] = "begin"
      BY <1>0, <1>2, <2>1 DEF Crash
    <3>4. (\E t \in Tasks : TaskRead(t) \/ TaskStart(t) \/ TaskEnd(t)) \/ Lapse \/ UNCHANGED vars
             => pc[i] = "begin"
      BY <1>2 DEF TaskRead, TaskStart, TaskEnd, Lapse, vars
    <3> QED BY <2>1, <3>1, <3>2, <3>3, <3>4 DEF Next
  <2>3. /\ pending = NoRev /\ temp = NoRev /\ ws.pub = NoRev /\ active = ws.rev /\ ws.rev # NoRev
        /\ \A w \in Workers :
              /\ pc[w] \in {"idle", "load"} /\ w \in Ops
              /\ pc[w] = "load" => ~seen[w].litter /\ ~seen[w].pub /\ seen[w].rev = active
    BY <1>0, <2>2 DEF BeforeInv, WsState
  <2>4. ASSUME NEW v \in Workers, SyncStep(v)
        PROVE  /\ UNCHANGED <<ws, active, pending, temp>>
               /\ \A w \in Workers \ {v} : pc'[w] = pc[w] /\ seen'[w] = seen[w]
               /\ \/ pc'[v] = "idle"
                  \/ /\ pc'[v] = "load"
                     /\ ~seen'[v].litter /\ ~seen'[v].pub /\ seen'[v].rev = active
    <3>1. SyncBegin(v) \/ SyncLoad(v)
      BY <2>3, <2>4 DEF SyncStep, SyncMatch, SyncPromote, SyncReplace, SyncDiscard, SyncRelease,
         CleanBegin, CleanDiscard, CleanAbort
    <3>2. CASE SyncLoad(v)
      BY <1>0, <2>3, <3>2 DEF SyncLoad, Goto, files
    <3>3. CASE SyncBegin(v)
      <4> DEFINE look == [rev |-> ws.rev, pub |-> ws.pub = ws.rev,
                          litter |-> pending # NoRev \/ temp # NoRev]
      <4>1. /\ seen' = [seen EXCEPT ![v] = look] /\ Goto(v, "load")
            /\ UNCHANGED <<ws, active, pending, temp>>
        BY <3>3 DEF SyncBegin, files
      <4>2. look.rev = ws.rev /\ ~look.pub /\ ~look.litter
        BY <2>3
      <4> HIDE DEF look
      <4> QED BY <1>0, <2>3, <4>1, <4>2 DEF Goto
    <3> QED BY <3>1, <3>2, <3>3
  <2>5. ASSUME NEW v \in Workers, Crash(v)
        PROVE  /\ UNCHANGED <<ws, active, pending, temp, seen>>
               /\ \A w \in Workers : pc'[w] = pc[w] \/ pc'[w] = "idle"
    BY <1>0, <2>5 DEF Crash, files
  <2>6. CASE (\E t \in Tasks : TaskRead(t) \/ TaskStart(t) \/ TaskEnd(t)) \/ Lapse \/ UNCHANGED vars
    <3>1. /\ UNCHANGED <<active, pending, temp, pc, seen>> /\ ws'.rev = ws.rev /\ ws'.pub = ws.pub
      BY <1>0, <2>6 DEF TaskRead, TaskStart, TaskEnd, Lapse, vars, files, WsState
    <3> QED BY <2>3, <3>1
  <2> QED BY <2>1, <2>2, <2>3, <2>4, <2>5, <2>6 DEF Next
<1> QED BY <1>1, <1>2 DEF BeforeInv

\* A single import is always in turn, so that what is shown of imports that take turns holds
\* whenever there is only one.
LEMMA OneImportIsInTurn == OneImport /\ Spec => InTurn
<1> SUFFICES ASSUME OneImport PROVE Spec => InTurn
  OBVIOUS
<1>1. Init => BeforeInv
  <2> SUFFICES ASSUME Init PROVE BeforeInv
    OBVIOUS
  <2>1. \A w \in Workers : pc[w] = "idle"
    BY ImportAssumption DEF Init, Ops
  <2> QED BY <2>1 DEF Init, BeforeInv
<1> QED BY <1>1, BeforeStep, WorkspaceTypeCorrect, PTL DEF Spec, InTurn
=============================================================================
