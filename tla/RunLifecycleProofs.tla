-------------------------- MODULE RunLifecycleProofs --------------------------
(***************************************************************************)
(* What holds of the run table for callers that may do anything, and of     *)
(* the workers executing runs on it, for every set of runs, sessions,       *)
(* conversations and executors, every budget of disruptions and every       *)
(* number of tools.                                                         *)
(***************************************************************************)
EXTENDS RunLifecycle, TLAPS

-----------------------------------------------------------------------------
(* The run table.                                                           *)

\* The rows and the replies keep their types.
LEMMA StoreInitType == StoreInit => StoreTypeOK
  BY MaxToolsAssumption
  DEF StoreInit, StoreTypeOK, AbsentRow, Row, Statuses, Ckpts, NoCkpt, FinalCkpt

\* What a save writes is a row, for any status and checkpoint it is asked to write.
LEMMA SavedRowType ==
  ASSUME NEW row \in Row, NEW w \in Workers, NEW s \in Statuses, NEW c \in Ckpts
  PROVE  SavedRow(row, w, s, c) \in Row
  BY MaxToolsAssumption
  DEF SavedRow, SavedStatus, Row, Statuses, Active, Terminal, Ckpts, NoCkpt, FinalCkpt

\* Each transaction keeps the types.
LEMMA StoreActionType ==
  ASSUME StoreTypeOK, NEW r \in Runs, Transaction(r)
  PROVE  StoreTypeOK'
  <1> USE DEF StoreTypeOK
  <1>0. runs[r] \in Row
    OBVIOUS
  <1>1. ASSUME NEW w \in Workers, StartRun(r, w)
       PROVE  StoreTypeOK'
    BY <1>1, MaxToolsAssumption
    DEF StartRun, Row, Statuses, Active, Ckpts, NoCkpt, FinalCkpt
  <1>2. ASSUME NEW w \in Workers, NEW c \in Ckpts, NEW s \in Statuses \ {"completed"},
              SaveRun(r, w, s, c)
       PROVE  StoreTypeOK'
    BY <1>0, <1>2, SavedRowType DEF SaveRun
  <1>3. ASSUME NEW w \in Workers, RenewLease(r, w)
       PROVE  StoreTypeOK'
    BY <1>3 DEF RenewLease, Row
  <1>4. CASE RequestCancel(r)
    BY <1>4 DEF RequestCancel, Row, Statuses, Active
  <1>5. ASSUME NEW w \in Workers, ClaimRun(r, w)
       PROVE  StoreTypeOK'
    BY <1>5 DEF ClaimRun, Row
  <1>6. ASSUME NEW w \in Workers, NEW c \in Ckpts, ReleaseRun(r, w, c)
       PROVE  StoreTypeOK'
    BY <1>6 DEF ReleaseRun, Row, Statuses, Active
  <1>7. ASSUME NEW w \in Workers, PublishRun(r, w)
       PROVE  StoreTypeOK'
    BY <1>7, MaxToolsAssumption
    DEF PublishRun, Row, Statuses, Terminal, Ckpts, NoCkpt, FinalCkpt
  <1>8. CASE Lapse(r)
    BY <1>8 DEF Lapse, Row
  <1>. QED
    BY <1>1, <1>2, <1>3, <1>4, <1>5, <1>6, <1>7, <1>8 DEF Transaction

-----------------------------------------------------------------------------
(* The inductive invariant: an answered run is a completed one and the      *)
(* other way round, a conversation is busy with one run, and only active    *)
(* rows are owned.  The lease part needs the type, and the reply part needs *)
(* that no transaction leaves a terminal status, so they go together.       *)

StoreInv ==
    /\ StoreTypeOK
    /\ AnsweredIffCompleted
    /\ OneActiveRunPerConversation
    /\ LeaseMatchesOwner

\* The empty store has the invariant: nothing is owned, busy or answered.
LEMMA StoreInitInv == StoreInit => StoreInv
  <1>. SUFFICES ASSUME StoreInit PROVE StoreInv
    OBVIOUS
  <1>1. StoreTypeOK
    BY StoreInitType
  <1>2. AnsweredIffCompleted /\ OneActiveRunPerConversation /\ LeaseMatchesOwner
    BY DEF StoreInit, AbsentRow, AnsweredIffCompleted, OneActiveRunPerConversation,
           LeaseMatchesOwner, IsActive, Active
  <1>. QED
    BY <1>1, <1>2 DEF StoreInv

\* A transaction writes one row; what an invariant says of every row is only
\* to be shown of that one.
LEMMA StoreActionInv ==
  ASSUME StoreInv, NEW r \in Runs, Transaction(r)
  PROVE  StoreInv'
  <1>. DEFINE Others == \A q \in Runs \ {r} : runs'[q] = runs[q] /\ replies'[q] = replies[q]
              Answered(q) == replies[q] = IF runs[q].status = "completed" THEN 1 ELSE 0
              Owned(q) == /\ runs[q].owner = NoOwner <=> runs[q].lease = "none"
                          /\ ~IsActive(q) => runs[q].owner = NoOwner
              Free == \A q \in Runs \ {r} : ConvOf[q] = ConvOf[r] => ~IsActive(q)
              Step == /\ Others
                      /\ Answered(r)'
                      /\ Owned(r)'
                      /\ IsActive(r)' => IsActive(r) \/ Free
  <1>. USE DEF StoreInv, StoreTypeOK
  <1>0. runs[r] \in Row /\ Answered(r) /\ Owned(r)
    BY DEF AnsweredIffCompleted, LeaseMatchesOwner
  <1>1. Step
    <2>1. ASSUME NEW w \in Workers, StartRun(r, w)
         PROVE  Step
      BY <1>0, <2>1, NoOwnerAssumption DEF StartRun, IsActive, Active
    <2>2. ASSUME NEW w \in Workers, NEW c \in Ckpts, NEW s \in Statuses \ {"completed"},
                SaveRun(r, w, s, c)
         PROVE  Step
      <3>1. IsActive(r) /\ runs'[r] = SavedRow(runs[r], w, s, c) /\ UNCHANGED replies /\ Others
        BY <2>2 DEF SaveRun, MaySave, IsActive
      <3>2. runs'[r].status # "completed" /\ runs[r].status # "completed"
        BY <3>1 DEF SavedRow, SavedStatus, IsActive, Active
      <3>3. Owned(r)'
        BY <3>1, NoOwnerAssumption DEF SavedRow, SavedStatus, IsActive, Active
      <3>. QED
        BY <1>0, <3>1, <3>2, <3>3
    <2>3. ASSUME NEW w \in Workers, RenewLease(r, w)
         PROVE  Step
      BY <1>0, <2>3, NoOwnerAssumption DEF RenewLease, MayRenew, IsActive, Row
    <2>4. CASE RequestCancel(r)
      BY <1>0, <2>4 DEF RequestCancel, IsActive, Active, Row
    <2>5. ASSUME NEW w \in Workers, ClaimRun(r, w)
         PROVE  Step
      BY <1>0, <2>5, NoOwnerAssumption DEF ClaimRun, Claimable, IsActive, Row
    <2>6. ASSUME NEW w \in Workers, NEW c \in Ckpts, ReleaseRun(r, w, c)
         PROVE  Step
      BY <1>0, <2>6 DEF ReleaseRun, MayRelease, IsActive, Active, Row
    <2>7. ASSUME NEW w \in Workers, PublishRun(r, w)
         PROVE  Step
      BY <1>0, <2>7 DEF PublishRun, MayPublish, IsActive, Active, Row
    <2>8. CASE Lapse(r)
      BY <1>0, <2>8 DEF Lapse, IsActive, Row
    <2>. QED
      BY <2>1, <2>2, <2>3, <2>4, <2>5, <2>6, <2>7, <2>8 DEF Transaction
  <1>2. StoreTypeOK'
    BY StoreActionType
  <1>3. AnsweredIffCompleted' /\ LeaseMatchesOwner'
    BY <1>1 DEF AnsweredIffCompleted, LeaseMatchesOwner, IsActive
  <1>4. OneActiveRunPerConversation'
    BY <1>1 DEF OneActiveRunPerConversation, IsActive
  <1>. QED
    BY <1>2, <1>3, <1>4

-----------------------------------------------------------------------------
(* Action properties.                                                       *)

\* One transaction never moves a stop request anywhere but to its end, never
\* changes a terminal row, and never takes a live lease from another session.
LEMMA StoreActionSteps ==
  ASSUME StoreInv, NEW r \in Runs, Transaction(r),
         NEW q \in Runs
  PROVE  /\ runs[q].status = "cancel_requested" =>
               runs'[q].status \in {"cancel_requested", "cancelled", "failed"}
         /\ runs[q].status \in Terminal => runs'[q] = runs[q]
         /\ runs[q].status # "absent" => runs'[q].status # "absent"
         /\ runs[q].lease = "live" /\ runs'[q].owner # runs[q].owner =>
               runs'[q].owner = NoOwner
  <1>. DEFINE Goal ==
         /\ runs[q].status = "cancel_requested" =>
               runs'[q].status \in {"cancel_requested", "cancelled", "failed"}
         /\ runs[q].status \in Terminal => runs'[q] = runs[q]
         /\ runs[q].status # "absent" => runs'[q].status # "absent"
         /\ runs[q].lease = "live" /\ runs'[q].owner # runs[q].owner =>
               runs'[q].owner = NoOwner
  <1>. USE DEF StoreInv, StoreTypeOK, Active, Terminal
  <1>0. runs[q] \in Row /\ (runs[q].status = "absent" => runs[q].lease = "none")
    BY DEF LeaseMatchesOwner, IsActive
  <1>1. ASSUME NEW w \in Workers, StartRun(r, w)
       PROVE  Goal
    BY <1>0, <1>1 DEF StartRun
  <1>2. ASSUME NEW w \in Workers, NEW c \in Ckpts, NEW s \in Statuses \ {"completed"},
              SaveRun(r, w, s, c)
       PROVE  Goal
    <2>1. q # r => runs'[q] = runs[q]
      BY <1>2 DEF SaveRun
    <2>2. MaySave(runs[r], w) /\ runs'[r] = SavedRow(runs[r], w, s, c)
      BY <1>2 DEF SaveRun
    <2>3. runs'[r].owner \in {w, NoOwner} /\ runs'[r].status = SavedStatus(runs[r], s)
      BY <2>2 DEF SavedRow
    <2>4. runs[r].owner \in {w, NoOwner} /\ runs[r].status \in Active
      BY <2>2 DEF MaySave
    <2>5. runs[r].lease = "live" => runs[r].owner = w
      BY <2>4 DEF LeaseMatchesOwner
    <2>6. SavedStatus(runs[r], s) # "absent"
      BY <2>4 DEF SavedStatus, Statuses
    <2>7. runs[r].status = "cancel_requested" =>
            SavedStatus(runs[r], s) \in {"cancel_requested", "cancelled", "failed"}
      BY DEF SavedStatus, Statuses
    <2>. QED
      BY <2>1, <2>3, <2>4, <2>5, <2>6, <2>7
  <1>3. ASSUME NEW w \in Workers, RenewLease(r, w)
       PROVE  Goal
    BY <1>0, <1>3 DEF RenewLease, MayRenew, IsActive, Row
  <1>4. CASE RequestCancel(r)
    BY <1>0, <1>4 DEF RequestCancel, IsActive, Row
  <1>5. ASSUME NEW w \in Workers, ClaimRun(r, w)
       PROVE  Goal
    <2>1. runs[r].lease = "live" => runs[r].owner # NoOwner
      BY DEF LeaseMatchesOwner
    <2>2. IsActive(r) /\ runs[r].lease # "live"
      BY <1>5, <2>1 DEF ClaimRun, Claimable
    <2>. QED
      BY <1>0, <1>5, <2>2 DEF ClaimRun, IsActive, Row
  <1>6. ASSUME NEW w \in Workers, NEW c \in Ckpts, ReleaseRun(r, w, c)
       PROVE  Goal
    BY <1>0, <1>6 DEF ReleaseRun, MayRelease
  <1>7. ASSUME NEW w \in Workers, PublishRun(r, w)
       PROVE  Goal
    BY <1>0, <1>7 DEF PublishRun, MayPublish
  <1>8. CASE Lapse(r)
    BY <1>0, <1>8 DEF Lapse, Row, LeaseMatchesOwner, IsActive
  <1>. QED
    BY <1>1, <1>2, <1>3, <1>4, <1>5, <1>6, <1>7, <1>8 DEF Transaction

-----------------------------------------------------------------------------
(* The theorems.                                                            *)

\* Rows, owners, leases and checkpoints are what they should be.
THEOREM StoreTypeCorrect == StoreSpec => []StoreTypeOK
  <1>1. StoreInit => StoreTypeOK
    BY StoreInitType
  <1>2. StoreTypeOK /\ [StoreNext]_storeVars => StoreTypeOK'
    BY StoreActionType DEF StoreNext, StoreTypeOK, storeVars
  <1>. QED
    BY <1>1, <1>2, PTL DEF StoreSpec

\* The store invariant holds under any clients of the transactions.
LEMMA StoreInvariant == StoreSpec => []StoreInv
  <1>1. StoreInit => StoreInv
    BY StoreInitInv
  <1>2. StoreInv /\ [StoreNext]_storeVars => StoreInv'
    <2>1. ASSUME StoreInv, StoreNext PROVE StoreInv'
      BY <2>1, StoreActionInv DEF StoreNext
    <2>2. ASSUME StoreInv, UNCHANGED storeVars PROVE StoreInv'
      BY <2>2 DEF storeVars, StoreInv, StoreTypeOK, AnsweredIffCompleted,
                  OneActiveRunPerConversation, LeaseMatchesOwner, IsActive
    <2>. QED
      BY <2>1, <2>2
  <1>. QED
    BY <1>1, <1>2, PTL DEF StoreSpec

\* A run has its one reply exactly when it is completed (publish_run_completion
\* against save_run, from any number of sessions).
THEOREM StoreAnswers == StoreSpec => []AnsweredIffCompleted
  BY StoreInvariant, PTL DEF StoreInv

\* No interleaving of starts, claims, releases and saves makes a conversation
\* busy with two runs.
THEOREM StoreConversations == StoreSpec => []OneActiveRunPerConversation
  BY StoreInvariant, PTL DEF StoreInv

\* Owners and leases come and go together, and a finished run has neither.
THEOREM StoreOwners == StoreSpec => []LeaseMatchesOwner
  BY StoreInvariant, PTL DEF StoreInv

\* A stop request is never overwritten by a running, released or completed row.
THEOREM StoreCancels == StoreSpec => CancelSticks
  <1>1. StoreInv /\ [StoreNext]_storeVars =>
          [\A r \in Runs : runs[r].status = "cancel_requested" =>
             runs'[r].status \in {"cancel_requested", "cancelled", "failed"}]_storeVars
    BY StoreActionSteps DEF StoreNext
  <1>. QED
    BY <1>1, StoreInvariant, PTL DEF StoreSpec, CancelSticks

\* What was published or given up is never written again.
THEOREM StoreTerminal == StoreSpec => TerminalIsFinal
  <1>1. StoreInv /\ [StoreNext]_storeVars =>
          [\A r \in Runs : /\ runs[r].status \in Terminal => runs'[r] = runs[r]
                           /\ runs[r].status # "absent" => runs'[r].status # "absent"]_storeVars
    BY StoreActionSteps DEF StoreNext
  <1>. QED
    BY <1>1, StoreInvariant, PTL DEF StoreSpec, TerminalIsFinal

\* A session loses a run it holds a live lease on only by giving it up.
THEOREM StoreLeases == StoreSpec => NoTheftOfLiveLease
  <1>1. StoreInv /\ [StoreNext]_storeVars =>
          [\A r \in Runs :
             runs[r].lease = "live" /\ runs'[r].owner # runs[r].owner
               => runs'[r].owner = NoOwner]_storeVars
    BY StoreActionSteps DEF StoreNext
  <1>. QED
    BY <1>1, StoreInvariant, PTL DEF StoreSpec, NoTheftOfLiveLease

-----------------------------------------------------------------------------
(* The inductive invariant.  A worker's rows, its executors and its         *)
(* recovery hold copies of what the store said earlier; what keeps them     *)
(* harmless is that each copy is either still open or agrees with a fact    *)
(* of the store that never changes again: a terminal status, a stop request *)
(* or an episode that has been recorded.                                    *)

LocalRow == [status : Statuses \cup {"absent"}, ckpt : Ckpts]
Recov    == [run : Runs \cup {NoRun}, status : Statuses \cup {"absent"}, ckpt : Ckpts]

\* The user asked to stop r, and it will not be answered.
Stopped(r) == runs[r].status \in {"cancel_requested", "cancelled", "failed"}
Learned(r) == learned[r] > 0

RowOK(row, r) ==
    /\ row \in LocalRow
    /\ row.status \in Terminal => runs[r].status = row.status
    /\ row.status = "cancel_requested" => Stopped(r)
    /\ row.ckpt = FinalCkpt => Learned(r)

AfterLearning == {"final", "returned", "publish", "published"}

ExecOK(x) ==
    /\ x \in Exec
    /\ x.pc # "idle" => x.run \in Runs /\ x.worker \in Workers
    /\ x.pc = "cancelling" => Stopped(x.run)
    /\ x.pc \in AfterLearning => Learned(x.run)

RecovOK(x) ==
    /\ x \in Recov
    /\ x.run # NoRun /\ x.status = "cancel_requested" => Stopped(x.run)
    /\ x.run # NoRun /\ x.ckpt = FinalCkpt => Learned(x.run)

StoredOK(r) == runs[r].ckpt = FinalCkpt \/ replies[r] > 0 => Learned(r)

RestOK ==
    /\ mode \in [Workers -> {"up", "draining", "stopped", "down"}]
    /\ learned \in [Runs -> Nat]
    /\ used \in [Disruptions -> Nat]

IInv ==
    /\ StoreInv
    /\ RestOK
    /\ local \in [Workers -> [Runs -> LocalRow]]
    /\ exec \in [Executors -> Exec]
    /\ recov \in [Workers -> Recov]
    /\ \A w \in Workers, r \in Runs : RowOK(local[w][r], r)
    /\ \A e \in Executors : ExecOK(exec[e])
    /\ \A w \in Workers : RecovOK(recov[w])
    /\ \A r \in Runs : StoredOK(r)

\* The checkpoints: cycle numbers are checkpoints, and none is the final one.
LEMMA CkptFacts ==
    NoCkpt \in Ckpts /\ FinalCkpt \in Ckpts /\ NoCkpt # FinalCkpt
    /\ 0 .. MaxTools \subseteq Ckpts /\ FinalCkpt \notin 0 .. MaxTools
  BY MaxToolsAssumption DEF Ckpts, NoCkpt, FinalCkpt

\* The invariant holds initially: no rows, no executors, no copies.
LEMMA InitInv == Init => IInv
  <1>. SUFFICES ASSUME Init PROVE IInv
    OBVIOUS
  <1>. USE DEF Init
  <1>1. StoreInv
    BY StoreInitInv
  <1>2. RestOK
    BY DEF RestOK
  <1>3. AbsentLocal \in LocalRow /\ NoRecovery \in Recov /\ Idle \in Exec
    BY CkptFacts, MaxToolsAssumption DEF AbsentLocal, LocalRow, NoRecovery, Recov, Idle, Exec
  <1>4. \A w \in Workers, r \in Runs : RowOK(local[w][r], r)
    BY <1>3, CkptFacts DEF RowOK, AbsentLocal, Statuses, Terminal
  <1>5. \A e \in Executors : ExecOK(exec[e])
    BY <1>3 DEF ExecOK, Idle, AfterLearning
  <1>6. \A w \in Workers : RecovOK(recov[w])
    BY <1>3 DEF RecovOK, NoRecovery
  <1>7. \A r \in Runs : StoredOK(r)
    BY CkptFacts DEF StoredOK, StoreInit, AbsentRow
  <1>. QED
    BY <1>1, <1>2, <1>3, <1>4, <1>5, <1>6, <1>7 DEF IInv

\* The properties of interest follow from the invariant.
LEMMA InvImplies == IInv => TypeOK /\ LocalTerminalAgrees /\ AnsweredAfterLearning
  <1>. SUFFICES ASSUME IInv PROVE TypeOK /\ LocalTerminalAgrees /\ AnsweredAfterLearning
    OBVIOUS
  <1>1. TypeOK
    BY DEF IInv, StoreInv, RestOK, TypeOK, LocalRow, Recov
  <1>2. LocalTerminalAgrees
    BY DEF IInv, RowOK, LocalTerminalAgrees
  <1>3. AnsweredAfterLearning
    BY DEF IInv, StoredOK, Learned, AnsweredAfterLearning
  <1>. QED
    BY <1>1, <1>2, <1>3

-----------------------------------------------------------------------------
(* What a step does, seen from the invariant: one transaction of the store  *)
(* that is lawful for a worker, and copies that are kept or good again.     *)

\* A worker saves a stop, or a row it knows to be stopped, only when the
\* durable row asks for it.
LawfulSave(r, s) ==
    \/ s \in {"running", "interrupted", "failed"}
    \/ s \in {"cancel_requested", "cancelled"} /\ runs[r].status = "cancel_requested"

LawfulStep ==
    \/ UNCHANGED storeVars
    \/ \E r \in Runs : RequestCancel(r) \/ Lapse(r)
    \/ \E r \in Runs, w \in Workers :
          StartRun(r, w) \/ RenewLease(r, w) \/ ClaimRun(r, w) \/ PublishRun(r, w)
    \/ \E r \in Runs, w \in Workers, c \in Ckpts : ReleaseRun(r, w, c)
    \/ \E r \in Runs, w \in Workers, c \in Ckpts, s \in Statuses :
          LawfulSave(r, s) /\ SaveRun(r, w, s, c)

LearnedGrows == \A r \in Runs : Learned(r) => Learned(r)'

LocalKept ==
    /\ local' \in [Workers -> [Runs -> LocalRow]]
    /\ \A w \in Workers, r \in Runs :
          local'[w][r] = local[w][r] \/ RowOK(local[w][r], r)'

ExecKept ==
    /\ exec' \in [Executors -> Exec]
    /\ \A e \in Executors : exec'[e] = exec[e] \/ ExecOK(exec[e])'

RecovKept ==
    /\ recov' \in [Workers -> Recov]
    /\ \A w \in Workers : recov'[w] = recov[w] \/ RecovOK(recov[w])'

Effect ==
    /\ LawfulStep
    /\ RestOK'
    /\ LearnedGrows
    /\ LocalKept
    /\ ExecKept
    /\ RecovKept
    /\ \A r \in Runs : StoredOK(r)'

\* A lawful step is a step of the store.
LEMMA LawfulIsStore == LawfulStep => [StoreNext]_storeVars
  <1>1. ASSUME NEW r \in Runs, NEW s \in Statuses, LawfulSave(r, s)
       PROVE  s # "completed"
    BY <1>1 DEF LawfulSave
  <1>. QED
    BY <1>1 DEF LawfulStep, StoreNext, Transaction

\* What the store has once said of a stopped or a terminal run stays true.
LEMMA LawfulKeeps ==
  ASSUME StoreInv, LawfulStep
  PROVE  /\ StoreInv'
         /\ \A r \in Runs : /\ Stopped(r) => Stopped(r)'
                            /\ runs[r].status \in Terminal => runs'[r] = runs[r]
  <1>1. CASE UNCHANGED storeVars
    BY <1>1 DEF storeVars, StoreInv, StoreTypeOK, AnsweredIffCompleted,
                OneActiveRunPerConversation, LeaseMatchesOwner, IsActive, Stopped
  <1>2. CASE StoreNext
    <2>1. StoreInv'
      BY <1>2, StoreActionInv DEF StoreNext
    <2>2. ASSUME NEW r \in Runs
         PROVE  /\ runs[r].status = "cancel_requested" =>
                     runs'[r].status \in {"cancel_requested", "cancelled", "failed"}
                /\ runs[r].status \in Terminal => runs'[r] = runs[r]
      BY <1>2, StoreActionSteps DEF StoreNext
    <2>. QED
      BY <2>1, <2>2 DEF Stopped, Terminal
  <1>. QED
    BY <1>1, <1>2, LawfulIsStore

\* Such a step keeps the invariant.
LEMMA EffectInv ==
  ASSUME IInv, Effect
  PROVE  IInv'
  <1>. USE DEF IInv, Effect
  <1>1. StoreInv' /\ \A r \in Runs : /\ Stopped(r) => Stopped(r)'
                                     /\ runs[r].status \in Terminal => runs'[r] = runs[r]
    BY LawfulKeeps
  <1>2. ASSUME NEW w \in Workers, NEW r \in Runs
       PROVE  RowOK(local[w][r], r)'
    BY <1>1 DEF LocalKept, LearnedGrows, RowOK
  <1>3. ASSUME NEW e \in Executors
       PROVE  ExecOK(exec[e])'
    BY <1>1 DEF ExecKept, LearnedGrows, ExecOK, AfterLearning
  <1>4. ASSUME NEW w \in Workers
       PROVE  RecovOK(recov[w])'
    BY <1>1 DEF RecovKept, LearnedGrows, RecovOK, Recov
  <1>. QED
    BY <1>1, <1>2, <1>3, <1>4 DEF LocalKept, ExecKept, RecovKept

-----------------------------------------------------------------------------
(* The pieces steps are made of.                                            *)

\* An executor at work, its row and what it was told by the store.
LEMMA AtWork ==
  ASSUME IInv, NEW e \in Executors, exec[e].pc # "idle"
  PROVE  /\ RunOf(e) \in Runs /\ WorkerOf(e) \in Workers
         /\ RowOK(RowOf(e), RunOf(e))
         /\ HasRow(e) => RowOf(e).status \in Statuses
         /\ runs[RunOf(e)] \in Row
         /\ exec[e].cycle \in 0 .. MaxTools
  BY DEF IInv, ExecOK, RunOf, WorkerOf, RowOf, HasRow, RowOK, LocalRow, Exec,
         StoreInv, StoreTypeOK

\* An executor that moves on keeps its part of the invariant, given what its
\* new control point claims about the run.
LEMMA GotoKept ==
  ASSUME IInv, NEW e \in Executors, exec[e].pc # "idle", NEW pc \in ThreadPcs \cup LoopPcs,
         NEW r \in Runs, RunOf(e) = r, Goto(e, pc),
         pc = "cancelling" => Stopped(r)',
         pc \in AfterLearning => Learned(r)'
  PROVE  ExecKept
  <1>1. exec' = [exec EXCEPT ![e].pc = pc] /\ exec \in [Executors -> Exec]
    BY DEF Goto, IInv
  <1>2. exec'[e] = [exec[e] EXCEPT !.pc = pc] /\ \A f \in Executors \ {e} : exec'[f] = exec[f]
    BY <1>1
  <1>3. exec'[e] \in Exec /\ exec'[e].run = r /\ exec'[e].worker = WorkerOf(e)
        /\ exec'[e].pc = pc
    BY <1>1, <1>2 DEF Exec, RunOf, WorkerOf
  <1>4. exec' \in [Executors -> Exec]
    BY <1>1, <1>3
  <1>5. ExecOK(exec[e])'
    BY <1>3, AtWork DEF ExecOK, RunOf
  <1>. QED
    BY <1>2, <1>4, <1>5 DEF ExecKept

\* So does one that ends.
LEMMA EndsKept ==
  ASSUME IInv, NEW e \in Executors, Ends(e)
  PROVE  ExecKept
  <1>1. Idle \in Exec
    BY MaxToolsAssumption DEF Idle, Exec
  <1>2. exec' = [exec EXCEPT ![e] = Idle] /\ exec \in [Executors -> Exec]
    BY DEF Ends, IInv
  <1>3. ExecOK(exec[e])'
    BY <1>1, <1>2 DEF ExecOK, Idle, AfterLearning
  <1>. QED
    BY <1>1, <1>2, <1>3 DEF ExecKept

\* A worker's new copy of a row is good if the durable row backs what it says.
LEMMA SetRowKept ==
  ASSUME IInv, NEW w \in Workers, NEW r \in Runs, NEW s \in Statuses \cup {"absent"},
         NEW c \in Ckpts, SetRow(w, r, s, c),
         s \in Terminal => runs'[r].status = s,
         s = "cancel_requested" => Stopped(r)',
         c = FinalCkpt => Learned(r)'
  PROVE  LocalKept
  <1>1. [status |-> s, ckpt |-> c] \in LocalRow
    BY DEF LocalRow
  <1>2. local' = [local EXCEPT ![w][r] = [status |-> s, ckpt |-> c]]
        /\ local \in [Workers -> [Runs -> LocalRow]]
    BY DEF SetRow, IInv
  <1>3. RowOK(local[w][r], r)'
    BY <1>1, <1>2 DEF RowOK
  <1>. QED
    BY <1>1, <1>2, <1>3 DEF LocalKept

\* Dropping a copy is always good.
LEMMA DropRowKept ==
  ASSUME IInv, NEW w \in Workers, NEW r \in Runs, DropRow(w, r)
  PROVE  LocalKept
  <1>1. AbsentLocal \in LocalRow
    BY CkptFacts DEF LocalRow, AbsentLocal
  <1>2. local' = [local EXCEPT ![w][r] = AbsentLocal]
        /\ local \in [Workers -> [Runs -> LocalRow]]
    BY DEF DropRow, IInv
  <1>3. RowOK(local[w][r], r)'
    BY <1>1, <1>2, CkptFacts DEF RowOK, AbsentLocal, Terminal
  <1>. QED
    BY <1>1, <1>2, <1>3 DEF LocalKept

\* Unchanged copies are kept.
LEMMA SameKept ==
  ASSUME IInv
  PROVE  /\ UNCHANGED local => LocalKept
         /\ UNCHANGED exec => ExecKept
         /\ UNCHANGED recov => RecovKept
         /\ UNCHANGED <<mode, learned, used>> => RestOK'
         /\ UNCHANGED learned => LearnedGrows
         /\ LearnedGrows /\ UNCHANGED storeVars => \A r \in Runs : StoredOK(r)'
  BY DEF IInv, LocalKept, ExecKept, RecovKept, RestOK, LearnedGrows, Learned,
         StoredOK, storeVars

\* Renewals, claims, stop requests and time leave checkpoints and replies alone.
LEMMA QuietKept ==
  ASSUME IInv, LearnedGrows, NEW r \in Runs,
         \/ RequestCancel(r) \/ Lapse(r)
         \/ \E w \in Workers : RenewLease(r, w) \/ ClaimRun(r, w)
  PROVE  LawfulStep /\ \A q \in Runs : StoredOK(q)'
  <1>1. runs \in [Runs -> Row]
    BY DEF IInv, StoreInv, StoreTypeOK
  <1>2. UNCHANGED replies /\ \A q \in Runs : runs'[q].ckpt = runs[q].ckpt
    <2>1. CASE RequestCancel(r) \/ Lapse(r)
      BY <1>1, <2>1 DEF RequestCancel, Lapse, Row
    <2>2. ASSUME NEW w \in Workers, RenewLease(r, w) \/ ClaimRun(r, w)
          PROVE  UNCHANGED replies /\ \A q \in Runs : runs'[q].ckpt = runs[q].ckpt
      BY <1>1, <2>2 DEF RenewLease, ClaimRun, Row
    <2>. QED
      BY <2>1, <2>2
  <1>3. \A q \in Runs : StoredOK(q)'
    BY <1>2 DEF IInv, StoredOK, LearnedGrows
  <1>. QED
    BY <1>3 DEF LawfulStep

\* A lawful save, and the copy of its outcome in the worker's row.
LEMMA SaveKept ==
  ASSUME IInv, NEW w \in Workers, NEW r \in Runs, NEW s \in Statuses, NEW c \in Ckpts,
         LearnedGrows, SaveRun(r, w, s, c), s \in Active \cup {"cancelled", "failed"},
         s = "cancel_requested" \/ s = "cancelled" => Stopped(r),
         c = FinalCkpt => Learned(r)'
  PROVE  /\ LawfulStep
         /\ \A q \in Runs : StoredOK(q)'
         /\ runs'[r].status = SavedStatus(runs[r], s)
         /\ SavedStatus(runs[r], s) \in Statuses
         /\ SetRow(w, r, SavedStatus(runs[r], s), c) => LocalKept
         /\ SavedStatus(runs[r], s) = "cancel_requested" => Stopped(r)'
  <1>1. MaySave(runs[r], w) /\ runs' = [runs EXCEPT ![r] = SavedRow(runs[r], w, s, c)]
        /\ UNCHANGED replies /\ runs \in [Runs -> Row]
    BY DEF SaveRun, IInv, StoreInv, StoreTypeOK
  <1>2. LawfulSave(r, s)
    BY <1>1 DEF MaySave, LawfulSave, Stopped, Active
  <1>3. LawfulStep
    BY <1>2 DEF LawfulStep
  <1>4. runs'[r] = SavedRow(runs[r], w, s, c) /\ \A q \in Runs \ {r} : runs'[q] = runs[q]
    BY <1>1
  <1>5. runs'[r].status = SavedStatus(runs[r], s)
    BY <1>4 DEF SavedRow
  <1>6. SavedStatus(runs[r], s) \in Statuses
    BY DEF SavedStatus, Statuses, Active
  <1>7. runs'[r].ckpt = c \/ runs'[r].ckpt = NoCkpt
    BY <1>4 DEF SavedRow
  <1>8. ASSUME NEW q \in Runs PROVE StoredOK(q)'
    BY <1>1, <1>4, <1>7, CkptFacts DEF IInv, StoredOK, LearnedGrows
  <1>9. SavedStatus(runs[r], s) = "cancel_requested" => Stopped(r)'
    BY <1>5 DEF Stopped
  <1>10. ASSUME SetRow(w, r, SavedStatus(runs[r], s), c) PROVE LocalKept
    BY <1>5, <1>6, <1>9, <1>10, SetRowKept
  <1>. QED
    BY <1>3, <1>5, <1>6, <1>8, <1>9, <1>10

\* What a persistence of an executor does to the store and to its row.
LEMMA PersistKept ==
  ASSUME IInv, LearnedGrows, NEW e \in Executors, exec[e].pc # "idle",
         NEW r \in Runs, RunOf(e) = r, NEW w \in Workers, WorkerOf(e) = w,
         NEW s, NEW c \in Ckpts,
         s = RowOf(e).status \/ s = "failed" \/ (s = "cancelled" /\ Stopped(r)),
         c = FinalCkpt => Learned(r)',
         \/ UNCHANGED <<storeVars, local>>
         \/ Retire(e) /\ UNCHANGED storeVars
         \/ /\ HasRow(e) /\ SaveRun(r, w, s, c)
            /\ SetRow(w, r, SavedStatus(runs[r], s), c)
  PROVE  /\ LawfulStep /\ LocalKept
         /\ \A q \in Runs : StoredOK(q)'
         /\ HasRow(e) /\ SaveRun(r, w, s, c) /\ SavedStatus(runs[r], s) = "cancel_requested"
              => Stopped(r)'
  <1>0. RowOK(RowOf(e), r) /\ (HasRow(e) => RowOf(e).status \in Statuses)
    BY AtWork
  <1>1. ASSUME HasRow(e), SaveRun(r, w, s, c)
        PROVE  /\ LawfulStep
               /\ \A q \in Runs : StoredOK(q)'
               /\ SetRow(w, r, SavedStatus(runs[r], s), c) => LocalKept
               /\ SavedStatus(runs[r], s) = "cancel_requested" => Stopped(r)'
    <2>1. runs[r].status \in Active
      BY <1>1 DEF SaveRun, MaySave
    <2>2. RowOf(e).status \notin Terminal
      BY <1>0, <2>1 DEF RowOK, Active, Terminal
    <2>3. s \in Statuses /\ s \in Active \cup {"cancelled", "failed"}
      BY <1>0, <1>1, <2>2 DEF Statuses, Terminal, Active
    <2>4. s = "cancel_requested" \/ s = "cancelled" => Stopped(r)
      BY <1>0, <2>2 DEF RowOK, Terminal
    <2>. QED
      BY <1>1, <2>3, <2>4, SaveKept
  <1>2. CASE UNCHANGED <<storeVars, local>>
    <2>1. LawfulStep /\ LocalKept /\ \A q \in Runs : StoredOK(q)'
      BY <1>2, SameKept DEF LawfulStep
    <2>. QED
      BY <1>1, <2>1
  <1>3. CASE Retire(e) /\ UNCHANGED storeVars
    <2>1. DropRow(w, r)
      BY <1>3 DEF Retire
    <2>2. LawfulStep /\ LocalKept /\ \A q \in Runs : StoredOK(q)'
      BY <1>3, <2>1, SameKept, DropRowKept DEF LawfulStep
    <2>. QED
      BY <1>1, <2>2
  <1>4. CASE /\ HasRow(e) /\ SaveRun(r, w, s, c)
             /\ SetRow(w, r, SavedStatus(runs[r], s), c)
    BY <1>1, <1>4
  <1>. QED
    BY <1>2, <1>3, <1>4

\* A fence of the runner thread.
LEMMA FenceKept ==
  ASSUME IInv, LearnedGrows, NEW e \in Executors, exec[e].pc # "idle",
         NEW r \in Runs, RunOf(e) = r, NEW c \in Ckpts,
         NEW next \in ThreadPcs, Fence(e, c, next),
         c = FinalCkpt => Learned(r)',
         next \in AfterLearning => Learned(r)'
  PROVE  LawfulStep /\ LocalKept /\ ExecKept /\ \A q \in Runs : StoredOK(q)'
  <1>. PICK w \in Workers : w = WorkerOf(e)
    BY AtWork
  <1>. DEFINE s == RowOf(e).status
              Saved == /\ HasRow(e) /\ SaveRun(r, w, s, c)
                       /\ SetRow(w, r, SavedStatus(runs[r], s), c)
  <1>1. \/ UNCHANGED <<storeVars, local>> /\ Goto(e, next)
        \/ Retire(e) /\ UNCHANGED storeVars
        \/ Saved /\ Goto(e, next)
        \/ Saved /\ SavedStatus(runs[r], s) = "cancel_requested" /\ Goto(e, "cancelling")
    BY DEF Fence, Persist
  <1>2. /\ LawfulStep /\ LocalKept
        /\ \A q \in Runs : StoredOK(q)'
        /\ Saved /\ SavedStatus(runs[r], s) = "cancel_requested" => Stopped(r)'
    BY <1>1, PersistKept
  <1>3. next # "cancelling" /\ "cancelling" \notin AfterLearning
    BY DEF ThreadPcs, AfterLearning
  <1>4. Goto(e, next) => ExecKept
    BY <1>3, GotoKept
  <1>5. Goto(e, "cancelling") /\ Stopped(r)' => ExecKept
    BY <1>3, GotoKept DEF LoopPcs
  <1>6. Retire(e) => ExecKept
    BY EndsKept DEF Retire
  <1>. QED
    BY <1>1, <1>2, <1>4, <1>5, <1>6

-----------------------------------------------------------------------------
(* The steps, one by one.                                                   *)

\* The executor's own steps.
LEMMA ExecutorEffect ==
  ASSUME IInv, NEW e \in Executors, ExecutorStep(e)
  PROVE  Effect
  <1>. DEFINE Stays == UNCHANGED <<mode, recov, learned, used>>
              Done == /\ LawfulStep /\ LocalKept /\ ExecKept
                      /\ \A q \in Runs : StoredOK(q)'
  <1>0. exec[e].pc # "idle"
    BY DEF ExecutorStep, Begin, PreRun, Resume, Poll, Execute, ToolReturns, Verify,
           UpdatePolicy, EpisodeFence, RecordEpisode, FinalCheckpoint, Returned, Publish,
           Published, Cancelling, Failing, Handoff, InThread, InLoop
  <1>. PICK r \in Runs, w \in Workers : r = RunOf(e) /\ w = WorkerOf(e)
    BY <1>0, AtWork
  <1>1. /\ RowOf(e) = local[w][r] /\ RowOK(RowOf(e), r) /\ RowOf(e).ckpt \in Ckpts
        /\ RowOf(e).ckpt = FinalCkpt => Learned(r)
        /\ exec[e].cycle \in Ckpts /\ exec[e].cycle # FinalCkpt
        /\ exec[e].pc \in AfterLearning => Learned(r)
        /\ runs \in [Runs -> Row]
    BY <1>0, AtWork, CkptFacts
    DEF RowOf, RunOf, RowOK, LocalRow, IInv, ExecOK, StoreInv, StoreTypeOK
  <1>2. Stays => RestOK' /\ LearnedGrows /\ RecovKept
    BY SameKept
  <1>3. UNCHANGED storeVars => LawfulStep
    BY DEF LawfulStep
  <1>4. ASSUME Stays, Done PROVE Effect
    BY <1>2, <1>4 DEF Effect
  <1>5. CASE Begin(e)
    <2>1. Goto(e, "prerun") => ExecKept
      BY <1>0, GotoKept DEF LoopPcs, AfterLearning
    <2>2. Retire(e) => ExecKept /\ LocalKept
      BY EndsKept, DropRowKept DEF Retire
    <2>. QED
      BY <1>2, <1>3, <1>4, <1>5, <2>1, <2>2, SameKept DEF Begin
  <1>6. CASE PreRun(e)
    <2>. DEFINE next == IF exec[e].cycle > 0 THEN "resume" ELSE "poll"
    <2>1. next \in ThreadPcs \cup LoopPcs /\ next # "cancelling" /\ next \notin AfterLearning
      BY DEF ThreadPcs, AfterLearning
    <2>2. Goto(e, next) => ExecKept
      BY <1>0, <2>1, GotoKept
    <2>3. Retire(e) => ExecKept
      BY EndsKept DEF Retire
    <2>. QED
      BY <1>0, <1>1, <1>2, <1>4, <1>6, <2>2, <2>3, PersistKept
      DEF PreRun, Persist, LearnedGrows
  <1>7. ASSUME NEW c \in Ckpts, NEW next \in ThreadPcs, Fence(e, c, next),
               LearnedGrows, RestOK', RecovKept,
               c = FinalCkpt => Learned(r)', next \in AfterLearning => Learned(r)'
        PROVE  Effect
    BY <1>0, <1>7, FenceKept DEF Effect
  <1>8. CASE Resume(e)
    BY <1>1, <1>2, <1>7, <1>8 DEF Resume, ThreadPcs, AfterLearning, LearnedGrows
  <1>9. CASE Poll(e)
    <2>1. ASSUME Goto(e, "cancelling"), StopSeen(e), UNCHANGED storeVars
          PROVE  ExecKept /\ Stopped(r)'
      <3>1. Stopped(r) /\ Stopped(r)'
        BY <1>1, <2>1 DEF StopSeen, RowOK, Stopped, storeVars
      <3>. QED
        BY <1>0, <2>1, <3>1, GotoKept DEF LoopPcs, AfterLearning
    <2>2. ASSUME SetRow(w, r, "cancel_requested", RowOf(e).ckpt), Stopped(r)', LearnedGrows
          PROVE  LocalKept
      BY <1>1, <2>2, SetRowKept DEF Statuses, Active, Terminal, LearnedGrows
    <2>3. Goto(e, "handoff") \/ Goto(e, "verify") => ExecKept
      BY <1>0, GotoKept DEF LoopPcs, ThreadPcs, AfterLearning
    <2>4. ASSUME BudgetLeft(e),
                 exec' = [exec EXCEPT ![e].pc = "execute", ![e].cycle = @ + 1]
          PROVE  ExecKept
      <3>1. exec'[e] = [exec[e] EXCEPT !.pc = "execute", !.cycle = @ + 1]
            /\ \A f \in Executors \ {e} : exec'[f] = exec[f]
        BY <2>4 DEF IInv
      <3>2. exec[e].cycle + 1 \in 0 .. MaxTools
        BY <2>4, <1>0, AtWork, MaxToolsAssumption DEF BudgetLeft
      <3>3. exec[e] \in Exec /\ exec[e].run = r /\ exec[e].worker = w
        BY DEF IInv, RunOf, WorkerOf
      <3>4. exec'[e] \in Exec /\ exec'[e].run = r /\ exec'[e].worker = w
            /\ exec'[e].pc = "execute"
        BY <3>1, <3>2, <3>3 DEF Exec, ThreadPcs
      <3>5. ExecOK(exec[e])'
        BY <3>4 DEF ExecOK, AfterLearning
      <3>6. exec' \in [Executors -> Exec]
        BY <2>4, <3>1, <3>4 DEF IInv
      <3>. QED
        BY <3>1, <3>5, <3>6 DEF ExecKept
    <2>5. ExecKept /\ LocalKept
      BY <1>2, <1>9, <2>1, <2>2, <2>3, <2>4, SameKept DEF Poll
    <2>. QED
      BY <1>2, <1>3, <1>4, <1>9, <2>5, SameKept DEF Poll
  <1>10. CASE Execute(e)
    BY <1>1, <1>2, <1>7, <1>10 DEF Execute, ThreadPcs, AfterLearning, LearnedGrows
  <1>11. CASE ToolReturns(e)
    BY <1>1, <1>2, <1>7, <1>11 DEF ToolReturns, ThreadPcs, AfterLearning, LearnedGrows
  <1>12. CASE Verify(e)
    BY <1>1, <1>2, <1>7, <1>12 DEF Verify, ThreadPcs, AfterLearning, LearnedGrows
  <1>13. ASSUME NEW next \in {"episode", "record"}, LearnFence(e, next), Stays
         PROVE  Effect
    <2>1. CASE Retire(e) /\ UNCHANGED storeVars
      <3>1. ExecKept /\ LocalKept
        BY <2>1, EndsKept, DropRowKept DEF Retire
      <3>. QED
        BY <1>2, <1>3, <1>4, <1>13, <2>1, <3>1, SameKept
    <2>2. CASE /\ RenewLease(r, w) /\ UNCHANGED local
               /\ Goto(e, IF runs[r].status = "cancel_requested" THEN "cancelling" ELSE next)
      <3>1. LawfulStep /\ LocalKept /\ \A q \in Runs : StoredOK(q)'
        BY <1>2, <1>13, <2>2, QuietKept, SameKept
      <3>2. runs'[r].status = runs[r].status
        BY <1>1, <2>2 DEF RenewLease, Row
      <3>4. runs[r].status = "cancel_requested" => Stopped(r)'
        BY <3>2 DEF Stopped
      <3>5. ExecKept
        BY <1>0, <2>2, <3>4, GotoKept DEF ThreadPcs, LoopPcs, AfterLearning
      <3>. QED
        BY <1>4, <1>13, <3>1, <3>5
    <2>. QED
      BY <1>13, <2>1, <2>2 DEF LearnFence
  <1>14. CASE UpdatePolicy(e)
    BY <1>13, <1>14 DEF UpdatePolicy
  <1>15. CASE EpisodeFence(e)
    BY <1>13, <1>15 DEF EpisodeFence
  <1>16. CASE RecordEpisode(e)
    <2>1. learned' = [learned EXCEPT ![r] = @ + 1] /\ learned \in [Runs -> Nat]
      BY <1>16 DEF RecordEpisode, IInv, RestOK
    <2>2. Learned(r)' /\ LearnedGrows /\ learned' \in [Runs -> Nat]
      BY <2>1 DEF Learned, LearnedGrows
    <2>3. RestOK' /\ RecovKept
      BY <1>16, <2>2, SameKept DEF RecordEpisode, IInv, RestOK
    <2>. QED
      BY <1>1, <1>7, <1>16, <2>2, <2>3 DEF RecordEpisode, ThreadPcs
  <1>17. CASE FinalCheckpoint(e)
    <2>1. Learned(r)
      BY <1>1, <1>17 DEF FinalCheckpoint, InThread, AfterLearning
    <2>. QED
      BY <1>1, <1>2, <1>7, <1>17, <2>1, CkptFacts DEF FinalCheckpoint, ThreadPcs, LearnedGrows
  <1>18. CASE Returned(e)
    <2>1. Learned(r)
      BY <1>1, <1>18 DEF Returned, InThread, AfterLearning
    <2>2. CASE runs[r].status = "cancel_requested" /\ Goto(e, "cancelling")
               /\ UNCHANGED <<storeVars, local>>
      <3>1. Stopped(r)'
        BY <2>2 DEF Stopped, storeVars
      <3>. QED
        BY <1>0, <1>2, <1>3, <1>4, <1>18, <2>2, <3>1, GotoKept, SameKept
        DEF Returned, LoopPcs, AfterLearning
    <2>3. CASE RenewLease(r, w) /\ Goto(e, "publish") /\ UNCHANGED local
      BY <1>0, <1>2, <1>4, <1>18, <2>1, <2>3, QuietKept, GotoKept, SameKept
      DEF Returned, LoopPcs, LearnedGrows
    <2>4. CASE /\ IF runs[r].status \in Terminal /\ HasRow(e)
                  THEN SetRow(w, r, runs[r].status, NoCkpt) ELSE DropRow(w, r)
               /\ Ends(e) /\ UNCHANGED storeVars
      <3>1. runs[r].status \in Terminal /\ UNCHANGED storeVars =>
              /\ runs[r].status \in Statuses /\ runs'[r].status = runs[r].status
              /\ runs[r].status # "cancel_requested"
        BY DEF Statuses, Terminal, storeVars
      <3>2. LocalKept
        BY <2>4, <3>1, SetRowKept, DropRowKept, CkptFacts
      <3>. QED
        BY <1>2, <1>3, <1>4, <1>18, <2>4, <3>2, EndsKept, SameKept DEF Returned
    <2>. QED
      BY <1>18, <2>2, <2>3, <2>4 DEF Returned
  <1>19. CASE Publish(e)
    <2>1. Learned(r)
      BY <1>1, <1>19 DEF Publish, InLoop, AfterLearning
    <2>2. CASE Goto(e, "failing") /\ UNCHANGED <<storeVars, local>>
      BY <1>0, <1>2, <1>3, <1>4, <1>19, <2>2, GotoKept, SameKept
      DEF Publish, LoopPcs, AfterLearning
    <2>3. CASE PublishRun(r, w) /\ Goto(e, "published") /\ UNCHANGED local
      <3>1. \A q \in Runs \ {r} : runs'[q] = runs[q] /\ replies'[q] = replies[q]
        BY <2>3 DEF PublishRun, IInv, StoreInv, StoreTypeOK
      <3>2. \A q \in Runs : StoredOK(q)'
        BY <1>2, <1>19, <2>1, <3>1 DEF Publish, IInv, StoredOK, LearnedGrows
      <3>3. LawfulStep
        BY <2>3 DEF LawfulStep
      <3>. QED
        BY <1>0, <1>2, <1>4, <1>19, <2>1, <2>3, <3>2, <3>3, GotoKept, SameKept
        DEF Publish, LoopPcs, LearnedGrows
    <2>4. CASE /\ IF runs[r].status = "cancel_requested"
                  THEN Goto(e, "cancelling") /\ UNCHANGED local ELSE Retire(e)
               /\ UNCHANGED storeVars
      <3>1. runs[r].status = "cancel_requested" => Stopped(r)'
        BY <2>4 DEF Stopped, storeVars
      <3>2. ExecKept /\ LocalKept
        BY <1>0, <2>4, <3>1, GotoKept, EndsKept, DropRowKept, SameKept
        DEF Retire, LoopPcs, AfterLearning
      <3>. QED
        BY <1>2, <1>3, <1>4, <1>19, <2>4, <3>2, SameKept DEF Publish
    <2>. QED
      BY <1>19, <2>2, <2>3, <2>4 DEF Publish
  <1>20. CASE Published(e)
    BY <1>2, <1>3, <1>4, <1>20, EndsKept, DropRowKept, SameKept DEF Published, Retire
  <1>21. CASE Cancelling(e)
    <2>1. Stopped(r)
      BY <1>0, <1>21 DEF Cancelling, InLoop, IInv, ExecOK, RunOf
    <2>2. ExecKept
      BY <1>21, EndsKept DEF Cancelling, Persist, Retire
    <2>. QED
      BY <1>0, <1>2, <1>4, <1>21, <2>1, <2>2, CkptFacts, PersistKept DEF Cancelling, Persist
  <1>22. CASE Failing(e)
    <2>1. ExecKept
      BY <1>22, EndsKept DEF Failing, Persist, Retire
    <2>. QED
      BY <1>0, <1>2, <1>4, <1>22, <2>1, CkptFacts, PersistKept DEF Failing, Persist
  <1>23. CASE Handoff(e)
    <2>1. CASE ~HasRow(e) /\ UNCHANGED <<storeVars, local>>
      BY <1>2, <1>3, <1>4, <1>23, <2>1, EndsKept, SameKept DEF Handoff
    <2>2. CASE ReleaseRun(r, w, RowOf(e).ckpt) /\ SetRow(w, r, "interrupted", RowOf(e).ckpt)
      <3>1. LawfulStep
        BY <1>1, <2>2 DEF LawfulStep
      <3>2. LocalKept
        BY <1>1, <1>2, <1>23, <2>2, SetRowKept
        DEF Handoff, Statuses, Active, Terminal, LearnedGrows
      <3>3. UNCHANGED replies /\ runs'[r].ckpt = RowOf(e).ckpt
            /\ \A q \in Runs \ {r} : runs'[q] = runs[q]
        BY <1>1, <2>2 DEF ReleaseRun
      <3>4. \A q \in Runs : StoredOK(q)'
        BY <1>1, <1>2, <1>23, <3>3 DEF Handoff, IInv, StoredOK, LearnedGrows
      <3>. QED
        BY <1>4, <1>23, <3>1, <3>2, <3>4, EndsKept DEF Handoff
    <2>3. CASE /\ HasRow(e) /\ UNCHANGED storeVars
               /\ SetRow(w, r, runs[r].status, RowOf(e).ckpt)
      <3>1. runs[r].status \in Statuses \cup {"absent"} /\ runs'[r].status = runs[r].status
            /\ (runs[r].status = "cancel_requested" => Stopped(r)')
        BY <1>1, <2>3 DEF Row, Stopped, storeVars
      <3>2. LocalKept
        BY <1>1, <1>2, <1>23, <2>3, <3>1, SetRowKept DEF Handoff, LearnedGrows
      <3>. QED
        BY <1>2, <1>3, <1>4, <1>23, <2>3, <3>2, EndsKept, SameKept DEF Handoff
    <2>. QED
      BY <1>23, <2>1, <2>2, <2>3 DEF Handoff
  <1>. QED
    BY <1>5, <1>6, <1>8, <1>9, <1>10, <1>11, <1>12, <1>14, <1>15, <1>16, <1>17, <1>18,
       <1>19, <1>20, <1>21, <1>22, <1>23
    DEF ExecutorStep

\* Disruptions are counted.
LEMMA SpendKept ==
  ASSUME IInv, NEW d \in Disruptions, Spend(d), UNCHANGED learned,
         mode' \in [Workers -> {"up", "draining", "stopped", "down"}]
  PROVE  RestOK'
  <1>1. used' = [used EXCEPT ![d] = @ + 1]
    BY DEF Spend
  <1>. QED
    BY <1>1 DEF IInv, RestOK

\* A storage error before the runner, and an exception inside it.
LEMMA ErrorEffect ==
  ASSUME IInv, NEW e \in Executors, RunnerError(e) \/ PreRunError(e)
  PROVE  Effect
  <1>1. CASE RunnerError(e)
    <2>1. exec[e].pc # "idle"
      BY <1>1 DEF RunnerError, ThreadPcs
    <2>2. ExecKept
      BY <1>1, <2>1, AtWork, GotoKept DEF RunnerError, LoopPcs, AfterLearning
    <2>. QED
      BY <1>1, <2>2, SameKept DEF RunnerError, Effect, LawfulStep
  <1>2. CASE PreRunError(e)
    <2>1. RestOK'
      BY <1>2, SpendKept DEF PreRunError, Disruptions, IInv, RestOK
    <2>. QED
      BY <1>2, <2>1, EndsKept, SameKept DEF PreRunError, Effect, LawfulStep
  <1>. QED
    BY <1>1, <1>2

\* The route that accepts a task.
LEMMA StartEffect ==
  ASSUME IInv, NEW w \in Workers, NEW r \in Runs, NEW e \in Executors, Start(w, r, e)
  PROVE  Effect
  <1>1. /\ StartRun(r, w) /\ SetRow(w, r, "running", NoCkpt)
        /\ exec' = [exec EXCEPT ![e] = [pc |-> "begin", run |-> r, worker |-> w, cycle |-> 0]]
        /\ UNCHANGED <<mode, recov, learned, used>>
    BY DEF Start
  <1>2. RestOK' /\ LearnedGrows /\ RecovKept
    BY <1>1, SameKept
  <1>3. LawfulStep
    BY <1>1 DEF LawfulStep
  <1>4. UNCHANGED replies /\ runs'[r].ckpt = NoCkpt /\ \A q \in Runs \ {r} : runs'[q] = runs[q]
    BY <1>1 DEF StartRun, IInv, StoreInv, StoreTypeOK
  <1>5. \A q \in Runs : StoredOK(q)'
    BY <1>2, <1>4, CkptFacts DEF IInv, StoredOK, LearnedGrows
  <1>6. LocalKept
    BY <1>1, CkptFacts, SetRowKept DEF Statuses, Active, Terminal
  <1>7. [pc |-> "begin", run |-> r, worker |-> w, cycle |-> 0] \in Exec
    BY MaxToolsAssumption DEF Exec, LoopPcs
  <1>8. ExecOK(exec[e])'
    BY <1>1, <1>7 DEF ExecOK, AfterLearning, IInv
  <1>9. ExecKept
    BY <1>1, <1>7, <1>8 DEF ExecKept, IInv
  <1>. QED
    BY <1>2, <1>3, <1>5, <1>6, <1>9 DEF Effect

\* What the recovery does with a row it has claimed.
LEMMA RecoveryEffect ==
  ASSUME IInv, NEW w \in Workers, RecoveryStep(w)
  PROVE  Effect
  <1>. DEFINE r == recov[w].run
  <1>0. Recovering(w) /\ r \in Runs /\ recov[w] \in Recov /\ RecovOK(recov[w])
        /\ runs \in [Runs -> Row]
    BY DEF RecoveryStep, RecoverCancelled, RecoverStale, RecoverAnswer, RecoverStage,
           Recovering, IInv, Recov, StoreInv, StoreTypeOK
  <1>1. ASSUME RecoveryDone(w) PROVE RecovKept
    <2>1. NoRecovery \in Recov /\ recov' = [recov EXCEPT ![w] = NoRecovery]
      BY <1>1, CkptFacts DEF RecoveryDone, NoRecovery, Recov
    <2>2. RecovOK(recov[w])'
      BY <2>1 DEF RecovOK, NoRecovery, IInv
    <2>. QED
      BY <2>1, <2>2 DEF RecovKept, IInv
  <1>2. ASSUME UNCHANGED <<local, exec, mode, learned, used>>, RecoveryDone(w),
               NEW s \in {"cancelled", "failed"}, RecoverySave(w, s),
               s = "cancelled" => Stopped(r)
        PROVE  Effect
    <2>1. PICK q \in Runs : q = r
      BY <1>0
    <2>2. LawfulStep /\ \A p \in Runs : StoredOK(p)'
      BY <1>2, <2>1, SaveKept, SameKept, CkptFacts
      DEF RecoverySave, Statuses, Terminal, LawfulStep
    <2>. QED
      BY <1>1, <1>2, <2>2, SameKept DEF Effect
  <1>3. CASE RecoverCancelled(w)
    BY <1>0, <1>2, <1>3 DEF RecoverCancelled, RecovOK, Recovering
  <1>4. CASE RecoverStale(w)
    BY <1>2, <1>4 DEF RecoverStale
  <1>5. CASE RecoverAnswer(w)
    <2>1. PICK q \in Runs : q = r
      BY <1>0
    <2>2. Learned(q)
      BY <1>0, <1>5, <2>1 DEF RecoverAnswer, RecovOK, Recovering
    <2>3. CASE PublishRun(q, w) /\ UNCHANGED local
      <3>1. \A p \in Runs \ {q} : runs'[p] = runs[p] /\ replies'[p] = replies[p]
        BY <2>3 DEF PublishRun, IInv, StoreInv, StoreTypeOK
      <3>2. UNCHANGED learned
        BY <1>5 DEF RecoverAnswer
      <3>3. \A p \in Runs : StoredOK(p)'
        BY <2>2, <3>1, <3>2 DEF IInv, StoredOK, Learned
      <3>4. LawfulStep
        BY <2>3 DEF LawfulStep
      <3>. QED
        BY <1>1, <1>5, <2>3, <3>3, <3>4, SameKept DEF RecoverAnswer, Effect
    <2>4. CASE DropRow(w, q) /\ UNCHANGED storeVars
      <3>1. LawfulStep
        BY <2>4 DEF LawfulStep
      <3>. QED
        BY <1>1, <1>5, <2>4, <3>1, DropRowKept, SameKept DEF RecoverAnswer, Effect
    <2>. QED
      BY <1>5, <2>1, <2>3, <2>4 DEF RecoverAnswer
  <1>6. ASSUME NEW e \in Executors, RecoverStage(w, e) PROVE Effect
    <2>1. PICK q \in Runs, c \in Ckpts : q = r /\ c = recov[w].ckpt
      BY <1>0 DEF Recov
    <2>2. c # FinalCkpt /\ RecoveryDone(w) /\ UNCHANGED <<mode, learned, used>>
      BY <1>6, <2>1 DEF RecoverStage
    <2>3. CASE /\ SaveRun(q, w, "running", c)
               /\ SetRow(w, q, SavedStatus(runs[q], "running"), c)
               /\ exec' = [exec EXCEPT ![e] =
                              [pc |-> "begin", run |-> q, worker |-> w, cycle |-> c]]
      <3>1. LawfulStep /\ LocalKept /\ \A p \in Runs : StoredOK(p)'
        BY <2>2, <2>3, SaveKept, SameKept DEF Statuses, Active
      <3>2. [pc |-> "begin", run |-> q, worker |-> w, cycle |-> c] \in Exec
        BY <2>2, MaxToolsAssumption DEF Exec, LoopPcs, Ckpts, FinalCkpt, NoCkpt
      <3>3. ExecOK(exec[e])'
        BY <2>3, <3>2 DEF ExecOK, AfterLearning, IInv
      <3>4. ExecKept
        BY <2>3, <3>2, <3>3 DEF ExecKept, IInv
      <3>. QED
        BY <1>1, <2>2, <3>1, <3>4, SameKept DEF Effect
    <2>4. CASE DropRow(w, q) /\ UNCHANGED <<storeVars, exec>>
      <3>1. LawfulStep
        BY <2>4 DEF LawfulStep
      <3>. QED
        BY <1>1, <2>2, <2>4, <3>1, DropRowKept, SameKept DEF Effect
    <2>. QED
      BY <1>6, <2>1, <2>3, <2>4 DEF RecoverStage
  <1>. QED
    BY <1>3, <1>4, <1>5, <1>6 DEF RecoveryStep

\* The heartbeat, and the user.
LEMMA HeartbeatEffect ==
  ASSUME IInv, NEW w \in Workers, NEW r \in Runs,
         Renew(w, r) \/ Claim(w, r) \/ Cancel(w, r)
  PROVE  Effect
  <1>0. runs[r] \in Row /\ runs \in [Runs -> Row] /\ RowOK(local[w][r], r) /\ StoredOK(r)
        /\ local[w][r] \in LocalRow
    BY DEF IInv, StoreInv, StoreTypeOK
  <1>1. CASE Renew(w, r)
    BY <1>1, QuietKept, SameKept DEF Renew, workerVars, Effect
  <1>2. CASE Claim(w, r)
    <2>1. ClaimRun(r, w) /\ IsActive(r) /\ UNCHANGED <<local, exec, mode, learned>>
      BY <1>2 DEF Claim, ClaimRun, Claimable
    <2>2. LearnedGrows
      BY <2>1, SameKept
    <2>3. LawfulStep /\ \A q \in Runs : StoredOK(q)'
      BY <2>1, <2>2, QuietKept
    <2>4. runs'[r].status = runs[r].status
      BY <1>0, <2>1 DEF ClaimRun, Row
    <2>5. [run |-> r, status |-> runs[r].status, ckpt |-> runs[r].ckpt] \in Recov
      BY <1>0 DEF Recov, Row
    <2>6. RecovOK(recov[w])'
      BY <1>0, <1>2, <2>1, <2>4, <2>5
      DEF Claim, RecovOK, Stopped, StoredOK, Learned, IInv
    <2>7. RecovKept
      BY <1>2, <2>5, <2>6 DEF Claim, RecovKept, IInv
    <2>8. UNCHANGED used \/ Spend("pauses")
      BY <1>2 DEF Claim
    <2>9. RestOK'
      BY <2>1, <2>8, SpendKept, SameKept DEF Disruptions, IInv, RestOK
    <2>. QED
      BY <2>1, <2>2, <2>3, <2>7, <2>9, SameKept DEF Effect
  <1>3. CASE Cancel(w, r)
    <2>1. RequestCancel(r) /\ UNCHANGED <<exec, mode, recov, learned, used>>
      BY <1>3 DEF Cancel
    <2>2. LawfulStep /\ \A q \in Runs : StoredOK(q)'
      BY <2>1, QuietKept, SameKept
    <2>3. Stopped(r)'
      BY <1>0, <2>1 DEF RequestCancel, Stopped, Row
    <2>4. local[w][r].ckpt = FinalCkpt => Learned(r)'
      BY <1>0, <2>1 DEF RowOK, Learned
    <2>5. LocalKept
      BY <1>0, <1>3, <2>3, <2>4, SetRowKept, SameKept
      DEF Cancel, Statuses, Active, Terminal, LocalRow
    <2>. QED
      BY <2>1, <2>2, <2>5, SameKept DEF Effect
  <1>. QED
    BY <1>1, <1>2, <1>3

\* Time.
LEMMA TimeEffect ==
  ASSUME IInv, NEW r \in Runs, Expire(r) \/ Stall(r)
  PROVE  Effect
  <1>1. CASE Expire(r)
    BY <1>1, QuietKept, SameKept DEF Expire, workerVars, Effect
  <1>2. CASE Stall(r)
    <2>1. RestOK'
      BY <1>2, SpendKept DEF Stall, Disruptions, IInv, RestOK
    <2>. QED
      BY <1>2, <2>1, QuietKept, SameKept DEF Stall, Effect
  <1>. QED
    BY <1>1, <1>2

\* Sessions that are shut down or die.
LEMMA SessionEffect ==
  ASSUME IInv, NEW w \in Workers, Drain(w) \/ Stop(w) \/ Exit(w) \/ Crash(w)
  PROVE  Effect
  <1>1. CASE Drain(w)
    <2>1. mode' = [mode EXCEPT ![w] = "draining"] /\ Spend("drains")
          /\ UNCHANGED <<storeVars, local, exec, recov, learned>>
      BY <1>1 DEF Drain
    <2>2. RestOK'
      BY <2>1, SpendKept DEF Disruptions, IInv, RestOK
    <2>. QED
      BY <2>1, <2>2, SameKept DEF Effect, LawfulStep
  <1>2. CASE Stop(w)
    <2>1. RestOK'
      BY <1>2 DEF Stop, IInv, RestOK
    <2>. QED
      BY <1>2, <2>1, SameKept DEF Stop, Effect, LawfulStep
  <1>3. ASSUME Gone(w), UNCHANGED used \/ Spend("crashes") PROVE Effect
    <2>1. mode' \in [Workers -> {"up", "draining", "stopped", "down"}]
      BY <1>3 DEF Gone, IInv, RestOK
    <2>2. RestOK' /\ LearnedGrows
      BY <1>3, <2>1, SpendKept, SameKept DEF Gone, Disruptions, IInv, RestOK
    <2>3. LawfulStep /\ \A q \in Runs : StoredOK(q)'
      BY <1>3, <2>2, SameKept DEF Gone, LawfulStep
    <2>4. AbsentLocal \in LocalRow /\ \A q \in Runs : RowOK(AbsentLocal, q)'
      BY CkptFacts DEF AbsentLocal, LocalRow, RowOK, Terminal
    <2>5. LocalKept
      BY <1>3, <2>4 DEF Gone, LocalKept, IInv
    <2>6. Idle \in Exec
      BY MaxToolsAssumption DEF Idle, Exec
    <2>7. ASSUME NEW e \in Executors PROVE exec'[e] = exec[e] \/ exec'[e] = Idle
      BY <1>3 DEF Gone
    <2>8. ASSUME NEW e \in Executors, exec'[e] = Idle PROVE ExecOK(exec[e])'
      BY <2>6, <2>8 DEF ExecOK, Idle, AfterLearning
    <2>9. exec' \in [Executors -> Exec]
      BY <1>3, <2>6 DEF Gone, IInv
    <2>10. NoRecovery \in Recov /\ recov' = [recov EXCEPT ![w] = NoRecovery]
      BY <1>3, CkptFacts DEF Gone, NoRecovery, Recov
    <2>11. RecovOK(recov[w])'
      BY <2>10 DEF RecovOK, NoRecovery, IInv
    <2>12. RecovKept
      BY <2>10, <2>11 DEF RecovKept, IInv
    <2>. QED
      BY <2>2, <2>3, <2>5, <2>7, <2>8, <2>9, <2>12 DEF ExecKept, Effect
  <1>4. CASE Exit(w)
    BY <1>3, <1>4 DEF Exit
  <1>5. CASE Crash(w)
    BY <1>3, <1>5 DEF Crash
  <1>. QED
    BY <1>1, <1>2, <1>4, <1>5

\* Every step is lawful for the store and keeps the workers' copies good.
LEMMA NextEffect ==
  ASSUME IInv, Next
  PROVE  Effect
  BY ExecutorEffect, ErrorEffect, StartEffect, RecoveryEffect, HeartbeatEffect,
     TimeEffect, SessionEffect
  DEF Next

-----------------------------------------------------------------------------
(* The theorems.                                                            *)

\* The inductive invariant holds throughout.
LEMMA Invariant == Spec => []IInv
  <1>1. Init => IInv
    BY InitInv
  <1>2. IInv /\ [Next]_vars => IInv'
    <2>1. ASSUME IInv, Next PROVE IInv'
      BY <2>1, NextEffect, EffectInv
    <2>2. ASSUME IInv, UNCHANGED vars PROVE IInv'
      <3>1. Effect
        BY <2>2, SameKept DEF vars, Effect, LawfulStep, storeVars
      <3>. QED
        BY <2>2, <3>1, EffectInv
    <2>. QED
      BY <2>1, <2>2
  <1>. QED
    BY <1>1, <1>2, PTL DEF Spec

\* Every row, copy and control point has its type.
THEOREM TypeCorrect == Spec => []TypeOK
  <1>1. IInv => TypeOK
    BY InvImplies
  <1>. QED
    BY <1>1, Invariant, PTL

\* No worker ever shows a terminal status that is not the durable outcome
\* (api_terminal_takeover_fence), for any crashes, stalls, drains and takeovers.
THEOREM NoFalseEnding == Spec => []LocalTerminalAgrees
  <1>1. IInv => LocalTerminalAgrees
    BY InvImplies
  <1>. QED
    BY <1>1, Invariant, PTL

\* Whoever answers, first executor or recovery, the run has been learned from.
THEOREM LearningPrecedesAnswer == Spec => []AnsweredAfterLearning
  <1>1. IInv => AnsweredAfterLearning
    BY InvImplies
  <1>. QED
    BY <1>1, Invariant, PTL

\* Workers change the run table only through its transactions, and ask none of
\* them for a completed row without an answer.
THEOREM WorkersUseStore == Spec => ImplementsStore
  <1>1. Init => StoreInit
    BY DEF Init
  <1>2. IInv /\ [Next]_vars => [StoreNext]_storeVars
    BY NextEffect, LawfulIsStore DEF Effect, vars, storeVars
  <1>. QED
    BY <1>1, <1>2, Invariant, PTL DEF Spec, ImplementsStore, StoreSpec

\* The run table keeps its promises with the workers as its only callers: a run
\* is answered exactly once, when it is completed.
THEOREM OneAnswer == Spec => []AnsweredIffCompleted
  <1>1. IInv => AnsweredIffCompleted
    BY DEF IInv, StoreInv
  <1>. QED
    BY <1>1, Invariant, PTL

-----------------------------------------------------------------------------
(* The refinement of the user's contract.                                   *)

Phases == [r \in Runs |-> PhaseOf(runs[r].status)]

\* A step that writes one row moves one task, or none when the phase is the same.
LEMMA PhaseStep ==
  ASSUME NEW r \in Runs, \A q \in Runs \ {r} : runs'[q] = runs[q]
  PROVE  Phases' = [Phases EXCEPT ![r] = PhaseOf(runs'[r].status)]
  BY DEF Phases

\* The phases of a row's status.
LEMMA PhaseFacts ==
  /\ PhaseOf("absent") = "new"
  /\ PhaseOf("running") = "working" /\ PhaseOf("interrupted") = "working"
  /\ PhaseOf("cancel_requested") = "stopping"
  /\ PhaseOf("completed") = "answered"
  /\ PhaseOf("cancelled") = "stopped"
  /\ PhaseOf("failed") = "failed"
  BY DEF PhaseOf

ContractStep == Contract!Next \/ UNCHANGED <<Phases, replies>>

\* A transaction that leaves the phase of its row alone stutters.
LEMMA QuietPhase ==
  ASSUME NEW r \in Runs, \A q \in Runs \ {r} : runs'[q] = runs[q], UNCHANGED replies,
         PhaseOf(runs'[r].status) = PhaseOf(runs[r].status)
  PROVE  ContractStep
  <1>1. Phases' = Phases
    BY DEF Phases
  <1>. QED
    BY <1>1 DEF ContractStep

\* Every lawful transaction is a step of the contract.
LEMMA LawfulIsContract ==
  ASSUME StoreInv, LawfulStep
  PROVE  ContractStep
  <1>0. runs \in [Runs -> Row]
    BY DEF StoreInv, StoreTypeOK
  <1>1. CASE UNCHANGED storeVars
    BY <1>1 DEF storeVars, ContractStep, Phases
  <1>2. ASSUME NEW r \in Runs, RequestCancel(r) PROVE ContractStep
    <2>1. /\ runs[r].status \in Active /\ runs'[r].status = "cancel_requested"
          /\ \A q \in Runs \ {r} : runs'[q] = runs[q]
          /\ UNCHANGED replies
      BY <1>0, <1>2 DEF RequestCancel, IsActive, Row
    <2>2. CASE runs[r].status = "cancel_requested"
      BY <2>1, <2>2, QuietPhase
    <2>3. CASE runs[r].status \in {"running", "interrupted"}
      <3>1. Contract!Ask(r)
        BY <2>1, <2>3, PhaseStep, PhaseFacts DEF Contract!Ask, Phases
      <3>. QED
        BY <3>1 DEF Contract!Next, ContractStep
    <2>. QED
      BY <2>1, <2>2, <2>3 DEF Active
  <1>3. ASSUME NEW r \in Runs,
               Lapse(r) \/ \E w \in Workers : RenewLease(r, w) \/ ClaimRun(r, w)
        PROVE  ContractStep
    <2>1. /\ runs'[r].status = runs[r].status
          /\ \A q \in Runs \ {r} : runs'[q] = runs[q]
          /\ UNCHANGED replies
      <3>1. CASE Lapse(r)
        BY <1>0, <3>1 DEF Lapse, Row
      <3>2. ASSUME NEW w \in Workers, RenewLease(r, w) \/ ClaimRun(r, w)
            PROVE  /\ runs'[r].status = runs[r].status
                   /\ \A q \in Runs \ {r} : runs'[q] = runs[q]
                   /\ UNCHANGED replies
        BY <1>0, <3>2 DEF RenewLease, ClaimRun, Row
      <3>. QED
        BY <1>3, <3>1, <3>2
    <2>. QED
      BY <2>1, QuietPhase
  <1>4. ASSUME NEW r \in Runs, NEW w \in Workers, StartRun(r, w) PROVE ContractStep
    <2>1. /\ runs[r].status = "absent" /\ runs'[r].status = "running"
          /\ \A q \in Runs \ {r} : runs'[q] = runs[q]
          /\ UNCHANGED replies
      BY <1>0, <1>4 DEF StartRun
    <2>2. ASSUME NEW q \in Runs, ConvOf[q] = ConvOf[r] PROVE Phases[q] \notin Contract!Open
      <3>1. runs[q].status \in {"absent"} \cup Terminal
        BY <1>0, <1>4, <2>2 DEF StartRun, IsActive, Row, Statuses
      <3>. QED
        BY <3>1, PhaseFacts DEF Phases, Contract!Open, Terminal
    <2>3. Contract!Accept(r)
      BY <2>1, <2>2, PhaseStep, PhaseFacts DEF Contract!Accept, Phases
    <2>. QED
      BY <2>3 DEF Contract!Next, ContractStep
  <1>5. ASSUME NEW r \in Runs, NEW w \in Workers, PublishRun(r, w) PROVE ContractStep
    <2>1. /\ runs[r].status \in {"running", "interrupted"} /\ runs'[r].status = "completed"
          /\ \A q \in Runs \ {r} : runs'[q] = runs[q]
          /\ replies' = [replies EXCEPT ![r] = @ + 1]
      BY <1>0, <1>5 DEF PublishRun, MayPublish
    <2>2. Contract!Answer(r)
      BY <2>1, PhaseStep, PhaseFacts DEF Contract!Answer, Phases
    <2>. QED
      BY <2>2 DEF Contract!Next, ContractStep
  <1>6. ASSUME NEW r \in Runs, NEW w \in Workers, NEW c \in Ckpts, ReleaseRun(r, w, c)
        PROVE  ContractStep
    <2>1. /\ runs[r].status \in {"running", "interrupted"} /\ runs'[r].status = "interrupted"
          /\ \A q \in Runs \ {r} : runs'[q] = runs[q]
          /\ UNCHANGED replies
      BY <1>0, <1>6 DEF ReleaseRun, MayRelease
    <2>. QED
      BY <2>1, QuietPhase, PhaseFacts
  <1>7. ASSUME NEW r \in Runs, NEW w \in Workers, NEW c \in Ckpts, NEW s \in Statuses,
               LawfulSave(r, s), SaveRun(r, w, s, c)
        PROVE  ContractStep
    <2>1. /\ runs[r].status \in Active /\ runs'[r].status = SavedStatus(runs[r], s)
          /\ \A q \in Runs \ {r} : runs'[q] = runs[q]
          /\ UNCHANGED replies
      BY <1>0, <1>7 DEF SaveRun, MaySave, SavedRow
    <2>2. CASE s = "failed"
      <3>1. runs'[r].status = "failed"
        BY <2>1, <2>2 DEF SavedStatus
      <3>2. Contract!Fail(r)
        BY <2>1, <3>1, PhaseStep, PhaseFacts DEF Contract!Fail, Contract!Open, Phases, Active
      <3>. QED
        BY <3>2 DEF Contract!Next, ContractStep
    <2>3. CASE s = "cancelled"
      <3>1. runs[r].status = "cancel_requested" /\ runs'[r].status = "cancelled"
        BY <1>7, <2>1, <2>3 DEF SavedStatus, LawfulSave
      <3>2. Contract!Stop(r)
        BY <2>1, <3>1, PhaseStep, PhaseFacts DEF Contract!Stop, Phases
      <3>. QED
        BY <3>2 DEF Contract!Next, ContractStep
    <2>4. CASE s \in {"running", "interrupted", "cancel_requested"}
      <3>1. PhaseOf(runs'[r].status) = PhaseOf(runs[r].status)
        BY <1>7, <2>1, <2>4, PhaseFacts DEF SavedStatus, LawfulSave, Active
      <3>. QED
        BY <2>1, <3>1, QuietPhase
    <2>. QED
      BY <1>7, <2>2, <2>3, <2>4 DEF LawfulSave
  <1>. QED
    BY <1>1, <1>2, <1>3, <1>4, <1>5, <1>6, <1>7 DEF LawfulStep

\* The workers, with their leases, checkpoints, crashes and takeovers, do what
\* the contract promises a user: a task is accepted when its conversation is
\* free, answered at most once and only while nobody asked to stop it, stopped
\* only on request, and never reopened.
THEOREM WorkersKeepContract == Spec => ImplementsContract
  <1>1. Init => Contract!Init
    BY PhaseFacts DEF Init, StoreInit, AbsentRow, Contract!Init
  <1>2. IInv /\ [Next]_vars => [Contract!Next]_(Contract!contractVars)
    <2>1. ASSUME IInv, Next PROVE ContractStep
      BY <2>1, NextEffect, LawfulIsContract DEF Effect, IInv
    <2>2. ASSUME UNCHANGED vars PROVE UNCHANGED <<Phases, replies>>
      BY <2>2 DEF vars, Phases
    <2>. QED
      BY <2>1, <2>2 DEF ContractStep, Contract!contractVars, Phases
  <1>. QED
    BY <1>1, <1>2, Invariant, PTL DEF Spec, ImplementsContract, Contract!Spec
-----------------------------------------------------------------------------
(* The executor in charge.  While no live worker lets a lease lapse, the    *)
(* executor a worker has for a run holds the run until the event loop of    *)
(* that worker is gone, and the worker's copy of the row agrees with the    *)
(* row, whatever sessions crash or drain.  The invariant is one statement   *)
(* per pair of a worker and a run; the steps of other pairs leave it alone. *)

\* No live worker is late to renew a lease.
NoStalls == \A b \in Budgets : b["stalls"] = 0
\* The storage answers the reads before the runner.
NoFaults == \A b \in Budgets : b["faults"] = 0
\* At most one session is shut down gracefully.
OneDrain == \A b \in Budgets : b["drains"] <= 1

Looping(w) == mode[w] \in {"up", "draining"}
Leaving(w) == mode[w] \in {"draining", "stopped"}

\* Executor e is at work on run r in worker w.
On(e, w, r) == exec[e].pc # "idle" /\ WorkerOf(e) = w /\ RunOf(e) = r

\* Worker w holds r: nobody else may save, answer, release or claim it.
Held(r, w) == IsActive(r) /\ runs[r].owner = w /\ runs[r].lease = "live"

\* A released row: the next sweep takes it, and any worker may save over it.
Released(r) == IsActive(r) /\ runs[r].owner = NoOwner

BeforeFinal == {"begin", "prerun", "resume", "poll", "execute", "tool", "verify",
                "policy", "episode", "record", "final"}

\* What executor e of run r in worker w can rely on.
Charge(e, w, r) ==
    /\ mode[w] # "down" /\ runs[r].status # "absent"
    /\ local[w][r].status \in Active
    /\ Looping(w) => IF exec[e].pc = "published" THEN runs[r].status = "completed"
                                                 ELSE Held(r, w)
    /\ exec[e].pc = "handoff" => Leaving(w)
    /\ runs[r].owner = w => local[w][r].ckpt = runs[r].ckpt
    /\ exec[e].pc \in BeforeFinal => local[w][r].ckpt <= exec[e].cycle
    /\ OneDrain => ~Released(r)

\* The sweep holds the row it is handling as it claimed it; nobody executes it here.
Swept(w, r) ==
    /\ Looping(w) /\ Held(r, w)
    /\ recov[w].ckpt = runs[r].ckpt
    /\ \A e \in Executors : ~On(e, w, r)

PairOK(w, r) ==
    /\ \A e \in Executors : On(e, w, r) => Charge(e, w, r)
    /\ \A e, f \in Executors : On(e, w, r) /\ On(f, w, r) => e = f
    /\ recov[w].run = r => Swept(w, r)
    /\ NoFaults /\ mode[w] = "up" /\ local[w][r].status \in Active =>
           \E e \in Executors : On(e, w, r)

\* With one drain there is one session that leaves.
LeavesOnce ==
    \A w \in Workers : Leaving(w) =>
        /\ used["drains"] >= 1
        /\ \A v \in Workers : Leaving(v) => v = w

ChargeInv ==
    /\ \A w \in Workers, r \in Runs : PairOK(w, r)
    /\ OneDrain => LeavesOnce

-----------------------------------------------------------------------------
(* What a step of one pair leaves alone.                                    *)

\* What worker w, and any executor it has for r, can see of the row of r.
RowApart(w, r) ==
    /\ Held(r, w) => Held(r, w)'
    /\ runs'[r].owner = w => runs[r].owner = w /\ runs'[r].ckpt = runs[r].ckpt
    /\ runs[r].status = "completed" => runs'[r].status = "completed"
    /\ runs[r].status # "absent" => runs'[r].status # "absent"
    /\ OneDrain /\ Released(r)' => Released(r) \/ \A e \in Executors : ~On(e, w, r)

Apart(w, r) ==
    /\ local'[w][r] = local[w][r] /\ mode'[w] = mode[w]
    /\ recov'[w] = recov[w] \/ (recov[w].run # r /\ recov'[w].run # r)
    /\ \A e \in Executors : exec'[e] = exec[e] \/ (~On(e, w, r) /\ ~On(e, w, r)')
    /\ RowApart(w, r)

\* A step apart from a pair leaves it as it was.
LEMMA ApartKept ==
  ASSUME NEW w \in Workers, NEW r \in Runs, PairOK(w, r), Apart(w, r)
  PROVE  PairOK(w, r)'
  <1>1. ASSUME NEW e \in Executors
        PROVE  On(e, w, r)' <=> On(e, w, r)
    BY DEF Apart, On, WorkerOf, RunOf
  <1>2. ASSUME NEW e \in Executors, On(e, w, r)'
        PROVE  Charge(e, w, r)'
    <2>1. On(e, w, r) /\ exec'[e] = exec[e] /\ Charge(e, w, r)
      BY <1>1, <1>2 DEF Apart, PairOK
    <2>. QED
      BY <2>1 DEF Charge, Apart, RowApart, Looping, Leaving
  <1>3. recov'[w].run = r => Swept(w, r)'
    BY <1>1 DEF Apart, RowApart, PairOK, Swept, Looping, Held
  <1>. QED
    BY <1>1, <1>2, <1>3 DEF PairOK, Apart

\* A step of worker w about run r.
Touches(w, r) ==
    /\ UNCHANGED mode /\ used'["drains"] = used["drains"]
    /\ \A v \in Workers, q \in Runs : v # w \/ q # r => local'[v][q] = local[v][q]
    /\ \A v \in Workers :
          recov'[v] = recov[v]
          \/ (v = w /\ {recov[v].run, recov'[v].run} \subseteq {r, NoRun})
    /\ \A e \in Executors :
          exec'[e] = exec[e]
          \/ \A v \in Workers, q \in Runs : On(e, v, q) \/ On(e, v, q)' => v = w /\ q = r

\* Such a step has only its own pair to answer for, and the row.
LEMMA TouchesCharge ==
  ASSUME ChargeInv, NEW w \in Workers, NEW r \in Runs, Touches(w, r), PairOK(w, r)',
         \A v \in Workers, q \in Runs : v # w \/ q # r => RowApart(v, q)
  PROVE  ChargeInv'
  <1>1. ASSUME NEW v \in Workers, NEW q \in Runs, v # w \/ q # r
        PROVE  PairOK(v, q)'
    <2>1. Apart(v, q)
      BY <1>1, NoRunAssumption DEF Touches, Apart
    <2>. QED
      BY <2>1, ApartKept DEF ChargeInv
  <1>2. LeavesOnce => LeavesOnce'
    BY DEF Touches, LeavesOnce, Leaving
  <1>. QED
    BY <1>1, <1>2 DEF ChargeInv

\* A transaction of worker w on r, which it may release only when it drains.
Transacts(w, r) ==
    \/ UNCHANGED storeVars
    \/ RenewLease(r, w) \/ PublishRun(r, w)
    \/ mode[w] = "draining" /\ \E c \in Ckpts : ReleaseRun(r, w, c)
    \/ \E s \in Statuses, c \in Ckpts : SaveRun(r, w, s, c)

\* A lawful transaction keeps terminal rows, and rows exist for good.
LEMMA RowsStay ==
  ASSUME IInv, LawfulStep, NEW r \in Runs
  PROVE  /\ runs[r].status = "completed" => runs'[r].status = "completed"
         /\ runs[r].status # "absent" => runs'[r].status # "absent"
         /\ runs[r] \in Row /\ runs'[r] \in Row
  <1>1. StoreInv /\ StoreInv'
    BY LawfulKeeps DEF IInv
  <1>2. CASE UNCHANGED storeVars
    BY <1>1, <1>2 DEF storeVars, StoreInv, StoreTypeOK
  <1>3. CASE StoreNext
    BY <1>1, <1>3, StoreActionSteps DEF StoreNext, StoreInv, StoreTypeOK, Terminal
  <1>. QED
    BY <1>2, <1>3, LawfulIsStore

\* What w writes only concerns w: nobody else holds the row or owns it afterwards.
LEMMA TransactsApart ==
  ASSUME IInv, LawfulStep, ChargeInv, NEW w \in Workers, NEW r \in Runs, Transacts(w, r),
         NEW v \in Workers, NEW q \in Runs, v # w \/ q # r
  PROVE  RowApart(v, q)
  <1>0. /\ runs \in [Runs -> Row]
        /\ runs[q].status = "completed" => runs'[q].status = "completed"
        /\ runs[q].status # "absent" => runs'[q].status # "absent"
    BY RowsStay DEF IInv, StoreInv, StoreTypeOK
  <1>1. CASE UNCHANGED storeVars
    BY <1>1 DEF storeVars, RowApart, Held, Released, IsActive
  <1>2. CASE q # r /\ ~UNCHANGED storeVars
    <2>1. runs'[q] = runs[q]
      BY <1>0, <1>2 DEF Transacts, RenewLease, PublishRun, ReleaseRun, SaveRun
    <2>. QED
      BY <2>1 DEF RowApart, Held, Released, IsActive
  <1>3. CASE q = r /\ RenewLease(r, w)
    <2>1. runs[r].owner = w /\ runs'[r].owner = w
      BY <1>0, <1>3 DEF RenewLease, MayRenew, Row
    <2>. QED
      BY <1>0, <1>3, <2>1, NoOwnerAssumption DEF RowApart, Held, Released
  <1>4. CASE q = r /\ PublishRun(r, w)
    <2>1. runs[r].owner = w /\ runs'[r].owner = NoOwner /\ runs'[r].status = "completed"
      BY <1>0, <1>4 DEF PublishRun, MayPublish
    <2>. QED
      BY <1>0, <1>4, <2>1, NoOwnerAssumption DEF RowApart, Held, Released, IsActive, Active
  <1>5. CASE q = r /\ mode[w] = "draining" /\ \E c \in Ckpts : ReleaseRun(r, w, c)
    <2>1. runs[r].owner = w /\ runs[r].status \in {"running", "interrupted"}
          /\ runs'[r].owner = NoOwner
      BY <1>0, <1>5 DEF ReleaseRun, MayRelease
    <2>2. ASSUME OneDrain, NEW e \in Executors, On(e, v, r) PROVE FALSE
      <3>1. Charge(e, v, r) /\ LeavesOnce
        BY <2>2 DEF ChargeInv, PairOK
      <3>2. v # w
        BY <1>5
      <3>3. ~Looping(v) /\ mode[v] # "down"
        BY <2>1, <3>1, <3>2 DEF Charge, Held
      <3>4. Leaving(v) /\ Leaving(w)
        BY <1>5, <3>3 DEF Leaving, Looping, IInv, RestOK
      <3>. QED
        BY <3>1, <3>2, <3>4 DEF LeavesOnce
    <2>. QED
      BY <1>0, <1>5, <2>1, <2>2, NoOwnerAssumption DEF RowApart, Held
  <1>6. ASSUME q = r, NEW s \in Statuses, NEW c \in Ckpts, SaveRun(r, w, s, c)
        PROVE  RowApart(v, q)
    <2>1. runs[r].owner \in {NoOwner, w} /\ runs'[r] = SavedRow(runs[r], w, s, c)
      BY <1>0, <1>6 DEF SaveRun, MaySave
    <2>2. runs'[r].owner \in {NoOwner, w}
      BY <2>1 DEF SavedRow
    <2>3. runs'[r].owner = NoOwner => ~IsActive(r)'
      BY <2>1, NoOwnerAssumption DEF SavedRow, SavedStatus, IsActive, Active
    <2>. QED
      BY <1>0, <1>6, <2>1, <2>2, <2>3, NoOwnerAssumption DEF RowApart, Held, Released
  <1>. QED
    BY <1>1, <1>2, <1>3, <1>4, <1>5, <1>6 DEF Transacts

-----------------------------------------------------------------------------
(* The executor's steps: it acts on its own pair, and either goes on in      *)
(* charge or ends and leaves no active row behind while its worker is up.    *)

Acts(e, w, r) ==
    /\ Transacts(w, r)
    /\ \A v \in Workers, q \in Runs : v # w \/ q # r => local'[v][q] = local[v][q]
    /\ \A f \in Executors \ {e} : exec'[f] = exec[f]
    /\ \/ On(e, w, r)' /\ Charge(e, w, r)'
       \/ exec'[e] = Idle /\ (mode[w] = "up" => local'[w][r].status \notin Active)

\* That is all the invariant asks of it.
LEMMA ActsCharge ==
  ASSUME IInv, LawfulStep, ChargeInv, NEW e \in Executors, NEW w \in Workers, NEW r \in Runs,
         On(e, w, r), Acts(e, w, r), UNCHANGED <<mode, recov, used>>
  PROVE  ChargeInv'
  <1>1. Touches(w, r)
    BY DEF Acts, Touches, On, WorkerOf, RunOf, Idle
  <1>2. PairOK(w, r) /\ recov[w].run # r
    BY DEF ChargeInv, PairOK, Swept
  <1>3. \A f \in Executors \ {e} : ~On(f, w, r)'
    BY <1>2 DEF Acts, PairOK, On, WorkerOf, RunOf
  <1>4. PairOK(w, r)'
    BY <1>2, <1>3 DEF Acts, PairOK, On, Idle
  <1>. QED
    BY <1>1, <1>4, TransactsApart, TouchesCharge DEF Acts

\* The row of an executor in charge.
LEMMA InCharge ==
  ASSUME IInv, ChargeInv, NEW e \in Executors, exec[e].pc # "idle"
  PROVE  \E w \in Workers, r \in Runs :
            /\ w = WorkerOf(e) /\ r = RunOf(e) /\ On(e, w, r) /\ Charge(e, w, r)
            /\ RowOf(e) = local[w][r] /\ HasRow(e)
            /\ local[w][r].ckpt \in Ckpts /\ local[w][r].ckpt \in Nat
            /\ exec[e].cycle \in Nat /\ runs[r] \in Row
  <1>1. RunOf(e) \in Runs /\ WorkerOf(e) \in Workers
    BY AtWork
  <1>2. On(e, WorkerOf(e), RunOf(e)) /\ Charge(e, WorkerOf(e), RunOf(e))
    BY <1>1 DEF On, ChargeInv, PairOK
  <1>3. RowOf(e) = local[WorkerOf(e)][RunOf(e)] /\ HasRow(e)
    BY <1>2 DEF RowOf, HasRow, Charge, Active
  <1>4. /\ local[WorkerOf(e)][RunOf(e)].ckpt \in Ckpts
        /\ exec[e].cycle \in 0 .. MaxTools /\ runs[RunOf(e)] \in Row
    BY <1>1, AtWork DEF IInv, LocalRow
  <1>. QED
    BY <1>1, <1>2, <1>3, <1>4, MaxToolsAssumption DEF Ckpts, NoCkpt, FinalCkpt

\* The row a save of an active status leaves.
LEMMA SavedHeld ==
  ASSUME IInv, NEW w \in Workers, NEW r \in Runs, NEW s \in Active, NEW c \in Ckpts,
         SaveRun(r, w, s, c)
  PROVE  /\ SavedStatus(runs[r], s) \in Active
         /\ runs'[r].status = SavedStatus(runs[r], s) /\ runs'[r].ckpt = c
         /\ Held(r, w)' /\ ~Released(r)' /\ runs'[r].status # "absent"
  <1>1. runs'[r] = SavedRow(runs[r], w, s, c) /\ SavedStatus(runs[r], s) \in Active
    BY DEF SaveRun, IInv, StoreInv, StoreTypeOK, SavedStatus, Active
  <1>. QED
    BY <1>1, NoOwnerAssumption DEF SavedRow, Held, Released, IsActive, Active

\* An executor that moves or ends, and the others.
LEMMA MovesOne ==
  ASSUME IInv, NEW e \in Executors
  PROVE  /\ \A pc : Goto(e, pc) =>
               /\ exec'[e].pc = pc /\ exec'[e].cycle = exec[e].cycle
               /\ exec'[e].run = exec[e].run /\ exec'[e].worker = exec[e].worker
               /\ \A f \in Executors \ {e} : exec'[f] = exec[f]
         /\ Ends(e) =>
               /\ exec'[e] = Idle
               /\ \A f \in Executors \ {e} : exec'[f] = exec[f]
  BY DEF IInv, Goto, Ends, Exec

\* A copy that is dropped, and the others.
LEMMA DropsOne ==
  ASSUME IInv, NEW w \in Workers, NEW r \in Runs, DropRow(w, r)
  PROVE  /\ local'[w][r] = AbsentLocal
         /\ \A v \in Workers, q \in Runs : v # w \/ q # r => local'[v][q] = local[v][q]
  BY DEF IInv, DropRow

\* The copy a worker writes, and the copies it does not.
LEMMA SetsOne ==
  ASSUME IInv, NEW w \in Workers, NEW r \in Runs, NEW s, NEW c, SetRow(w, r, s, c)
  PROVE  /\ local'[w][r] = [status |-> s, ckpt |-> c]
         /\ \A v \in Workers, q \in Runs : v # w \/ q # r => local'[v][q] = local[v][q]
  BY DEF IInv, SetRow

\* Executor e goes on at pc without touching its row.
LEMMA GoesOn ==
  ASSUME IInv, ChargeInv, NEW e \in Executors, NEW w \in Workers, NEW r \in Runs,
         On(e, w, r), Charge(e, w, r), NEW pc, Goto(e, pc), pc # "idle", UNCHANGED <<local, mode>>,
         UNCHANGED storeVars \/ RenewLease(r, w),
         exec[e].pc # "published", pc # "published",
         pc = "handoff" => Leaving(w),
         pc \in BeforeFinal => exec[e].pc \in BeforeFinal
  PROVE  Acts(e, w, r)
  <1>1. /\ exec'[e].pc = pc /\ exec'[e].cycle = exec[e].cycle /\ On(e, w, r)'
        /\ \A f \in Executors \ {e} : exec'[f] = exec[f]
    BY MovesOne DEF On, WorkerOf, RunOf
  <1>2. /\ Held(r, w) => Held(r, w)'
        /\ runs'[r].ckpt = runs[r].ckpt /\ runs'[r].owner = runs[r].owner
        /\ runs'[r].status = runs[r].status
    BY DEF RenewLease, MayRenew, Held, IsActive, storeVars, IInv, StoreInv, StoreTypeOK, Row
  <1>3. Charge(e, w, r)'
    BY <1>1, <1>2 DEF Charge, Looping, Leaving, Released, IsActive
  <1>. QED
    BY <1>1, <1>3 DEF Acts, Transacts

\* Executor e retires: its row goes, and the store stays.
LEMMA Retires ==
  ASSUME IInv, NEW e \in Executors, NEW w \in Workers, NEW r \in Runs,
         On(e, w, r), Retire(e), UNCHANGED storeVars
  PROVE  Acts(e, w, r)
  <1>1. DropRow(w, r) /\ Ends(e)
    BY DEF Retire, On
  <1>. QED
    BY <1>1, MovesOne, DropsOne DEF Acts, Transacts, AbsentLocal, Active

\* A fence passed: the saved row and the worker's copy agree again.
LEMMA FencePasses ==
  ASSUME IInv, ChargeInv, NEW e \in Executors, NEW w \in Workers, NEW r \in Runs,
         On(e, w, r), Charge(e, w, r), NEW c \in Ckpts, NEW pc,
         SaveRun(r, w, local[w][r].status, c),
         SetRow(w, r, SavedStatus(runs[r], local[w][r].status), c), Goto(e, pc),
         UNCHANGED mode, pc \notin {"idle", "published", "handoff"},
         pc \in BeforeFinal => c <= exec[e].cycle
  PROVE  Acts(e, w, r)
  <1>1. /\ exec'[e].pc = pc /\ exec'[e].cycle = exec[e].cycle /\ On(e, w, r)'
        /\ \A f \in Executors \ {e} : exec'[f] = exec[f]
    BY MovesOne DEF On, WorkerOf, RunOf
  <1>2. local[w][r].status \in Active
    BY DEF Charge
  <1>3. /\ SavedStatus(runs[r], local[w][r].status) \in Active
        /\ runs'[r].ckpt = c /\ Held(r, w)' /\ ~Released(r)' /\ runs'[r].status # "absent"
    BY <1>2, SavedHeld
  <1>. PICK t \in Active : t = SavedStatus(runs[r], local[w][r].status)
    BY <1>3
  <1>4. /\ local'[w][r].status = t /\ local'[w][r].ckpt = c
        /\ \A v \in Workers, q \in Runs : v # w \/ q # r => local'[v][q] = local[v][q]
    <2>1. SetRow(w, r, t, c)
      OBVIOUS
    <2>2. local'[w][r] = [status |-> t, ckpt |-> c]
      BY <2>1, SetsOne
    <2>. QED
      BY <2>1, <2>2, SetsOne
  <1>5. mode'[w] # "down"
    BY DEF Charge
  <1>6. Charge(e, w, r)'
    BY <1>1, <1>3, <1>4, <1>5 DEF Charge
  <1>7. Transacts(w, r)
    BY <1>2 DEF Transacts, Statuses
  <1>. QED
    BY <1>1, <1>4, <1>6, <1>7 DEF Acts

\* A persistence from which the executor goes on.
LEMMA FenceActs ==
  ASSUME IInv, ChargeInv, NEW e \in Executors, NEW w \in Workers, NEW r \in Runs,
         On(e, w, r), Charge(e, w, r), RowOf(e) = local[w][r], HasRow(e),
         NEW c \in Ckpts, NEW next \in ThreadPcs, NEW stop \in {next, "cancelling"},
         Persist(e, RowOf(e).status, c, Goto(e, next), Goto(e, stop)), UNCHANGED mode,
         next \in BeforeFinal => c <= exec[e].cycle
  PROVE  Acts(e, w, r)
  <1>1. WorkerOf(e) = w /\ RunOf(e) = r
    BY DEF On
  <1>2. CASE Retire(e) /\ UNCHANGED storeVars
    BY <1>2, Retires
  <1>3. ASSUME NEW pc \in {next, "cancelling"},
               SaveRun(r, w, local[w][r].status, c),
               SetRow(w, r, SavedStatus(runs[r], local[w][r].status), c), Goto(e, pc)
        PROVE  Acts(e, w, r)
    <2>1. pc \notin {"idle", "published", "handoff"} /\ (pc \in BeforeFinal => pc = next)
      BY DEF ThreadPcs, BeforeFinal
    <2>. QED
      BY <1>3, <2>1, FencePasses
  <1>. QED
    BY <1>1, <1>2, <1>3 DEF Persist

\* The store's stop request or the loss of the lease, or a renewed lease.
LEMMA LearnFenceActs ==
  ASSUME IInv, ChargeInv, NEW e \in Executors, NEW w \in Workers, NEW r \in Runs,
         On(e, w, r), Charge(e, w, r), exec[e].pc \in {"policy", "episode"},
         NEW next \in {"episode", "record"}, LearnFence(e, next), UNCHANGED mode
  PROVE  Acts(e, w, r)
  <1>1. WorkerOf(e) = w /\ RunOf(e) = r
    BY DEF On
  <1>2. CASE Retire(e) /\ UNCHANGED storeVars
    BY <1>2, Retires
  <1>3. CASE RenewLease(r, w) /\ UNCHANGED local /\ (Goto(e, "cancelling") \/ Goto(e, next))
    BY <1>3, GoesOn DEF BeforeFinal
  <1>. QED
    BY <1>1, <1>2, <1>3 DEF LearnFence

\* A last persistence, as cancelled or failed.
LEMMA LastPersistActs ==
  ASSUME IInv, ChargeInv, NEW e \in Executors, NEW w \in Workers, NEW r \in Runs,
         On(e, w, r), HasRow(e), NEW s \in {"cancelled", "failed"},
         Persist(e, s, NoCkpt, Ends(e), Ends(e))
  PROVE  Acts(e, w, r)
  <1>1. WorkerOf(e) = w /\ RunOf(e) = r
    BY DEF On
  <1>2. CASE Retire(e) /\ UNCHANGED storeVars
    BY <1>2, Retires
  <1>3. CASE SaveRun(r, w, s, NoCkpt) /\ SetRow(w, r, SavedStatus(runs[r], s), NoCkpt) /\ Ends(e)
    <2>1. SavedStatus(runs[r], s) = s /\ s \notin Active /\ s \in Statuses
      BY DEF SavedStatus, Active, Statuses, Terminal
    <2>2. SetRow(w, r, s, NoCkpt)
      BY <1>3, <2>1
    <2>3. local'[w][r] = [status |-> s, ckpt |-> NoCkpt]
      BY <2>2, SetsOne
    <2>4. \A v \in Workers, q \in Runs : v # w \/ q # r => local'[v][q] = local[v][q]
      BY <2>2, SetsOne
    <2>5. exec'[e] = Idle /\ \A f \in Executors \ {e} : exec'[f] = exec[f]
      BY <1>3, MovesOne
    <2>6. Transacts(w, r)
      BY <1>3, <2>1, CkptFacts DEF Transacts
    <2>. QED
      BY <2>1, <2>3, <2>4, <2>5, <2>6 DEF Acts
  <1>. QED
    BY <1>1, <1>2, <1>3 DEF Persist

\* Executor steps leave the worker's own state alone.
LEMMA ExecutorStays ==
  ASSUME NEW e \in Executors, ExecutorStep(e)
  PROVE  exec[e].pc # "idle" /\ UNCHANGED <<mode, recov, used>>
  BY DEF ExecutorStep, Begin, PreRun, Resume, Poll, Execute, ToolReturns, Verify,
         UpdatePolicy, EpisodeFence, RecordEpisode, FinalCheckpoint, Returned, Publish,
         Published, Cancelling, Failing, Handoff, InThread, InLoop

\* Every step of an executor does so.
LEMMA ExecutorCharge ==
  ASSUME IInv, LawfulStep, ChargeInv, NEW e \in Executors, ExecutorStep(e)
  PROVE  ChargeInv'
  <1>1. exec[e].pc # "idle" /\ UNCHANGED mode /\ UNCHANGED <<mode, recov, used>>
    BY ExecutorStays
  <1>. PICK w \in Workers, r \in Runs :
         /\ w = WorkerOf(e) /\ r = RunOf(e) /\ On(e, w, r) /\ Charge(e, w, r)
         /\ RowOf(e) = local[w][r] /\ HasRow(e)
         /\ local[w][r].ckpt \in Ckpts /\ local[w][r].ckpt \in Nat
         /\ exec[e].cycle \in Nat /\ runs[r] \in Row
    BY <1>1, InCharge
  <1>. SUFFICES Acts(e, w, r)
    BY <1>1, ActsCharge
  <1>2. exec[e].pc \in BeforeFinal => local[w][r].ckpt <= exec[e].cycle
    BY DEF Charge
  <1>3. ASSUME NEW pc, Goto(e, pc), pc # "idle", UNCHANGED local,
               UNCHANGED storeVars \/ RenewLease(r, w),
               exec[e].pc # "published", pc # "published",
               pc = "handoff" => Leaving(w),
               pc \in BeforeFinal => exec[e].pc \in BeforeFinal
        PROVE  Acts(e, w, r)
    BY <1>1, <1>3, GoesOn
  <1>4. ASSUME NEW next \in ThreadPcs, Fence(e, RowOf(e).ckpt, next),
               exec[e].pc \in BeforeFinal
        PROVE  Acts(e, w, r)
    BY <1>1, <1>2, <1>4, FenceActs DEF Fence
  <1>5. CASE Begin(e)
    <2>1. CASE Goto(e, "prerun") /\ UNCHANGED <<storeVars, local>>
      BY <1>3, <1>5, <2>1 DEF Begin, InLoop, BeforeFinal
    <2>. QED
      BY <1>5, <2>1, Retires DEF Begin
  <1>6. CASE PreRun(e)
    <2>. DEFINE next == IF exec[e].cycle > 0 THEN "resume" ELSE "poll"
    <2>1. next \in ThreadPcs /\ next \notin {"idle", "published", "handoff"}
          /\ exec[e].pc = "prerun" /\ exec[e].pc \in BeforeFinal
      BY <1>6 DEF PreRun, InLoop, ThreadPcs, BeforeFinal
    <2>2. \/ Goto(e, next) /\ UNCHANGED <<storeVars, local>>
          \/ Persist(e, RowOf(e).status, RowOf(e).ckpt, Goto(e, next), Goto(e, next))
      BY <1>6 DEF PreRun
    <2>. HIDE DEF next
    <2>3. CASE Goto(e, next) /\ UNCHANGED <<storeVars, local>>
      BY <1>3, <2>1, <2>3
    <2>4. CASE Persist(e, RowOf(e).status, RowOf(e).ckpt, Goto(e, next), Goto(e, next))
      BY <1>1, <1>2, <2>1, <2>4, FenceActs
    <2>. QED
      BY <2>2, <2>3, <2>4
  <1>7. CASE Resume(e)
    BY <1>4, <1>7 DEF Resume, InThread, ThreadPcs, BeforeFinal
  <1>8. CASE Poll(e)
    <2>1. exec[e].pc = "poll" /\ exec[e].pc \in BeforeFinal
      BY <1>8 DEF Poll, InThread, BeforeFinal
    <2>2. CASE Goto(e, "cancelling") /\ SetRow(w, r, "cancel_requested", RowOf(e).ckpt)
               /\ UNCHANGED storeVars
      <3>1. /\ exec'[e].pc = "cancelling" /\ On(e, w, r)'
            /\ \A f \in Executors \ {e} : exec'[f] = exec[f]
            /\ local'[w][r] = [status |-> "cancel_requested", ckpt |-> RowOf(e).ckpt]
            /\ \A v \in Workers, q \in Runs : v # w \/ q # r => local'[v][q] = local[v][q]
        BY <2>2, MovesOne, SetsOne DEF On, WorkerOf, RunOf
      <3>2. runs' = runs
        BY <2>2 DEF storeVars
      <3>3. Charge(e, w, r)'
        BY <1>1, <2>1, <3>1, <3>2
        DEF Charge, Looping, Leaving, Held, Released, IsActive, BeforeFinal, Active
      <3>. QED
        BY <2>2, <3>1, <3>3 DEF Acts, Transacts
    <2>3. CASE mode[w] # "up" /\ Goto(e, "handoff") /\ UNCHANGED <<storeVars, local>>
      <3>1. Leaving(w)
        BY <1>8, <2>3 DEF Poll, InThread, ThreadAlive, Leaving, IInv, RestOK
      <3>. QED
        BY <1>3, <2>1, <2>3, <3>1 DEF BeforeFinal
    <2>4. CASE Goto(e, "verify") /\ UNCHANGED <<storeVars, local>>
      BY <1>3, <2>1, <2>4 DEF BeforeFinal
    <2>5. CASE /\ exec' = [exec EXCEPT ![e].pc = "execute", ![e].cycle = @ + 1]
               /\ UNCHANGED <<storeVars, local>>
      <3>1. /\ exec'[e].pc = "execute" /\ exec'[e].cycle = exec[e].cycle + 1 /\ On(e, w, r)'
            /\ \A f \in Executors \ {e} : exec'[f] = exec[f]
        BY <2>5 DEF IInv, Exec, On, WorkerOf, RunOf
      <3>2. runs' = runs
        BY <2>5 DEF storeVars
      <3>3. local[w][r].ckpt <= exec[e].cycle + 1
        BY <1>2, <2>1
      <3>4. Charge(e, w, r)'
        BY <1>1, <2>1, <2>5, <3>1, <3>2, <3>3
        DEF Charge, Looping, Leaving, Held, Released, IsActive
      <3>. QED
        BY <2>5, <3>1, <3>4 DEF Acts, Transacts
    <2>. QED
      BY <1>8, <2>2, <2>3, <2>4, <2>5 DEF Poll
  <1>9. CASE Execute(e)
    BY <1>4, <1>9 DEF Execute, InThread, ThreadPcs, BeforeFinal
  <1>10. CASE ToolReturns(e)
    <2>1. Fence(e, exec[e].cycle, "poll") /\ exec[e].cycle \in Ckpts /\ "poll" \in ThreadPcs
          /\ exec[e].cycle <= exec[e].cycle
      BY <1>1, <1>10, AtWork, CkptFacts DEF ToolReturns, ThreadPcs
    <2>. QED
      BY <1>1, <2>1, FenceActs DEF Fence
  <1>11. CASE Verify(e)
    BY <1>4, <1>11 DEF Verify, InThread, ThreadPcs, BeforeFinal
  <1>12. CASE UpdatePolicy(e)
    BY <1>1, <1>12, LearnFenceActs DEF UpdatePolicy, InThread
  <1>13. CASE EpisodeFence(e)
    BY <1>1, <1>13, LearnFenceActs DEF EpisodeFence, InThread
  <1>14. CASE RecordEpisode(e)
    BY <1>4, <1>14 DEF RecordEpisode, InThread, ThreadPcs, BeforeFinal
  <1>15. CASE FinalCheckpoint(e)
    <2>1. Fence(e, FinalCkpt, "returned") /\ "returned" \in ThreadPcs
          /\ "returned" \notin BeforeFinal
      BY <1>15 DEF FinalCheckpoint, ThreadPcs, BeforeFinal
    <2>. QED
      BY <1>1, <2>1, FenceActs, CkptFacts DEF Fence
  <1>16. CASE Returned(e)
    <2>1. exec[e].pc = "returned"
      BY <1>16 DEF Returned, InThread
    <2>2. CASE Goto(e, "cancelling") /\ UNCHANGED <<storeVars, local>>
      BY <1>3, <2>1, <2>2 DEF BeforeFinal
    <2>3. CASE RenewLease(r, w) /\ Goto(e, "publish") /\ UNCHANGED local
      BY <1>3, <2>1, <2>3 DEF BeforeFinal
    <2>4. CASE /\ IF runs[r].status \in Terminal /\ HasRow(e)
                  THEN SetRow(w, r, runs[r].status, NoCkpt) ELSE DropRow(w, r)
               /\ Ends(e) /\ UNCHANGED storeVars
      <3>1. exec'[e] = Idle /\ \A f \in Executors \ {e} : exec'[f] = exec[f]
        BY <2>4, MovesOne
      <3>2. /\ local'[w][r].status \notin Active
            /\ \A v \in Workers, q \in Runs : v # w \/ q # r => local'[v][q] = local[v][q]
        <4>1. CASE DropRow(w, r)
          BY <4>1, DropsOne DEF AbsentLocal, Active
        <4>2. ASSUME NEW s \in Terminal, SetRow(w, r, s, NoCkpt)
              PROVE  /\ local'[w][r].status \notin Active
                     /\ \A v \in Workers, q \in Runs :
                           v # w \/ q # r => local'[v][q] = local[v][q]
          <5>1. local'[w][r] = [status |-> s, ckpt |-> NoCkpt]
            BY <4>2, SetsOne
          <5>. QED
            BY <4>2, <5>1, SetsOne DEF Active, Terminal
        <4>. QED
          BY <2>4, <4>1, <4>2
      <3>. QED
        BY <2>4, <3>1, <3>2 DEF Acts, Transacts
    <2>. QED
      BY <1>16, <2>2, <2>3, <2>4 DEF Returned
  <1>17. CASE Publish(e)
    <2>1. exec[e].pc = "publish"
      BY <1>17 DEF Publish, InLoop
    <2>2. CASE (Goto(e, "failing") \/ Goto(e, "cancelling")) /\ UNCHANGED <<storeVars, local>>
      BY <1>3, <2>1, <2>2 DEF BeforeFinal
    <2>3. CASE PublishRun(r, w) /\ Goto(e, "published") /\ UNCHANGED local
      <3>1. /\ exec'[e].pc = "published" /\ On(e, w, r)'
            /\ \A f \in Executors \ {e} : exec'[f] = exec[f]
        BY <2>3, MovesOne, SetsOne DEF On, WorkerOf, RunOf
      <3>2. runs'[r].status = "completed" /\ runs'[r].owner = NoOwner
        BY <2>3 DEF PublishRun, IInv, StoreInv, StoreTypeOK
      <3>3. Charge(e, w, r)'
        BY <1>1, <2>3, <3>1, <3>2, NoOwnerAssumption
        DEF Charge, Released, IsActive, BeforeFinal, Active
      <3>. QED
        BY <2>3, <3>1, <3>3 DEF Acts, Transacts
    <2>4. CASE Retire(e) /\ UNCHANGED storeVars
      BY <2>4, Retires
    <2>. QED
      BY <1>17, <2>2, <2>3, <2>4 DEF Publish
  <1>18. CASE Published(e)
    BY <1>18, Retires DEF Published
  <1>19. CASE Cancelling(e)
    BY <1>19, LastPersistActs DEF Cancelling
  <1>20. CASE Failing(e)
    BY <1>20, LastPersistActs DEF Failing
  <1>21. CASE Handoff(e)
    <2>1. mode[w] = "draining" /\ Ends(e)
      BY <1>21 DEF Handoff, InLoop, LoopFree, Charge, Leaving
    <2>2. CASE ReleaseRun(r, w, RowOf(e).ckpt) /\ SetRow(w, r, "interrupted", RowOf(e).ckpt)
      BY <2>1, <2>2, MovesOne, SetsOne DEF Acts, Transacts
    <2>3. CASE SetRow(w, r, runs[r].status, RowOf(e).ckpt) /\ UNCHANGED storeVars
      BY <2>1, <2>3, MovesOne, SetsOne DEF Acts, Transacts
    <2>. QED
      BY <1>21, <2>2, <2>3 DEF Handoff
  <1>. QED
    BY <1>5, <1>6, <1>7, <1>8, <1>9, <1>10, <1>11, <1>12, <1>13, <1>14, <1>15, <1>16,
       <1>17, <1>18, <1>19, <1>20, <1>21
    DEF ExecutorStep

-----------------------------------------------------------------------------
(* The steps of the others.                                                 *)

\* A disruption is within one of the budgets.
LEMMA SpendFacts ==
  ASSUME IInv, NEW d \in Disruptions, Spend(d)
  PROVE  /\ used'[d] = used[d] + 1 /\ used[d] \in Nat
         /\ \A k \in Disruptions \ {d} : used'[k] = used[k]
         /\ \E b \in Budgets : b[d] \in Nat /\ used[d] + 1 <= b[d]
  <1>1. used \in [Disruptions -> Nat] /\ used' = [used EXCEPT ![d] = @ + 1]
    BY DEF IInv, RestOK, Spend
  <1>2. \E b \in Budgets : used'[d] <= b[d]
    BY DEF Spend
  <1>. QED
    BY <1>1, <1>2, BudgetsAssumption

\* An exception ends in the failing branch; a storage error before the runner
\* leaves a row without executor, unless there are no faults.
LEMMA ErrorCharge ==
  ASSUME IInv, LawfulStep, ChargeInv, NEW e \in Executors, RunnerError(e) \/ PreRunError(e)
  PROVE  ChargeInv'
  <1>1. exec[e].pc # "idle" /\ UNCHANGED <<mode, recov>> /\ UNCHANGED mode
        /\ UNCHANGED <<storeVars, local>>
    BY DEF RunnerError, PreRunError, InLoop, ThreadPcs
  <1>. PICK w \in Workers, r \in Runs :
         w = WorkerOf(e) /\ r = RunOf(e) /\ On(e, w, r) /\ Charge(e, w, r)
    BY <1>1, InCharge
  <1>2. CASE RunnerError(e)
    <2>1. Goto(e, "failing") /\ exec[e].pc # "published" /\ UNCHANGED <<mode, recov, used>>
      BY <1>2 DEF RunnerError, ThreadPcs
    <2>2. Acts(e, w, r)
      BY <1>1, <2>1, GoesOn DEF BeforeFinal
    <2>. QED
      BY <2>1, <2>2, ActsCharge
  <1>3. CASE PreRunError(e)
    <2>1. Ends(e) /\ Spend("faults")
      BY <1>3 DEF PreRunError
    <2>2. ~NoFaults
      BY <2>1, SpendFacts DEF Disruptions, NoFaults
    <2>3. exec'[e] = Idle /\ \A f \in Executors \ {e} : exec'[f] = exec[f]
      BY <2>1, MovesOne
    <2>4. used'["drains"] = used["drains"]
      BY <2>1, SpendFacts DEF Disruptions
    <2>5. Touches(w, r)
      BY <1>1, <2>3, <2>4 DEF Touches, On, WorkerOf, RunOf, Idle
    <2>6. PairOK(w, r) /\ recov[w].run # r
      BY DEF ChargeInv, PairOK, Swept
    <2>7. \A f \in Executors : ~On(f, w, r)'
      BY <2>3, <2>6 DEF PairOK, On, WorkerOf, RunOf, Idle
    <2>8. PairOK(w, r)'
      BY <1>1, <2>2, <2>6, <2>7 DEF PairOK, NoFaults
    <2>9. Transacts(w, r)
      BY <1>1 DEF Transacts
    <2>. QED
      BY <2>5, <2>8, <2>9, TransactsApart, TouchesCharge
  <1>. QED
    BY <1>2, <1>3

\* The route that accepts a task makes the first executor of the run.
LEMMA StartCharge ==
  ASSUME IInv, LawfulStep, ChargeInv, NEW w \in Workers, NEW r \in Runs, NEW e \in Executors,
         Start(w, r, e)
  PROVE  ChargeInv'
  <1>1. /\ mode[w] = "up" /\ recov[w].run = NoRun /\ exec[e].pc = "idle"
        /\ StartRun(r, w) /\ SetRow(w, r, "running", NoCkpt)
        /\ UNCHANGED <<mode, recov, used>> /\ UNCHANGED mode
    BY DEF Start, LoopFree
  <1>2. /\ exec'[e] = [pc |-> "begin", run |-> r, worker |-> w, cycle |-> 0]
        /\ \A f \in Executors \ {e} : exec'[f] = exec[f]
    BY DEF Start, IInv
  <1>3. /\ local'[w][r] = [status |-> "running", ckpt |-> NoCkpt]
        /\ \A v \in Workers, q \in Runs : v # w \/ q # r => local'[v][q] = local[v][q]
    BY <1>1, SetsOne
  <1>4. /\ runs[r].status = "absent" /\ \A q \in Runs \ {r} : runs'[q] = runs[q]
        /\ runs'[r] = [status |-> "running", owner |-> w, lease |-> "live", ckpt |-> NoCkpt]
    BY <1>1 DEF StartRun, IInv, StoreInv, StoreTypeOK
  <1>5. ASSUME NEW v \in Workers, NEW q \in Runs, v # w \/ q # r
        PROVE  RowApart(v, q)
    BY <1>4, <1>5, NoOwnerAssumption DEF RowApart, Held, Released, IsActive, Active
  <1>6. Touches(w, r)
    BY <1>1, <1>2, <1>3 DEF Touches, On, WorkerOf, RunOf
  <1>7. \A f \in Executors \ {e} : ~On(f, w, r)'
    BY <1>2, <1>4 DEF ChargeInv, PairOK, Charge, On, WorkerOf, RunOf
  <1>8. On(e, w, r)'
    BY <1>2 DEF On, WorkerOf, RunOf
  <1>9. Charge(e, w, r)'
    BY <1>1, <1>2, <1>3, <1>4, NoOwnerAssumption
    DEF Charge, Looping, Held, Released, IsActive, Active, NoCkpt
  <1>10. PairOK(w, r)'
    BY <1>1, <1>7, <1>8, <1>9, NoRunAssumption DEF PairOK
  <1>. QED
    BY <1>5, <1>6, <1>10, TouchesCharge

\* What the sweep does with the row it holds: it gives the row up, or stages it
\* for a new executor.
LEMMA RecoveryCharge ==
  ASSUME IInv, LawfulStep, ChargeInv, NEW w \in Workers, RecoveryStep(w)
  PROVE  ChargeInv'
  <1>. PICK r \in Runs : r = recov[w].run
    BY DEF RecoveryStep, RecoverCancelled, RecoverStale, RecoverAnswer, RecoverStage,
           Recovering, IInv, Recov
  <1>0. /\ Swept(w, r) /\ PairOK(w, r) /\ MaySave(runs[r], w)
        /\ recov[w].ckpt \in Ckpts /\ recov \in [Workers -> Recov]
    BY DEF ChargeInv, PairOK, Swept, Held, MaySave, IsActive, IInv, Recov
  <1>1. RecoveryDone(w) /\ UNCHANGED mode /\ UNCHANGED <<mode, used>>
    BY DEF RecoveryStep, RecoverCancelled, RecoverStale, RecoverAnswer, RecoverStage
  <1>2. recov'[w].run = NoRun /\ \A v \in Workers \ {w} : recov'[v] = recov[v]
    BY <1>0, <1>1 DEF RecoveryDone, NoRecovery
  <1>3. ASSUME UNCHANGED exec, Transacts(w, r), UNCHANGED local \/ DropRow(w, r)
        PROVE  ChargeInv'
    <2>1. /\ local'[w][r] = local[w][r] \/ local'[w][r].status \notin Active
          /\ \A v \in Workers, q \in Runs : v # w \/ q # r => local'[v][q] = local[v][q]
      BY <1>3, DropsOne DEF AbsentLocal, Active
    <2>2. Touches(w, r)
      BY <1>1, <1>2, <1>3, <2>1 DEF Touches
    <2>3. \A e \in Executors : ~On(e, w, r) /\ ~On(e, w, r)'
      BY <1>0, <1>3 DEF Swept, On, WorkerOf, RunOf
    <2>4. PairOK(w, r)'
      BY <1>0, <1>1, <1>2, <2>1, <2>3, NoRunAssumption DEF PairOK, NoFaults
    <2>. QED
      BY <1>3, <2>2, <2>4, TransactsApart, TouchesCharge
  <1>4. ASSUME NEW s \in {"cancelled", "failed"}, RecoverySave(w, s)
        PROVE  Transacts(w, r)
    BY <1>0, <1>4, CkptFacts DEF RecoverySave, Transacts, Statuses, Terminal
  <1>5. CASE RecoverCancelled(w) \/ RecoverStale(w)
    BY <1>3, <1>4, <1>5 DEF RecoverCancelled, RecoverStale
  <1>6. CASE RecoverAnswer(w)
    BY <1>3, <1>6 DEF RecoverAnswer, Transacts
  <1>7. ASSUME NEW e \in Executors, RecoverStage(w, e) PROVE ChargeInv'
    <2>. PICK c \in Ckpts : c = recov[w].ckpt
      BY <1>0
    <2>1. /\ SaveRun(r, w, "running", c)
          /\ SetRow(w, r, SavedStatus(runs[r], "running"), c)
          /\ exec' = [exec EXCEPT ![e] = [pc |-> "begin", run |-> r, worker |-> w, cycle |-> c]]
          /\ exec[e].pc = "idle"
      BY <1>0, <1>7 DEF RecoverStage
    <2>2. /\ exec'[e] = [pc |-> "begin", run |-> r, worker |-> w, cycle |-> c]
          /\ \A f \in Executors \ {e} : exec'[f] = exec[f]
      BY <2>1 DEF IInv
    <2>3. /\ SavedStatus(runs[r], "running") \in Active /\ runs'[r].ckpt = c
          /\ Held(r, w)' /\ ~Released(r)' /\ runs'[r].status # "absent"
      BY <2>1, SavedHeld DEF Active
    <2>. PICK t \in Active : t = SavedStatus(runs[r], "running")
      BY <2>3
    <2>4. SetRow(w, r, t, c)
      BY <2>1
    <2>5. local'[w][r] = [status |-> t, ckpt |-> c]
      BY <2>4, SetsOne
    <2>6. \A v \in Workers, q \in Runs : v # w \/ q # r => local'[v][q] = local[v][q]
      BY <2>4, SetsOne
    <2>7. Touches(w, r)
      BY <1>1, <1>2, <2>1, <2>2, <2>6 DEF Touches, On, WorkerOf, RunOf
    <2>8. \A f \in Executors \ {e} : ~On(f, w, r)'
      BY <1>0, <2>2 DEF Swept, On, WorkerOf, RunOf
    <2>9. On(e, w, r)'
      BY <2>2 DEF On, WorkerOf, RunOf
    <2>10. mode'[w] # "down" /\ c <= c
      BY <1>0, <1>1, MaxToolsAssumption DEF Swept, Looping, Ckpts, NoCkpt, FinalCkpt
    <2>11. Charge(e, w, r)'
      BY <2>2, <2>3, <2>5, <2>10 DEF Charge
    <2>12. PairOK(w, r)'
      BY <1>2, <2>8, <2>9, <2>11, NoRunAssumption DEF PairOK
    <2>13. Transacts(w, r)
      BY <2>1 DEF Transacts, Statuses, Active
    <2>. QED
      BY <2>7, <2>12, <2>13, TransactsApart, TouchesCharge
  <1>. QED
    BY <1>5, <1>6, <1>7 DEF RecoveryStep

\* The heartbeat: a renewal keeps what is held.  The sweep takes a row whatever
\* its owner; that no executor of the same worker is behind it follows from the
\* lease, which every such executor holds.
LEMMA HeartbeatCharge ==
  ASSUME IInv, LawfulStep, ChargeInv, NEW w \in Workers, NEW r \in Runs,
         Renew(w, r) \/ Claim(w, r)
  PROVE  ChargeInv'
  <1>0. runs \in [Runs -> Row] /\ PairOK(w, r) /\ LoopFree(w)
    BY DEF ChargeInv, IInv, StoreInv, StoreTypeOK, Renew, Claim
  <1>1. CASE Renew(w, r)
    <2>1. RenewLease(r, w) /\ UNCHANGED <<local, exec, recov, used>> /\ UNCHANGED mode
      BY <1>1 DEF Renew, workerVars
    <2>2. Transacts(w, r) /\ Touches(w, r)
      BY <2>1 DEF Transacts, Touches
    <2>3. /\ Held(r, w)' /\ runs'[r].owner = w /\ runs[r].owner = w
          /\ runs'[r].ckpt = runs[r].ckpt /\ runs'[r].status = runs[r].status
      BY <1>0, <2>1 DEF RenewLease, MayRenew, Held, IsActive, Row
    <2>4. Apart(w, r)
      BY <2>1, <2>3, NoOwnerAssumption DEF Apart, RowApart, Released
    <2>. QED
      BY <1>0, <2>2, <2>4, ApartKept, TransactsApart, TouchesCharge
  <1>2. CASE Claim(w, r)
    <2>1. /\ ClaimRun(r, w) /\ UNCHANGED <<local, exec>> /\ UNCHANGED mode
          /\ recov' = [recov EXCEPT ![w] =
                          [run |-> r, status |-> runs[r].status, ckpt |-> runs[r].ckpt]]
          /\ UNCHANGED used \/ Spend("pauses")
      BY <1>2 DEF Claim
    <2>0. used'["drains"] = used["drains"]
      BY <2>1, SpendFacts DEF Disruptions
    <2>2. /\ IsActive(r) /\ (runs[r].owner = NoOwner \/ runs[r].lease # "live")
          /\ Held(r, w)' /\ runs'[r].owner = w /\ runs'[r].ckpt = runs[r].ckpt
          /\ runs'[r].status = runs[r].status
          /\ \A q \in Runs \ {r} : runs'[q] = runs[q]
      BY <1>0, <2>1 DEF ClaimRun, Claimable, Held, IsActive, Row
    <2>3. ASSUME NEW v \in Workers, NEW q \in Runs, v # w \/ q # r
          PROVE  RowApart(v, q)
      BY <2>2, <2>3, NoOwnerAssumption DEF RowApart, Held, Released, IsActive
    <2>4. recov[w].run = NoRun /\ Looping(w)
      BY <1>0 DEF LoopFree, Looping
    <2>5. recov'[w] = [run |-> r, status |-> runs[r].status, ckpt |-> runs[r].ckpt]
          /\ \A v \in Workers \ {w} : recov'[v] = recov[v]
      BY <2>1 DEF IInv
    <2>6. Touches(w, r)
      BY <2>0, <2>1, <2>4, <2>5 DEF Touches
    <2>7. \A e \in Executors : ~On(e, w, r) /\ ~On(e, w, r)'
      <3>1. ~Held(r, w) /\ runs[r].status # "completed"
        BY <2>2, NoOwnerAssumption DEF Held, IsActive, Active
      <3>2. \A e \in Executors : ~On(e, w, r)
        BY <1>0, <2>4, <3>1 DEF PairOK, Charge
      <3>. QED
        BY <2>1, <3>2 DEF On, WorkerOf, RunOf
    <2>8. Swept(w, r)'
      BY <2>1, <2>2, <2>4, <2>5, <2>7 DEF Swept, Looping
    <2>9. PairOK(w, r)'
      BY <1>0, <2>1, <2>7, <2>8 DEF PairOK, NoFaults
    <2>. QED
      BY <2>3, <2>6, <2>9, TouchesCharge
  <1>. QED
    BY <1>1, <1>2

\* The user's request changes the status of the row and of one copy of it,
\* both active before and after.
LEMMA CancelCharge ==
  ASSUME IInv, LawfulStep, ChargeInv, NEW w \in Workers, NEW r \in Runs, Cancel(w, r)
  PROVE  ChargeInv'
  <1>0. runs \in [Runs -> Row] /\ PairOK(w, r) /\ RowOK(local[w][r], r)
    BY DEF ChargeInv, IInv, StoreInv, StoreTypeOK
  <1>1. RequestCancel(r) /\ UNCHANGED <<exec, recov, used>> /\ UNCHANGED mode
    BY DEF Cancel
  <1>2. /\ IsActive(r) /\ IsActive(r)' /\ runs'[r].owner = runs[r].owner
        /\ runs'[r].lease = runs[r].lease /\ runs'[r].ckpt = runs[r].ckpt
        /\ \A q \in Runs \ {r} : runs'[q] = runs[q]
    BY <1>0, <1>1 DEF RequestCancel, IsActive, Active, Row
  <1>3. \A v \in Workers, q \in Runs : RowApart(v, q)
    BY <1>2 DEF RowApart, Held, Released, IsActive, Active
  <1>4. \/ UNCHANGED local
        \/ /\ local[w][r].status # "absent"
           /\ SetRow(w, r, "cancel_requested", local[w][r].ckpt)
    BY DEF Cancel
  <1>5. CASE UNCHANGED local
    <2>1. Touches(w, r) /\ Apart(w, r)
      BY <1>1, <1>3, <1>5 DEF Touches, Apart
    <2>. QED
      BY <1>0, <1>3, <2>1, ApartKept, TouchesCharge
  <1>6. CASE /\ local[w][r].status # "absent"
             /\ SetRow(w, r, "cancel_requested", local[w][r].ckpt)
    <2>1. local[w][r].status \in Active
      BY <1>0, <1>2, <1>6 DEF RowOK, LocalRow, IsActive, Active, Terminal, Statuses
    <2>0. local'[w][r] = [status |-> "cancel_requested", ckpt |-> local[w][r].ckpt]
      BY <1>6, SetsOne
    <2>2. /\ local'[w][r].status = "cancel_requested" /\ local'[w][r].ckpt = local[w][r].ckpt
          /\ \A v \in Workers, q \in Runs : v # w \/ q # r => local'[v][q] = local[v][q]
      BY <1>6, <2>0, SetsOne
    <2>3. Touches(w, r)
      BY <1>1, <2>2 DEF Touches
    <2>4. \A e \in Executors : On(e, w, r)' <=> On(e, w, r)
      BY <1>1 DEF On, WorkerOf, RunOf
    <2>5. RowApart(w, r)
      BY <1>3
    <2>6. ASSUME NEW e \in Executors, On(e, w, r), Charge(e, w, r) PROVE Charge(e, w, r)'
      BY <1>1, <1>2, <2>2, <2>5, <2>6
      DEF Charge, RowApart, Looping, Leaving, Released, IsActive, Active
    <2>7. Swept(w, r) => Swept(w, r)'
      BY <1>1, <1>2, <2>4, <2>5 DEF Swept, RowApart, Looping
    <2>8. PairOK(w, r)'
      BY <1>0, <1>1, <2>1, <2>4, <2>6, <2>7 DEF PairOK, NoFaults
    <2>. QED
      BY <1>3, <2>3, <2>8, TouchesCharge
  <1>. QED
    BY <1>4, <1>5, <1>6

\* A lease lapses only when nobody is in charge any more: without stalls, the
\* heartbeat renews the others.
LEMMA TimeCharge ==
  ASSUME NoStalls, IInv, LawfulStep, ChargeInv, NEW r \in Runs, Expire(r) \/ Stall(r)
  PROVE  ChargeInv'
  <1>1. ~Stall(r)
    BY SpendFacts DEF Stall, Disruptions, NoStalls
  <1>2. ~Renewed(r) /\ Lapse(r) /\ UNCHANGED <<local, exec, recov, used>> /\ UNCHANGED mode
    BY <1>1 DEF Expire, workerVars
  <1>3. /\ runs'[r].owner = runs[r].owner /\ runs'[r].status = runs[r].status
        /\ runs'[r].ckpt = runs[r].ckpt
        /\ \A q \in Runs \ {r} : runs'[q] = runs[q]
    BY <1>2 DEF Lapse, IInv, StoreInv, StoreTypeOK, Row
  <1>4. ASSUME NEW w \in Workers, NEW q \in Runs PROVE PairOK(w, q)'
    <2>0. PairOK(w, q)
      BY DEF ChargeInv
    <2>1. CASE Held(q, w) => Held(q, w)'
      <3>1. Apart(w, q)
        BY <1>2, <1>3, <2>1 DEF Apart, RowApart, Released, IsActive
      <3>. QED
        BY <2>0, <3>1, ApartKept
    <2>2. CASE q = r /\ runs[r].owner = w
      <3>1. ~(Looping(w) /\ (local[w][r].status \in Active \/ recov[w].run = r))
        BY <1>2, <2>2 DEF Renewed, Looping
      <3>2. \A e \in Executors : On(e, w, r)' <=> On(e, w, r)
        BY <1>2 DEF On, WorkerOf, RunOf
      <3>3. recov[w].run # r
        BY <2>0, <2>2, <3>1 DEF PairOK, Swept
      <3>4. ASSUME NEW e \in Executors, On(e, w, r) PROVE Charge(e, w, r)'
        <4>1. Charge(e, w, r) /\ ~Looping(w)
          BY <2>0, <2>2, <3>1, <3>4 DEF PairOK, Charge
        <4>. QED
          BY <1>2, <1>3, <4>1 DEF Charge, Looping, Leaving, Released, IsActive
      <3>. QED
        BY <1>2, <2>0, <2>2, <3>2, <3>3, <3>4 DEF PairOK, NoFaults
    <2>3. ~Held(q, w) \/ Held(q, w)' \/ (q = r /\ runs[r].owner = w)
      BY <1>3 DEF Held, IsActive
    <2>. QED
      BY <2>1, <2>2, <2>3
  <1>5. LeavesOnce => LeavesOnce'
    BY <1>2 DEF LeavesOnce, Leaving
  <1>. QED
    BY <1>4, <1>5 DEF ChargeInv

\* A session that drains keeps its loop, one that stops has no sweep under way,
\* and of one that is gone nothing is left.
LEMMA SessionCharge ==
  ASSUME IInv, ChargeInv, NEW w \in Workers, Drain(w) \/ Stop(w) \/ Exit(w) \/ Crash(w)
  PROVE  ChargeInv'
  <1>0. mode \in [Workers -> {"up", "draining", "stopped", "down"}] /\ runs' = runs
    BY DEF IInv, RestOK, Drain, Stop, Exit, Crash, Gone, storeVars
  <1>1. ASSUME NEW v \in Workers, v # w, NEW r \in Runs,
               mode'[v] = mode[v], local'[v][r] = local[v][r], recov'[v] = recov[v],
               \A e \in Executors : exec'[e] = exec[e] \/ (~On(e, v, r) /\ ~On(e, v, r)')
        PROVE  PairOK(v, r)'
    <2>1. Apart(v, r)
      BY <1>0, <1>1 DEF Apart, RowApart, Held, Released, IsActive
    <2>. QED
      BY <2>1, ApartKept DEF ChargeInv
  <1>2. ASSUME \/ mode[w] = "up" /\ mode'[w] = "draining"
               \/ mode[w] = "draining" /\ mode'[w] = "stopped" /\ recov[w].run = NoRun,
               UNCHANGED <<local, exec, recov>>, NEW r \in Runs
        PROVE  PairOK(w, r)'
    <2>1. PairOK(w, r) /\ \A e \in Executors : On(e, w, r)' <=> On(e, w, r)
      BY <1>2 DEF ChargeInv, On, WorkerOf, RunOf
    <2>2. ASSUME NEW e \in Executors, Charge(e, w, r) PROVE Charge(e, w, r)'
      BY <1>0, <1>2, <2>2 DEF Charge, Looping, Leaving, Held, Released, IsActive
    <2>3. recov'[w].run = r => Swept(w, r)'
      BY <1>0, <1>2, <2>1, NoRunAssumption DEF PairOK, Swept, Looping, Held, IsActive
    <2>. QED
      BY <1>2, <2>1, <2>2, <2>3 DEF PairOK
  <1>3. CASE Drain(w)
    <2>1. /\ mode[w] = "up" /\ mode' = [mode EXCEPT ![w] = "draining"] /\ Spend("drains")
          /\ UNCHANGED <<local, exec, recov>>
      BY <1>3 DEF Drain
    <2>2. ASSUME NEW v \in Workers, NEW r \in Runs PROVE PairOK(v, r)'
      <3>1. CASE v = w
        <4>1. \/ mode[w] = "up" /\ mode'[w] = "draining"
              \/ mode[w] = "draining" /\ mode'[w] = "stopped" /\ recov[w].run = NoRun
          BY <1>0, <2>1
        <4>2. PairOK(w, r)'
          BY <1>2, <2>1, <4>1
        <4>. QED
          BY <3>1, <4>2
      <3>2. CASE v # w
        BY <1>0, <1>1, <2>1, <3>2
      <3>. QED
        BY <3>1, <3>2
    <2>3. ASSUME OneDrain, LeavesOnce PROVE LeavesOnce'
      <3>1. used["drains"] = 0 /\ used'["drains"] = 1
        BY <2>1, <2>3, SpendFacts DEF Disruptions, OneDrain
      <3>2. \A v \in Workers : ~Leaving(v)
        BY <2>3, <3>1 DEF LeavesOnce
      <3>3. \A v \in Workers : Leaving(v)' => v = w
        BY <1>0, <2>1, <3>2 DEF Leaving
      <3>. QED
        BY <3>1, <3>3 DEF LeavesOnce
    <2>. QED
      BY <2>2, <2>3 DEF ChargeInv
  <1>4. CASE Stop(w)
    <2>1. /\ mode[w] = "draining" /\ mode' = [mode EXCEPT ![w] = "stopped"]
          /\ recov[w].run = NoRun /\ UNCHANGED <<local, exec, recov, used>>
      BY <1>4 DEF Stop
    <2>2. ASSUME NEW v \in Workers, NEW r \in Runs PROVE PairOK(v, r)'
      <3>1. CASE v = w
        <4>1. \/ mode[w] = "up" /\ mode'[w] = "draining"
              \/ mode[w] = "draining" /\ mode'[w] = "stopped" /\ recov[w].run = NoRun
          BY <1>0, <2>1
        <4>2. PairOK(w, r)'
          BY <1>2, <2>1, <4>1
        <4>. QED
          BY <3>1, <4>2
      <3>2. CASE v # w
        BY <1>0, <1>1, <2>1, <3>2
      <3>. QED
        BY <3>1, <3>2
    <2>3. LeavesOnce => LeavesOnce'
      BY <1>0, <2>1 DEF LeavesOnce, Leaving
    <2>. QED
      BY <2>2, <2>3 DEF ChargeInv
  <1>5. ASSUME Gone(w), used'["drains"] = used["drains"] PROVE ChargeInv'
    <2>1. /\ mode'[w] = "down" /\ \A v \in Workers \ {w} : mode'[v] = mode[v]
          /\ \A r \in Runs : local'[w][r] = AbsentLocal
          /\ \A v \in Workers \ {w} : local'[v] = local[v] /\ recov'[v] = recov[v]
          /\ recov'[w] = NoRecovery
      BY <1>0, <1>5 DEF Gone, IInv
    <2>2. \A e \in Executors : exec'[e] = IF WorkerOf(e) = w THEN Idle ELSE exec[e]
      BY <1>5 DEF Gone
    <2>3. \A e \in Executors, r \in Runs : ~On(e, w, r)'
      BY <2>2 DEF On, WorkerOf, Idle
    <2>4. ASSUME NEW r \in Runs PROVE PairOK(w, r)'
      BY <2>1, <2>3, NoRunAssumption DEF PairOK, NoRecovery
    <2>5. ASSUME NEW v \in Workers, v # w, NEW r \in Runs PROVE PairOK(v, r)'
      <3>1. \A e \in Executors : exec'[e] = exec[e] \/ (~On(e, v, r) /\ ~On(e, v, r)')
        BY <2>2, <2>5 DEF On, WorkerOf, Idle
      <3>. QED
        BY <1>1, <2>1, <2>5, <3>1
    <2>6. LeavesOnce => LeavesOnce'
      BY <1>5, <2>1 DEF LeavesOnce, Leaving
    <2>. QED
      BY <2>4, <2>5, <2>6 DEF ChargeInv
  <1>6. CASE Exit(w)
    BY <1>5, <1>6 DEF Exit
  <1>7. CASE Crash(w)
    BY <1>5, <1>7, SpendFacts DEF Crash, Disruptions
  <1>. QED
    BY <1>3, <1>4, <1>6, <1>7

-----------------------------------------------------------------------------
(* The theorems about the executor in charge: without stalls; if besides    *)
(* the storage does not fail; and when one session at a time leaves.        *)

\* Nobody is at work, nothing is held.
LEMMA InitCharge == Init => ChargeInv
  <1>. SUFFICES ASSUME Init PROVE ChargeInv
    OBVIOUS
  <1>1. \A w \in Workers, r \in Runs : PairOK(w, r)
    BY NoRunAssumption
    DEF Init, PairOK, On, Idle, NoRecovery, AbsentLocal, Active
  <1>2. LeavesOnce
    BY DEF Init, LeavesOnce, Leaving
  <1>. QED
    BY <1>1, <1>2 DEF ChargeInv

\* No step but a stall disturbs who is in charge.
LEMMA NextCharge ==
  ASSUME NoStalls, IInv, ChargeInv, Next
  PROVE  ChargeInv'
  <1>1. LawfulStep
    BY NextEffect DEF Effect
  <1>. QED
    BY <1>1, ExecutorCharge, ErrorCharge, StartCharge, RecoveryCharge, HeartbeatCharge,
       CancelCharge, TimeCharge, SessionCharge
    DEF Next

\* The invariant holds throughout when no lease stalls.
LEMMA ChargeInvariant == NoStalls /\ Spec => []ChargeInv
  <1>. SUFFICES ASSUME NoStalls PROVE Spec => []ChargeInv
    OBVIOUS
  <1>1. IInv /\ ChargeInv /\ [Next]_vars => ChargeInv'
    <2>1. ASSUME IInv, ChargeInv, Next PROVE ChargeInv'
      BY <2>1, NextCharge
    <2>2. ASSUME ChargeInv, UNCHANGED vars PROVE ChargeInv'
      <3>1. \A w \in Workers, r \in Runs : Apart(w, r)
        BY <2>2 DEF vars, Apart, RowApart, Held, Released, IsActive
      <3>2. LeavesOnce => LeavesOnce'
        BY <2>2 DEF vars, LeavesOnce, Leaving
      <3>. QED
        BY <2>2, <3>1, <3>2, ApartKept DEF ChargeInv
    <2>. QED
      BY <2>1, <2>2
  <1>. QED
    BY <1>1, InitCharge, Invariant, PTL DEF Spec

\* A worker never has two executors for a run that is its own, whatever is
\* claimed, handed over, crashed or resumed: the owner token of the row tells
\* the executor in charge from every stale one.
THEOREM TokenNamesTheExecutor == NoStalls /\ Spec => []OneExecutorInCharge
  <1>1. IInv /\ ChargeInv => OneExecutorInCharge
    BY AtWork DEF ChargeInv, PairOK, On, OneExecutorInCharge
  <1>. QED
    BY <1>1, Invariant, ChargeInvariant, PTL

\* What the heartbeat keeps alive somebody executes: no run is held by a session
\* that has forgotten it.
THEOREM HeldRunsAreWorkedOn == NoFaults /\ NoStalls /\ Spec => []RenewedRunsAreExecuted
  <1>. SUFFICES ASSUME NoFaults PROVE NoStalls /\ Spec => []RenewedRunsAreExecuted
    OBVIOUS
  <1>1. ChargeInv => RenewedRunsAreExecuted
    BY DEF ChargeInv, PairOK, On, RenewedRunsAreExecuted
  <1>. QED
    BY <1>1, ChargeInvariant, PTL

\* Only two steps enter the execution of a tool or the recording of an episode.
LEMMA EntersBySideEffect ==
  ASSUME IInv, Next, NEW e \in Executors,
         exec'[e].pc \in {"tool", "record"}, exec[e].pc # exec'[e].pc
  PROVE  Execute(e) \/ EpisodeFence(e)
  <1>0. exec \in [Executors -> Exec]
    BY DEF IInv
  <1>1. \A f \in Executors : \A pc : Goto(f, pc) => f = e /\ pc \in {"tool", "record"}
    BY <1>0 DEF Goto
  <1>2. \A f \in Executors : ~Ends(f) /\ ~Retire(f)
    BY <1>0 DEF Ends, Retire, Idle
  <1>3. exec' # exec
    OBVIOUS
  <1>4. ASSUME NEW f \in Executors, ExecutorStep(f)
        PROVE  Execute(e) \/ EpisodeFence(e)
    <2>1. ~Begin(f) /\ ~PreRun(f) /\ ~Resume(f) /\ ~ToolReturns(f) /\ ~Verify(f)
          /\ ~RecordEpisode(f) /\ ~FinalCheckpoint(f)
      BY <1>1, <1>2 DEF Begin, PreRun, Resume, ToolReturns, Verify, RecordEpisode,
                        FinalCheckpoint, Fence, Persist
    <2>2. ~UpdatePolicy(f)
      BY <1>1, <1>2 DEF UpdatePolicy, LearnFence
    <2>3. ~Returned(f) /\ ~Publish(f) /\ ~Published(f) /\ ~Cancelling(f) /\ ~Failing(f)
          /\ ~Handoff(f)
      BY <1>1, <1>2 DEF Returned, Publish, Published, Cancelling, Failing, Handoff, Persist
    <2>4. ~Poll(f)
      <3>1. exec' # [exec EXCEPT ![f].pc = "execute", ![f].cycle = @ + 1]
        BY <1>0 DEF Exec
      <3>. QED
        BY <1>1, <3>1 DEF Poll
    <2>5. Execute(f) \/ EpisodeFence(f) => f = e
      BY <1>1, <1>2 DEF Execute, EpisodeFence, Fence, Persist, LearnFence
    <2>. QED
      BY <1>4, <2>1, <2>2, <2>3, <2>4, <2>5 DEF ExecutorStep
  <1>5. \A f \in Executors : ~RunnerError(f) /\ ~PreRunError(f)
    BY <1>1, <1>2 DEF RunnerError, PreRunError
  <1>6. ASSUME NEW f \in Executors, NEW x,
               exec' = [exec EXCEPT ![f] = x], x.pc = "begin"
        PROVE  FALSE
    BY <1>0, <1>6
  <1>7. \A w \in Workers, r \in Runs, f \in Executors : ~Start(w, r, f)
    BY <1>6 DEF Start
  <1>8. \A w \in Workers : ~RecoveryStep(w)
    BY <1>3, <1>6 DEF RecoveryStep, RecoverCancelled, RecoverStale, RecoverAnswer, RecoverStage
  <1>9. \A w \in Workers : ~Gone(w)
    BY <1>0 DEF Gone, Idle
  <1>10. \A w \in Workers : ~Drain(w) /\ ~Stop(w) /\ ~Exit(w) /\ ~Crash(w)
    BY <1>3, <1>9 DEF Drain, Stop, Exit, Crash
  <1>11. \A w \in Workers, r \in Runs : ~Renew(w, r) /\ ~Claim(w, r) /\ ~Cancel(w, r)
    BY <1>3 DEF Renew, Claim, Cancel, workerVars
  <1>12. \A r \in Runs : ~Expire(r) /\ ~Stall(r)
    BY <1>3 DEF Expire, Stall, workerVars
  <1>. QED
    BY <1>4, <1>5, <1>7, <1>8, <1>10, <1>11, <1>12 DEF Next

\* A tool runs and an episode is recorded only just after the row has been seen
\* or made this worker's own, active and not asked to stop.
THEOREM AuthorityPrecedesEffect == NoStalls /\ Spec => SideEffectsAreFenced
  <1>. DEFINE Fenced == \A e \in Executors :
                exec'[e].pc \in {"tool", "record"} /\ exec[e].pc # exec'[e].pc =>
                    /\ runs'[RunOf(e)].owner = WorkerOf(e)
                    /\ runs'[RunOf(e)].status \in {"running", "interrupted"}
  <1>1. IInv /\ ChargeInv /\ [Next]_vars => [Fenced]_vars
    <2>. SUFFICES ASSUME IInv, ChargeInv, Next, NEW e \in Executors,
                         exec'[e].pc \in {"tool", "record"}, exec[e].pc # exec'[e].pc
                  PROVE  /\ runs'[RunOf(e)].owner = WorkerOf(e)
                         /\ runs'[RunOf(e)].status \in {"running", "interrupted"}
      OBVIOUS
    <2>1. Execute(e) \/ EpisodeFence(e)
      BY EntersBySideEffect
    <2>2. exec[e].pc # "idle"
      BY <2>1 DEF Execute, EpisodeFence, InThread
    <2>. PICK w \in Workers, r \in Runs :
           /\ w = WorkerOf(e) /\ r = RunOf(e) /\ On(e, w, r) /\ Charge(e, w, r)
           /\ RowOf(e) = local[w][r] /\ HasRow(e) /\ local[w][r].ckpt \in Ckpts
           /\ runs[r] \in Row
      BY <2>2, InCharge
    <2>3. ~Goto(e, "cancelling") /\ ~Retire(e)
      BY MovesOne DEF Retire, Idle
    <2>4. CASE Execute(e)
      <3>1. SaveRun(r, w, local[w][r].status, local[w][r].ckpt)
            /\ SavedStatus(runs[r], local[w][r].status) # "cancel_requested"
        BY <2>3, <2>4 DEF Execute, Fence, Persist
      <3>2. local[w][r].status \in Active
        BY DEF Charge
      <3>. QED
        BY <3>1, <3>2, SavedHeld DEF Held, Active
    <2>5. CASE EpisodeFence(e)
      <3>1. RenewLease(r, w) /\ runs[r].status # "cancel_requested"
        BY <2>3, <2>5 DEF EpisodeFence, LearnFence
      <3>2. runs'[r].owner = w /\ runs'[r].status = runs[r].status /\ runs[r].status \in Active
        BY <3>1 DEF RenewLease, MayRenew, IsActive, IInv, StoreInv, StoreTypeOK, Row
      <3>. QED
        BY <3>1, <3>2 DEF Active
    <2>. QED
      BY <2>1, <2>4, <2>5
  <1>. QED
    BY <1>1, Invariant, ChargeInvariant, PTL DEF Spec, SideEffectsAreFenced

\* The checkpoint of r, if r stays active, is kept or grows.
Advances(r) ==
    IsActive(r) /\ runs'[r].status \in Active => runs'[r].ckpt >= runs[r].ckpt

\* The transactions that write no checkpoint, or only that of a row which is
\* not active before or not active afterwards.
LEMMA QuietAdvances ==
  ASSUME IInv, NEW r \in Runs,
         \/ UNCHANGED storeVars \/ RequestCancel(r) \/ Lapse(r)
         \/ \E w \in Workers :
               \/ RenewLease(r, w) \/ ClaimRun(r, w) \/ StartRun(r, w) \/ PublishRun(r, w)
               \/ SaveRun(r, w, "cancelled", NoCkpt) \/ SaveRun(r, w, "failed", NoCkpt),
         NEW q \in Runs
  PROVE  Advances(q)
  <1>0. runs \in [Runs -> Row] /\ \A p \in Runs : runs[p].ckpt \in Nat
    BY MaxToolsAssumption DEF IInv, StoreInv, StoreTypeOK, Row, Ckpts, NoCkpt, FinalCkpt
  <1>1. CASE UNCHANGED storeVars \/ RequestCancel(r) \/ Lapse(r)
    BY <1>0, <1>1 DEF storeVars, RequestCancel, Lapse, Advances, Row
  <1>2. ASSUME NEW w \in Workers, RenewLease(r, w) \/ ClaimRun(r, w) PROVE Advances(q)
    BY <1>0, <1>2 DEF RenewLease, ClaimRun, Advances, Row
  <1>3. ASSUME NEW w \in Workers, StartRun(r, w) \/ PublishRun(r, w) PROVE Advances(q)
    BY <1>0, <1>3 DEF StartRun, PublishRun, Advances, IsActive, Active
  <1>4. ASSUME NEW w \in Workers, NEW s \in {"cancelled", "failed"},
               SaveRun(r, w, s, NoCkpt)
        PROVE  Advances(q)
    BY <1>0, <1>4 DEF SaveRun, SavedRow, SavedStatus, Advances, Active
  <1>. QED
    BY <1>1, <1>2, <1>3, <1>4

\* What an executor in charge saves or releases is not behind the row.
LEMMA InChargeAdvances ==
  ASSUME IInv, OneDrain, NEW e \in Executors, NEW w \in Workers, NEW r \in Runs,
         Charge(e, w, r), NEW s, NEW c \in Ckpts, c >= local[w][r].ckpt,
         local[w][r].ckpt \in Nat,
         SaveRun(r, w, s, c) \/ ReleaseRun(r, w, c), NEW q \in Runs
  PROVE  Advances(q)
  <1>0. runs \in [Runs -> Row] /\ \A p \in Runs : runs[p].ckpt \in Nat
    BY MaxToolsAssumption DEF IInv, StoreInv, StoreTypeOK, Row, Ckpts, NoCkpt, FinalCkpt
  <1>1. IsActive(r) => runs[r].ckpt = local[w][r].ckpt
    BY DEF SaveRun, MaySave, ReleaseRun, MayRelease, Charge, Released
  <1>2. q # r => runs'[q] = runs[q]
    BY <1>0 DEF SaveRun, ReleaseRun
  <1>3. runs'[r].status \in Active => runs'[r].ckpt = c
    BY <1>0 DEF SaveRun, ReleaseRun, SavedRow, SavedStatus, Active
  <1>. QED
    BY <1>0, <1>1, <1>2, <1>3 DEF Advances

\* An executor's steps, its last ones included.
LEMMA ExecutorAdvances ==
  ASSUME OneDrain, IInv, ChargeInv, NEW e \in Executors, ExecutorStep(e), NEW q \in Runs
  PROVE  Advances(q)
  <1>0. exec[e].pc # "idle"
    BY ExecutorStays
  <1>. PICK w \in Workers, r \in Runs :
         /\ w = WorkerOf(e) /\ r = RunOf(e) /\ On(e, w, r) /\ Charge(e, w, r)
         /\ RowOf(e) = local[w][r] /\ HasRow(e)
         /\ local[w][r].ckpt \in Ckpts /\ local[w][r].ckpt \in Nat
         /\ exec[e].cycle \in Nat /\ runs[r] \in Row
    BY <1>0, InCharge
  <1>1. UNCHANGED storeVars \/ RenewLease(r, w) \/ PublishRun(r, w) => Advances(q)
    BY QuietAdvances
  <1>2. ASSUME NEW c \in Ckpts, c >= local[w][r].ckpt,
               UNCHANGED storeVars \/ SaveRun(r, w, local[w][r].status, c)
        PROVE  Advances(q)
    BY <1>1, <1>2, InChargeAdvances
  <1>3. local[w][r].ckpt >= local[w][r].ckpt
    OBVIOUS
  <1>4. CASE \/ Begin(e) \/ Poll(e) \/ Published(e) \/ Returned(e) \/ Publish(e)
             \/ UpdatePolicy(e) \/ EpisodeFence(e)
    BY <1>1, <1>4 DEF Begin, Poll, Published, Returned, Publish, UpdatePolicy, EpisodeFence,
                      LearnFence, Retire
  <1>5. CASE \/ PreRun(e) \/ Resume(e) \/ Execute(e) \/ Verify(e) \/ RecordEpisode(e)
    <2>1. UNCHANGED storeVars \/ SaveRun(r, w, local[w][r].status, local[w][r].ckpt)
      BY <1>5 DEF PreRun, Resume, Execute, Verify, RecordEpisode, Fence, Persist
    <2>. QED
      BY <1>2, <1>3, <2>1
  <1>6. CASE ToolReturns(e)
    <2>1. UNCHANGED storeVars \/ SaveRun(r, w, local[w][r].status, exec[e].cycle)
      BY <1>6 DEF ToolReturns, Fence, Persist
    <2>2. exec[e].cycle \in Ckpts
      BY <1>0, AtWork, CkptFacts
    <2>3. exec[e].cycle >= local[w][r].ckpt
      BY <1>6 DEF ToolReturns, InThread, Charge, BeforeFinal
    <2>. QED
      BY <1>2, <2>1, <2>2, <2>3
  <1>7. CASE FinalCheckpoint(e)
    <2>1. UNCHANGED storeVars \/ SaveRun(r, w, local[w][r].status, FinalCkpt)
      BY <1>7 DEF FinalCheckpoint, Fence, Persist
    <2>2. FinalCkpt \in Ckpts /\ FinalCkpt >= local[w][r].ckpt
      BY CkptFacts, MaxToolsAssumption DEF Ckpts, NoCkpt, FinalCkpt
    <2>. QED
      BY <1>2, <2>1, <2>2
  <1>8. CASE Cancelling(e) \/ Failing(e)
    <2>1. \/ UNCHANGED storeVars
          \/ SaveRun(r, w, "cancelled", NoCkpt) \/ SaveRun(r, w, "failed", NoCkpt)
      BY <1>8 DEF Cancelling, Failing, Persist
    <2>. QED
      BY <2>1, QuietAdvances
  <1>9. CASE Handoff(e)
    <2>1. UNCHANGED storeVars \/ ReleaseRun(r, w, local[w][r].ckpt)
      BY <1>9 DEF Handoff
    <2>. QED
      BY <1>1, <1>3, <2>1, InChargeAdvances
  <1>. QED
    BY <1>4, <1>5, <1>6, <1>7, <1>8, <1>9 DEF ExecutorStep

\* The sweep stages the checkpoint it has claimed, which nobody has changed since.
LEMMA RecoveryAdvances ==
  ASSUME IInv, ChargeInv, NEW w \in Workers, RecoveryStep(w), NEW q \in Runs
  PROVE  Advances(q)
  <1>. PICK r \in Runs : r = recov[w].run
    BY DEF RecoveryStep, RecoverCancelled, RecoverStale, RecoverAnswer, RecoverStage,
           Recovering, IInv, Recov
  <1>0. recov[w].ckpt = runs[r].ckpt /\ runs \in [Runs -> Row] /\ runs[q].ckpt \in Nat
    BY MaxToolsAssumption
    DEF ChargeInv, PairOK, Swept, IInv, StoreInv, StoreTypeOK, Row, Ckpts, NoCkpt, FinalCkpt
  <1>1. CASE RecoverCancelled(w) \/ RecoverStale(w)
    <2>1. \/ UNCHANGED storeVars
          \/ SaveRun(r, w, "cancelled", NoCkpt) \/ SaveRun(r, w, "failed", NoCkpt)
      BY <1>1 DEF RecoverCancelled, RecoverStale, RecoverySave
    <2>. QED
      BY <2>1, QuietAdvances
  <1>2. CASE RecoverAnswer(w)
    BY <1>2, QuietAdvances DEF RecoverAnswer
  <1>3. ASSUME NEW e \in Executors, RecoverStage(w, e) PROVE Advances(q)
    <2>1. UNCHANGED storeVars \/ SaveRun(r, w, "running", runs[r].ckpt)
      BY <1>0, <1>3 DEF RecoverStage
    <2>2. ASSUME SaveRun(r, w, "running", runs[r].ckpt) PROVE runs'[q].ckpt = runs[q].ckpt
      BY <1>0, <2>2 DEF SaveRun, SavedRow, Active
    <2>. QED
      BY <1>0, <2>1, <2>2, QuietAdvances DEF Advances
  <1>. QED
    BY <1>1, <1>2, <1>3 DEF RecoveryStep

\* So do all steps.
LEMMA NextAdvances ==
  ASSUME OneDrain, IInv, ChargeInv, Next, NEW q \in Runs
  PROVE  Advances(q)
  <1>1. ASSUME NEW e \in Executors, RunnerError(e) \/ PreRunError(e) PROVE UNCHANGED storeVars
    BY <1>1 DEF RunnerError, PreRunError
  <1>2. ASSUME NEW w \in Workers, Drain(w) \/ Stop(w) \/ Exit(w) \/ Crash(w)
        PROVE  UNCHANGED storeVars
    BY <1>2 DEF Drain, Stop, Exit, Crash, Gone
  <1>3. UNCHANGED storeVars => Advances(q)
    BY QuietAdvances
  <1>4. ASSUME NEW w \in Workers, NEW r \in Runs, Renew(w, r) \/ Claim(w, r) \/ Cancel(w, r)
        PROVE  Advances(q)
    BY <1>4, QuietAdvances DEF Renew, Claim, Cancel
  <1>5. ASSUME NEW w \in Workers, NEW r \in Runs, NEW e \in Executors, Start(w, r, e)
        PROVE  Advances(q)
    BY <1>5, QuietAdvances DEF Start
  <1>6. ASSUME NEW r \in Runs, Expire(r) \/ Stall(r) PROVE Advances(q)
    BY <1>6, QuietAdvances DEF Expire, Stall
  <1>. QED
    BY <1>1, <1>2, <1>3, <1>4, <1>5, <1>6, ExecutorAdvances, RecoveryAdvances DEF Next

\* The durable checkpoint of an active run never goes back, so no recorded
\* action is replayed, in crashes, takeovers and a rolling restart: a run that
\* was handed over cannot meet an executor that another drain left behind.
THEOREM NothingIsReplayed == OneDrain /\ NoStalls /\ Spec => CheckpointsAdvance
  <1>. SUFFICES ASSUME OneDrain PROVE NoStalls /\ Spec => CheckpointsAdvance
    OBVIOUS
  <1>1. IInv /\ ChargeInv /\ [Next]_vars =>
          [\A r \in Runs : IsActive(r) /\ runs'[r].status \in Active =>
             runs'[r].ckpt >= runs[r].ckpt]_vars
    BY NextAdvances DEF Advances
  <1>. QED
    BY <1>1, Invariant, ChargeInvariant, PTL DEF Spec, CheckpointsAdvance
=============================================================================
