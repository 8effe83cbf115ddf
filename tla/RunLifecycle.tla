----------------------------- MODULE RunLifecycle -----------------------------
(***************************************************************************)
(* Workers executing runs over the durable store: the task route, the       *)
(* asyncio task and its runner thread, the heartbeat with its recovery      *)
(* sweep, remote cancellation, graceful drain, crash and lease expiry.      *)
(*                                                                          *)
(* An executor is one _execute task with its AgentHarness.run thread.  Its  *)
(* steps are the boundaries at which it reads or writes shared state; what  *)
(* lies between two of them touches only the executor.  A worker is one     *)
(* process session; a restarted process is another worker.                  *)
(*                                                                          *)
(* Definitions commented "Mutant" are plausible bugs in the definition that *)
(* follows; nothing uses them but the sanity check of the properties.       *)
(***************************************************************************)
EXTENDS RunStore

CONSTANTS
    Executors,      \* bound on simultaneously existing _execute tasks
    NoRun,
    Budgets         \* bound: the combinations of disruptions that may happen,
                    \* as [stalls, pauses, crashes, drains, faults]

\* stalls:  leases of a live worker that expire unrenewed
\* pauses:  sweeps that begin a whole lease after the renewals they follow
\* crashes: sessions killed at an arbitrary point
\* drains:  sessions shut down gracefully
\* faults:  storage errors before the runner has started
Disruptions == {"stalls", "pauses", "crashes", "drains", "faults"}

ASSUME NoRunAssumption == NoRun \notin Runs
ASSUME BudgetsAssumption == Budgets \subseteq [Disruptions -> Nat]

VARIABLES
    local,          \* per worker the rows of RUNS: status and checkpoint
    exec,           \* the executors
    mode,           \* up, draining (shutdown_event set), stopped (loop gone), down
    recov,          \* the claimed row the worker's recovery sweep is handling
    learned,        \* record_episode calls made on behalf of each run
    used            \* the disruptions so far

workerVars == <<local, exec, mode, recov, learned, used>>
vars == <<runs, replies, local, exec, mode, recov, learned, used>>

ThreadPcs == {"resume", "poll", "execute", "tool", "verify", "policy",
              "episode", "record", "final", "returned"}
LoopPcs   == {"begin", "prerun", "publish", "published", "cancelling", "failing", "handoff"}

Exec == [pc     : ThreadPcs \cup LoopPcs \cup {"idle"},
         run    : Runs \cup {NoRun},
         worker : Workers \cup {NoOwner},
         cycle  : 0 .. MaxTools]

Idle        == [pc |-> "idle", run |-> NoRun, worker |-> NoOwner, cycle |-> 0]
AbsentLocal == [status |-> "absent", ckpt |-> NoCkpt]
NoRecovery  == [run |-> NoRun, status |-> "absent", ckpt |-> NoCkpt]

TypeOK ==
    /\ StoreTypeOK
    /\ local \in [Workers -> [Runs -> [status : Statuses \cup {"absent"}, ckpt : Ckpts]]]
    /\ exec \in [Executors -> Exec]
    /\ mode \in [Workers -> {"up", "draining", "stopped", "down"}]
    /\ recov \in [Workers -> [run : Runs \cup {NoRun},
                              status : Statuses \cup {"absent"},
                              ckpt : Ckpts]]
    /\ learned \in [Runs -> Nat]
    /\ used \in [Disruptions -> Nat]

Init ==
    /\ StoreInit
    /\ local = [w \in Workers |-> [r \in Runs |-> AbsentLocal]]
    /\ exec = [e \in Executors |-> Idle]
    /\ mode = [w \in Workers |-> "up"]
    /\ recov = [w \in Workers |-> NoRecovery]
    /\ learned = [r \in Runs |-> 0]
    /\ used = [d \in Disruptions |-> 0]

-----------------------------------------------------------------------------
(* Shorthands.                                                              *)

RunOf(e)    == exec[e].run
WorkerOf(e) == exec[e].worker
RowOf(e)    == local[WorkerOf(e)][RunOf(e)]
HasRow(e)   == RowOf(e).status # "absent"

\* One more disruption of kind d, within one of the budgets.
Spend(d) ==
    LET more == [used EXCEPT ![d] = @ + 1] IN
    /\ \E b \in Budgets : \A k \in Disruptions : more[k] <= b[k]
    /\ used' = more

\* Thread steps go on until the process is gone; event-loop steps need the
\* loop, which the recovery sweep occupies while it handles a row.
ThreadAlive(w) == mode[w] # "down"
LoopFree(w)    == mode[w] \in {"up", "draining"} /\ recov[w].run = NoRun

InThread(e, pc) == exec[e].pc = pc /\ ThreadAlive(WorkerOf(e))
InLoop(e, pc)   == exec[e].pc = pc /\ LoopFree(WorkerOf(e))

Goto(e, pc) == exec' = [exec EXCEPT ![e].pc = pc]
Ends(e)     == exec' = [exec EXCEPT ![e] = Idle]
SetRow(w, r, s, c) == local' = [local EXCEPT ![w][r] = [status |-> s, ckpt |-> c]]
DropRow(w, r)      == local' = [local EXCEPT ![w][r] = AbsentLocal]

\* _RunLeaseLost reaches the execute wrapper: the stale row and task go away.
Retire(e) == DropRow(WorkerOf(e), RunOf(e)) /\ Ends(e)

\* Mutant: the refused save is ignored and the thread goes on.
PersistUnfenced(e, s, c, kept, stopped) ==
    LET w == WorkerOf(e)  r == RunOf(e) IN
    \/ /\ ~HasRow(e) \/ ~MaySave(runs[r], w)
       /\ kept
       /\ UNCHANGED <<storeVars, local>>
    \/ /\ HasRow(e)
       /\ SaveRun(r, w, s, c)
       /\ SetRow(w, r, SavedStatus(runs[r], s), c)
       /\ IF SavedStatus(runs[r], s) = "cancel_requested" THEN stopped ELSE kept

\* _persist_run of the executor's row as status s with checkpoint c.  An
\* executor without a local row persists nothing and goes on; a refused save
\* retires it; a durable stop request shows in the row.
Persist(e, s, c, kept, stopped) ==
    LET w == WorkerOf(e)  r == RunOf(e) IN
    \/ /\ ~HasRow(e)
       /\ kept
       /\ UNCHANGED <<storeVars, local>>
    \/ /\ HasRow(e)
       /\ ~MaySave(runs[r], w)
       /\ Retire(e)
       /\ UNCHANGED storeVars
    \/ /\ HasRow(e)
       /\ SaveRun(r, w, s, c)
       /\ SetRow(w, r, SavedStatus(runs[r], s), c)
       /\ IF SavedStatus(runs[r], s) = "cancel_requested" THEN stopped ELSE kept

\* A persistence made by the runner thread is a fence: a stop request raises
\* RunCancelled, which takes the executor to its cancellation handler.
Fence(e, c, next) == Persist(e, RowOf(e).status, c, Goto(e, next), Goto(e, "cancelling"))

-----------------------------------------------------------------------------
(* The task route and the executor.                                         *)

\* add_message: start transaction, local row and _execute task, no await between.
Start(w, r, e) ==
    /\ mode[w] = "up" /\ LoopFree(w)
    /\ exec[e].pc = "idle"
    /\ StartRun(r, w)
    /\ SetRow(w, r, "running", NoCkpt)
    /\ exec' = [exec EXCEPT ![e] = [pc |-> "begin", run |-> r, worker |-> w, cycle |-> 0]]
    /\ UNCHANGED <<mode, recov, learned, used>>

\* A run that is answered already is not executed: its row is terminal, the
\* attempt to store that again is refused and retires the executor.
Begin(e) ==
    /\ InLoop(e, "begin")
    /\ \/ replies[RunOf(e)] = 0 /\ Goto(e, "prerun") /\ UNCHANGED local
       \/ replies[RunOf(e)] > 0 /\ Retire(e)
    /\ UNCHANGED <<storeVars, mode, recov, learned, used>>

\* Perception is over; the row is persisted unless the coalescer sees nothing
\* new in it.  Outside the runner thread a stop request raises nothing here.
PreRun(e) ==
    LET next == IF exec[e].cycle > 0 THEN "resume" ELSE "poll" IN
    /\ InLoop(e, "prerun")
    /\ \/ Goto(e, next) /\ UNCHANGED <<storeVars, local>>
       \/ Persist(e, RowOf(e).status, RowOf(e).ckpt, Goto(e, next), Goto(e, next))
    /\ UNCHANGED <<mode, recov, learned, used>>

Resume(e) ==
    /\ InThread(e, "resume")
    /\ Fence(e, RowOf(e).ckpt, "poll")
    /\ UNCHANGED <<mode, recov, learned, used>>

BudgetLeft(e) == exec[e].cycle < MaxTools
StopSeen(e) == "cancel_requested" \in {RowOf(e).status, runs[RunOf(e)].status}

\* should_stop, then policy.decide: a user's stop wins over a shutdown; with
\* neither, the policy picks another tool or closes the loop.
Poll(e) ==
    LET w == WorkerOf(e)  r == RunOf(e) IN
    /\ InThread(e, "poll")
    /\ \/ /\ StopSeen(e)
          /\ Goto(e, "cancelling")
          /\ IF HasRow(e) THEN SetRow(w, r, "cancel_requested", RowOf(e).ckpt)
                          ELSE UNCHANGED local
       \/ /\ ~StopSeen(e) /\ mode[w] # "up"
          /\ Goto(e, "handoff")
          /\ UNCHANGED local
       \/ /\ ~StopSeen(e) /\ mode[w] = "up"
          /\ \/ Goto(e, "verify")
             \/ /\ BudgetLeft(e)
                /\ exec' = [exec EXCEPT ![e].pc = "execute", ![e].cycle = @ + 1]
          /\ UNCHANGED local
    /\ UNCHANGED <<storeVars, mode, recov, learned, used>>

\* The execute event is persisted before the tool runs, and the checkpoint of
\* the recorded action after it.
Execute(e) ==
    /\ InThread(e, "execute")
    /\ Fence(e, RowOf(e).ckpt, "tool")
    /\ UNCHANGED <<mode, recov, learned, used>>

ToolReturns(e) ==
    /\ InThread(e, "tool")
    /\ Fence(e, exec[e].cycle, "poll")
    /\ UNCHANGED <<mode, recov, learned, used>>

\* Mutant: the final checkpoint is written before the run is learned from.
VerifyFinal(e) ==
    /\ InThread(e, "verify")
    /\ Fence(e, FinalCkpt, "policy")
    /\ UNCHANGED <<mode, recov, learned, used>>

Verify(e) ==
    /\ InThread(e, "verify")
    /\ Fence(e, RowOf(e).ckpt, "policy")
    /\ UNCHANGED <<mode, recov, learned, used>>

\* The wrapped memory: renew the lease, then look for a stop request, then write.
LearnFence(e, next) ==
    LET w == WorkerOf(e)  r == RunOf(e) IN
    \/ /\ ~MayRenew(r, w)
       /\ Retire(e)
       /\ UNCHANGED storeVars
    \/ /\ RenewLease(r, w)
       /\ Goto(e, IF runs[r].status = "cancel_requested" THEN "cancelling" ELSE next)
       /\ UNCHANGED local

UpdatePolicy(e) ==
    /\ InThread(e, "policy")
    /\ LearnFence(e, "episode")
    /\ UNCHANGED <<mode, recov, learned, used>>

EpisodeFence(e) ==
    /\ InThread(e, "episode")
    /\ LearnFence(e, "record")
    /\ UNCHANGED <<mode, recov, learned, used>>

\* record_episode has no key that would make a second call for a run a no-op.
RecordEpisode(e) ==
    /\ InThread(e, "record")
    /\ learned' = [learned EXCEPT ![RunOf(e)] = @ + 1]
    /\ Fence(e, RowOf(e).ckpt, "final")
    /\ UNCHANGED <<mode, recov, used>>

FinalCheckpoint(e) ==
    /\ InThread(e, "final")
    /\ Fence(e, FinalCkpt, "returned")
    /\ UNCHANGED <<mode, recov, learned, used>>

\* After runner.run: a stop request first, then the final lease fence; when
\* that is lost, a successor's terminal row becomes the local one.
Returned(e) ==
    LET w == WorkerOf(e)  r == RunOf(e) IN
    /\ InThread(e, "returned")
    /\ \/ /\ runs[r].status = "cancel_requested"
          /\ Goto(e, "cancelling")
          /\ UNCHANGED <<storeVars, local>>
       \/ /\ runs[r].status # "cancel_requested"
          /\ RenewLease(r, w)
          /\ Goto(e, "publish")
          /\ UNCHANGED local
       \/ /\ runs[r].status # "cancel_requested" /\ ~MayRenew(r, w)
          /\ IF runs[r].status \in Terminal /\ HasRow(e)
             THEN SetRow(w, r, runs[r].status, NoCkpt)
             ELSE DropRow(w, r)
          /\ Ends(e)
          /\ UNCHANGED storeVars
    /\ UNCHANGED <<mode, recov, learned, used>>

\* The revision check, then store.add_message with the run's job id.
Publish(e) ==
    LET w == WorkerOf(e)  r == RunOf(e) IN
    /\ InLoop(e, "publish")
    /\ \/ Goto(e, "failing") /\ UNCHANGED <<storeVars, local>>
       \/ PublishRun(r, w) /\ Goto(e, "published") /\ UNCHANGED local
       \/ /\ ~MayPublish(r, w)
          /\ IF runs[r].status = "cancel_requested"
             THEN Goto(e, "cancelling") /\ UNCHANGED local
             ELSE Retire(e)
          /\ UNCHANGED storeVars
    /\ UNCHANGED <<mode, recov, learned, used>>

\* Persisting the completed row meets the terminal row just committed.
Published(e) ==
    /\ InLoop(e, "published")
    /\ Retire(e)
    /\ UNCHANGED <<storeVars, mode, recov, learned, used>>

\* Mutant: the failure is swallowed and the task just ends.
FailingSilently(e) ==
    /\ InLoop(e, "failing")
    /\ Ends(e)
    /\ UNCHANGED <<storeVars, local, mode, recov, learned, used>>

\* The except branches of _execute: persist the row as cancelled or as failed.
Cancelling(e) ==
    /\ InLoop(e, "cancelling")
    /\ Persist(e, "cancelled", NoCkpt, Ends(e), Ends(e))
    /\ UNCHANGED <<mode, recov, learned, used>>

Failing(e) ==
    /\ InLoop(e, "failing")
    /\ Persist(e, "failed", NoCkpt, Ends(e), Ends(e))
    /\ UNCHANGED <<mode, recov, learned, used>>

\* Any exception of the runner other than the control-flow ones.
RunnerError(e) ==
    /\ exec[e].pc \in ThreadPcs /\ ThreadAlive(WorkerOf(e))
    /\ Goto(e, "failing")
    /\ UNCHANGED <<storeVars, local, mode, recov, learned, used>>

\* The reads before the try block of _execute are not guarded: an error there
\* ends the task and leaves its row behind.
PreRunError(e) ==
    /\ InLoop(e, "begin") \/ InLoop(e, "prerun")
    /\ Ends(e)
    /\ Spend("faults")
    /\ UNCHANGED <<storeVars, local, mode, recov, learned>>

\* _handoff_run: release the row for other workers, then mirror the durable status.
Handoff(e) ==
    LET w == WorkerOf(e)  r == RunOf(e) IN
    /\ InLoop(e, "handoff")
    /\ Ends(e)
    /\ \/ ~HasRow(e) /\ UNCHANGED <<storeVars, local>>
       \/ /\ HasRow(e)
          /\ ReleaseRun(r, w, RowOf(e).ckpt)
          /\ SetRow(w, r, "interrupted", RowOf(e).ckpt)
       \/ /\ HasRow(e) /\ ~MayRelease(r, w)
          /\ SetRow(w, r, runs[r].status, RowOf(e).ckpt)
          /\ UNCHANGED storeVars
    /\ UNCHANGED <<mode, recov, learned, used>>

ExecutorStep(e) ==
    \/ Begin(e) \/ PreRun(e) \/ Resume(e) \/ Poll(e) \/ Execute(e) \/ ToolReturns(e)
    \/ Verify(e) \/ UpdatePolicy(e) \/ EpisodeFence(e) \/ RecordEpisode(e)
    \/ FinalCheckpoint(e) \/ Returned(e) \/ Publish(e) \/ Published(e)
    \/ Cancelling(e) \/ Failing(e) \/ Handoff(e)

-----------------------------------------------------------------------------
(* Heartbeat and recovery.                                                  *)

\* One renewal of the heartbeat: only runs with an active local row.
Renew(w, r) ==
    /\ LoopFree(w)
    /\ local[w][r].status \in Active
    /\ RenewLease(r, w)
    /\ UNCHANGED workerVars

\* Mutant: the sweep comes before the renewals.
RenewedLater(w, r) == FALSE

\* What the heartbeat renews right before it sweeps, if the store lets it.
RenewedFirst(w, r) == local[w][r].status \in Active /\ MayRenew(r, w)

\* One claim of the sweep, of any active row nobody holds a live lease on: this
\* worker's own rows too.  The clock that decides is read right after the
\* renewals, so what they renewed has only expired if a whole lease passed in
\* between.
Claim(w, r) ==
    /\ LoopFree(w)
    /\ ClaimRun(r, w)
    /\ IF RenewedFirst(w, r) THEN Spend("pauses") ELSE UNCHANGED used
    /\ recov' = [recov EXCEPT ![w] =
           [run |-> r, status |-> runs[r].status, ckpt |-> runs[r].ckpt]]
    /\ UNCHANGED <<local, exec, mode, learned>>

Recovering(w) == mode[w] \in {"up", "draining"} /\ recov[w].run # NoRun
RecoveryDone(w) == recov' = [recov EXCEPT ![w] = NoRecovery]

\* Mutant: the recovery overwrites whatever became of the row meanwhile.
RecoverySaveForced(w, s) ==
    LET r == recov[w].run IN
    /\ runs' = [runs EXCEPT ![r] = SavedRow(runs[r], w, s, NoCkpt)]
    /\ UNCHANGED replies

\* save_run without a fence: a refused save is ignored.
RecoverySave(w, s) ==
    LET r == recov[w].run IN
    IF MaySave(runs[r], w) THEN SaveRun(r, w, s, NoCkpt) ELSE UNCHANGED storeVars

RecoverCancelled(w) ==
    /\ Recovering(w) /\ recov[w].status = "cancel_requested"
    /\ RecoverySave(w, "cancelled")
    /\ RecoveryDone(w)
    /\ UNCHANGED <<local, exec, mode, learned, used>>

\* The catalog revision the run was started with is not the current one.
RecoverStale(w) ==
    /\ Recovering(w) /\ recov[w].status # "cancel_requested"
    /\ RecoverySave(w, "failed")
    /\ RecoveryDone(w)
    /\ UNCHANGED <<local, exec, mode, learned, used>>

\* A final checkpoint is answered without running the tail again.  Lease loss
\* and a stop request raise; the sweep drops the local row and goes on.
RecoverAnswer(w) ==
    LET r == recov[w].run IN
    /\ Recovering(w) /\ recov[w].status # "cancel_requested" /\ recov[w].ckpt = FinalCkpt
    /\ \/ PublishRun(r, w) /\ UNCHANGED local
       \/ ~MayPublish(r, w) /\ DropRow(w, r) /\ UNCHANGED storeVars
    /\ RecoveryDone(w)
    /\ UNCHANGED <<exec, mode, learned, used>>

\* Mutant: the staged row starts from scratch instead of the claimed checkpoint.
RecoverStageAfresh(w, e) ==
    LET r == recov[w].run IN
    /\ Recovering(w) /\ recov[w].status # "cancel_requested" /\ recov[w].ckpt # FinalCkpt
    /\ exec[e].pc = "idle" /\ MaySave(runs[r], w)
    /\ SaveRun(r, w, "running", NoCkpt)
    /\ SetRow(w, r, SavedStatus(runs[r], "running"), NoCkpt)
    /\ exec' = [exec EXCEPT ![e] = [pc |-> "begin", run |-> r, worker |-> w, cycle |-> 0]]
    /\ RecoveryDone(w)
    /\ UNCHANGED <<mode, learned, used>>

\* Otherwise the claimed snapshot becomes the local row and a new task resumes it.
RecoverStage(w, e) ==
    LET r == recov[w].run  c == recov[w].ckpt IN
    /\ Recovering(w) /\ recov[w].status # "cancel_requested" /\ c # FinalCkpt
    /\ exec[e].pc = "idle"
    /\ \/ /\ SaveRun(r, w, "running", c)
          /\ SetRow(w, r, SavedStatus(runs[r], "running"), c)
          /\ exec' = [exec EXCEPT ![e] = [pc |-> "begin", run |-> r, worker |-> w, cycle |-> c]]
       \/ /\ ~MaySave(runs[r], w)
          /\ DropRow(w, r)
          /\ UNCHANGED <<storeVars, exec>>
    /\ RecoveryDone(w)
    /\ UNCHANGED <<mode, learned, used>>

RecoveryStep(w) ==
    \/ RecoverCancelled(w) \/ RecoverStale(w) \/ RecoverAnswer(w)
    \/ \E e \in Executors : RecoverStage(w, e)

-----------------------------------------------------------------------------
(* The user, the operator, and time.                                        *)

\* POST /api/runs/{id}/cancel on any worker, whoever executes the run.
Cancel(w, r) ==
    /\ mode[w] \in {"up", "draining"}
    /\ runs[r].status # "cancel_requested"
    /\ RequestCancel(r)
    /\ IF local[w][r].status # "absent"
       THEN SetRow(w, r, "cancel_requested", local[w][r].ckpt)
       ELSE UNCHANGED local
    /\ UNCHANGED <<exec, mode, recov, learned, used>>

\* Some other session is up: what is modelled is a service that is restarted,
\* not one that is switched off.
Replaced(w) == \E v \in Workers \ {w} : mode[v] = "up"

Drain(w) ==
    /\ mode[w] = "up" /\ Replaced(w)
    /\ mode' = [mode EXCEPT ![w] = "draining"]
    /\ Spend("drains")
    /\ UNCHANGED <<storeVars, local, exec, recov, learned>>

\* The lifespan ends: no event loop and no heartbeat; threads may still run.
Stop(w) ==
    /\ mode[w] = "draining" /\ recov[w].run = NoRun
    /\ mode' = [mode EXCEPT ![w] = "stopped"]
    /\ UNCHANGED <<storeVars, local, exec, recov, learned, used>>

\* The process is gone, and with it everything but the store.
Gone(w) ==
    /\ mode' = [mode EXCEPT ![w] = "down"]
    /\ local' = [local EXCEPT ![w] = [r \in Runs |-> AbsentLocal]]
    /\ exec' = [e \in Executors |-> IF WorkerOf(e) = w THEN Idle ELSE exec[e]]
    /\ recov' = [recov EXCEPT ![w] = NoRecovery]
    /\ UNCHANGED <<storeVars, learned>>

Exit(w) == mode[w] = "stopped" /\ Gone(w) /\ UNCHANGED used

Crash(w) ==
    /\ mode[w] \in {"up", "draining"} /\ Replaced(w)
    /\ Gone(w)
    /\ Spend("crashes")

\* A lease the heartbeat of its owner renews, or that its sweep has just taken,
\* expires only if that worker stalls.
Renewed(r) ==
    \E w \in Workers : /\ runs[r].owner = w
                       /\ mode[w] \in {"up", "draining"}
                       /\ local[w][r].status \in Active \/ recov[w].run = r

Expire(r) == ~Renewed(r) /\ Lapse(r) /\ UNCHANGED workerVars

Stall(r) ==
    /\ Renewed(r)
    /\ Lapse(r)
    /\ Spend("stalls")
    /\ UNCHANGED <<local, exec, mode, recov, learned>>

Next ==
    \/ \E e \in Executors : ExecutorStep(e) \/ RunnerError(e) \/ PreRunError(e)
    \/ \E w \in Workers : RecoveryStep(w) \/ Drain(w) \/ Stop(w) \/ Exit(w) \/ Crash(w)
    \/ \E w \in Workers, r \in Runs : Renew(w, r) \/ Claim(w, r) \/ Cancel(w, r)
    \/ \E w \in Workers, r \in Runs, e \in Executors : Start(w, r, e)
    \/ \E r \in Runs : Expire(r) \/ Stall(r)

Spec == Init /\ [][Next]_vars

\* Executor threads and event loops run, the heartbeat loop sweeps and time
\* passes.  A lifespan that began to end does end, however often the sweep is
\* under way: the grace period is a timeout (asyncio.wait(timeout=...)).
Fairness ==
    /\ \A e \in Executors : WF_vars(ExecutorStep(e))
    /\ \A w \in Workers : /\ WF_vars(\E r \in Runs : Claim(w, r))
                          /\ WF_vars(RecoveryStep(w))
                          /\ SF_vars(Stop(w))
                          /\ WF_vars(Exit(w))
    /\ \A r \in Runs : WF_vars(Expire(r))

FairSpec == Spec /\ Fairness

-----------------------------------------------------------------------------
(* Properties.                                                              *)

\* A terminal row in a worker's memory is the durable outcome: no worker ever
\* shows a failed or cancelled task that another worker went on to answer
\* (api_terminal_takeover_fence, api._coalesced_persist_run).
LocalTerminalAgrees ==
    \A w \in Workers, r \in Runs :
        local[w][r].status \in Terminal => runs[r].status = local[w][r].status

\* At most one executor of a run belongs to the run's durable owner, so that
\* the owner token tells the executor in charge from every stale one
\* (api_recovery: the sweep cannot duplicate this process's own live runs).
\* The code keeps it through a crash and a drain, and through a late renewal,
\* because each sweep follows renewals; not through a pause between the two.
OneExecutorInCharge ==
    \A e, f \in Executors :
        /\ exec[e].pc # "idle" /\ exec[f].pc # "idle"
        /\ RunOf(e) = RunOf(f)
        /\ runs[RunOf(e)].owner = WorkerOf(e) /\ WorkerOf(e) = WorkerOf(f)
        => e = f

\* A lease the heartbeat keeps alive has an executor behind it: otherwise the
\* run can neither end nor be claimed by anybody (api_recovery heartbeat).
RenewedRunsAreExecuted ==
    \A r \in Runs, w \in Workers :
        /\ runs[r].owner = w /\ mode[w] = "up" /\ local[w][r].status \in Active
        => \E e \in Executors : exec[e].pc # "idle" /\ RunOf(e) = r /\ WorkerOf(e) = w

\* A tool starts, and an episode is recorded, only on the authority of the
\* durable row: owned by this worker, active, no stop requested when fenced.
SideEffectsAreFenced ==
    [][\A e \in Executors :
        exec'[e].pc \in {"tool", "record"} /\ exec[e].pc # exec'[e].pc =>
            /\ runs'[RunOf(e)].owner = WorkerOf(e)
            /\ runs'[RunOf(e)].status \in {"running", "interrupted"}]_vars

\* The durable checkpoint of an active run never goes back: recorded actions
\* are not replayed by whoever resumes the run (HARNESS_CONTRACT H12).
CheckpointsAdvance ==
    [][\A r \in Runs : IsActive(r) /\ runs'[r].status \in Active =>
           runs'[r].ckpt >= runs[r].ckpt]_vars

\* A run is never answered without having been learned from: the final checkpoint a
\* recovery answers from is written after learning.
AnsweredAfterLearning == \A r \in Runs : replies[r] > 0 => learned[r] > 0

\* Every accepted task ends, whatever crashes, drains and takeovers happen.
EveryRunEnds ==
    \A r \in Runs : runs[r].status \in Active ~> runs[r].status \in Terminal

\* The store's own specification: workers change rows by its transactions only.
ImplementsStore == StoreSpec

\* The promise to the user.
PhaseOf(s) == CASE s = "absent" -> "new"
                [] s \in {"running", "interrupted"} -> "working"
                [] s = "cancel_requested" -> "stopping"
                [] s = "completed" -> "answered"
                [] s = "cancelled" -> "stopped"
                [] s = "failed" -> "failed"

Contract == INSTANCE RunContract WITH
    phase <- [r \in Runs |-> PhaseOf(runs[r].status)],
    answer <- replies

ImplementsContract == Contract!Spec
=============================================================================
