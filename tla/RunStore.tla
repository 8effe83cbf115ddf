------------------------------- MODULE RunStore -------------------------------
(***************************************************************************)
(* The durable run table of workspace.db and the assistant messages that    *)
(* answer runs.  Every action is one SQLite write transaction (BEGIN        *)
(* IMMEDIATE ... COMMIT), so it is atomic with respect to every worker.     *)
(*                                                                          *)
(* Definitions commented "Mutant" are plausible bugs in the definition that *)
(* follows; nothing uses them but the sanity check of the properties.       *)
(*                                                                          *)
(* A lease is abstracted to what the transactions compare: "live" while     *)
(* lease_until >= now, "expired" once the clock passed it, "none" for NULL. *)
(* Lapse is the passage of time.  A checkpoint is the number of recorded    *)
(* cycles, or FinalCkpt for the checkpoint written when the runner is done. *)
(***************************************************************************)
EXTENDS Naturals, FiniteSets

CONSTANTS
    Runs,           \* run ids; each accepted task gets a fresh one
    Workers,        \* process sessions: RUN_OWNER_ID is unique per session
    NoOwner,        \* owner_id is NULL
    Conversations,
    ConvOf,         \* the conversation a run id is created for
    MaxTools        \* Budget.max_tools, the most cycles of one run

ASSUME ConvOfAssumption == ConvOf \in [Runs -> Conversations]
ASSUME NoOwnerAssumption == NoOwner \notin Workers
ASSUME MaxToolsAssumption == MaxTools \in Nat \ {0}

VARIABLES
    runs,           \* the rows of table runs
    replies         \* assistant messages stored per job id

storeVars == <<runs, replies>>

Active   == {"running", "interrupted", "cancel_requested"}
Terminal == {"completed", "failed", "cancelled"}
Statuses == Active \cup Terminal

NoCkpt    == 0
FinalCkpt == MaxTools + 1
Ckpts     == NoCkpt .. FinalCkpt

Row == [status : Statuses \cup {"absent"},
        owner  : Workers \cup {NoOwner},
        lease  : {"none", "live", "expired"},
        ckpt   : Ckpts]

AbsentRow == [status |-> "absent", owner |-> NoOwner, lease |-> "none", ckpt |-> NoCkpt]

StoreTypeOK ==
    /\ runs \in [Runs -> Row]
    /\ replies \in [Runs -> Nat]

StoreInit ==
    /\ runs = [r \in Runs |-> AbsentRow]
    /\ replies = [r \in Runs |-> 0]

IsActive(r) == runs[r].status \in Active

-----------------------------------------------------------------------------
(* The decisions of _save_run_transaction, as operators on one row.         *)

\* Mutant: a row may be written whatever its status.
MaySaveAnyStatus(row, w) == row.status # "absent" /\ row.owner \in {NoOwner, w}

\* An existing row may be written while it is active and not owned by another.
MaySave(row, w) == row.status \in Active /\ row.owner \in {NoOwner, w}

\* Mutant: the caller's snapshot wins over a durable stop request.
SavedStatusOfCaller(row, s) == s

\* A durable stop request outlives later running/interrupted snapshots.
SavedStatus(row, s) ==
    IF row.status = "cancel_requested" /\ s \in {"running", "interrupted"}
    THEN "cancel_requested" ELSE s

SavedRow(row, w, s, c) ==
    [status |-> SavedStatus(row, s),
     owner  |-> IF s \in Active THEN w ELSE NoOwner,
     lease  |-> IF s \in Active THEN "live" ELSE "none",
     ckpt   |-> IF s \in Active THEN c ELSE NoCkpt]

-----------------------------------------------------------------------------
(* The transactions.  r is a run, w the calling worker.                     *)

\* start_run_with_user_message, accepted: one active run per conversation.
StartRun(r, w) ==
    /\ runs[r].status = "absent"
    /\ \A q \in Runs : ConvOf[q] = ConvOf[r] => ~IsActive(q)
    /\ runs' = [runs EXCEPT ![r] =
           [status |-> "running", owner |-> w, lease |-> "live", ckpt |-> NoCkpt]]
    /\ UNCHANGED replies

\* save_run and save_run_fenced, when the transaction commits.
SaveRun(r, w, s, c) ==
    /\ MaySave(runs[r], w)
    /\ runs' = [runs EXCEPT ![r] = SavedRow(runs[r], w, s, c)]
    /\ UNCHANGED replies

\* renew_run_lease: the owner of an active row, whether or not it expired.
MayRenew(r, w) == runs[r].owner = w /\ IsActive(r)

RenewLease(r, w) ==
    /\ MayRenew(r, w)
    /\ runs' = [runs EXCEPT ![r].lease = "live"]
    /\ UNCHANGED replies

\* request_cancel on an active row; owner and lease stay as they are.
RequestCancel(r) ==
    /\ IsActive(r)
    /\ runs' = [runs EXCEPT ![r].status = "cancel_requested"]
    /\ UNCHANGED replies

\* Mutant: an expired lease is not enough, the row must have been released.
ClaimableReleased(r) == IsActive(r) /\ runs[r].owner = NoOwner

\* claim_recoverable_runs: an active row nobody holds a live lease on.
Claimable(r) == IsActive(r) /\ (runs[r].owner = NoOwner \/ runs[r].lease # "live")

ClaimRun(r, w) ==
    /\ Claimable(r)
    /\ runs' = [runs EXCEPT ![r].owner = w, ![r].lease = "live"]
    /\ UNCHANGED replies

\* release_interrupted_run: a stop request is never rewritten as interrupted.
MayRelease(r, w) == runs[r].status \in {"running", "interrupted"} /\ runs[r].owner = w

ReleaseRun(r, w, c) ==
    /\ MayRelease(r, w)
    /\ runs' = [runs EXCEPT ![r] =
           [status |-> "interrupted", owner |-> NoOwner, lease |-> "none", ckpt |-> c]]
    /\ UNCHANGED replies

\* Mutant: a stop request does not keep the answer back.
MayPublishStopped(r, w) == IsActive(r) /\ runs[r].owner = w

\* publish_run_completion: the reply and the terminal status in one commit.
MayPublish(r, w) == runs[r].status \in {"running", "interrupted"} /\ runs[r].owner = w

PublishRun(r, w) ==
    /\ MayPublish(r, w)
    /\ replies' = [replies EXCEPT ![r] = @ + 1]
    /\ runs' = [runs EXCEPT ![r] =
           [status |-> "completed", owner |-> NoOwner, lease |-> "none", ckpt |-> NoCkpt]]

\* The wall clock passes lease_until.
Lapse(r) ==
    /\ runs[r].lease = "live"
    /\ runs' = [runs EXCEPT ![r].lease = "expired"]
    /\ UNCHANGED replies

-----------------------------------------------------------------------------
(* The store under any clients: every call any worker can make, in any      *)
(* order.  The one client rule kept is that no caller asks the save         *)
(* transaction for "completed" on a run without a stored reply: every call  *)
(* site stores the reply first (api_core._execute, the recovery path).      *)

Transaction(r) ==
    \/ RequestCancel(r)
    \/ Lapse(r)
    \/ \E w \in Workers :
          \/ StartRun(r, w)
          \/ RenewLease(r, w)
          \/ ClaimRun(r, w)
          \/ PublishRun(r, w)
          \/ \E c \in Ckpts :
                \/ ReleaseRun(r, w, c)
                \/ \E s \in Statuses \ {"completed"} : SaveRun(r, w, s, c)

StoreNext == \E r \in Runs : Transaction(r)

StoreSpec == StoreInit /\ [][StoreNext]_storeVars

-----------------------------------------------------------------------------
(* What the transactions promise whatever their callers do.                 *)

\* The reply of a run and its completed status are one fact: a run is answered
\* exactly once when it is completed and never otherwise, however workers
\* race, take over and replay (publish_run_completion against save_run).
AnsweredIffCompleted ==
    \A r \in Runs : replies[r] = IF runs[r].status = "completed" THEN 1 ELSE 0

\* A conversation never has two active runs, although rows come back to life
\* through claims, releases and saves, not only through StartRun.
OneActiveRunPerConversation ==
    \A q, r \in Runs :
        IsActive(q) /\ IsActive(r) /\ ConvOf[q] = ConvOf[r] => q = r

\* A row is owned exactly while it has a lease, and a finished row has neither:
\* no row is left owned by a worker that no longer renews or claims it.
LeaseMatchesOwner ==
    \A r \in Runs :
        /\ runs[r].owner = NoOwner <=> runs[r].lease = "none"
        /\ ~IsActive(r) => runs[r].owner = NoOwner

\* Once a stop request is durable the run is never answered and never runs
\* on: it stays requested until it is cancelled or failed.
CancelSticks ==
    [][\A r \in Runs : runs[r].status = "cancel_requested" =>
           runs'[r].status \in {"cancel_requested", "cancelled", "failed"}]_storeVars

\* A terminal row is never changed again, and a started run never disappears.
TerminalIsFinal ==
    [][\A r \in Runs : /\ runs[r].status \in Terminal => runs'[r] = runs[r]
                       /\ runs[r].status # "absent" => runs'[r].status # "absent"]_storeVars

\* Ownership never passes from one worker to another while the first holds a
\* live lease: a takeover needs an expiry or a release in between.
NoTheftOfLiveLease ==
    [][\A r \in Runs :
           runs[r].lease = "live" /\ runs'[r].owner # runs[r].owner
               => runs'[r].owner = NoOwner]_storeVars
=============================================================================
