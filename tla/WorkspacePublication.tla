------------------------- MODULE WorkspacePublication -------------------------
(***************************************************************************)
(* Importing a workspace catalog: the workspace_state row of SQLite, the    *)
(* catalog files, the import requests, the synchronizer every worker runs   *)
(* before it answers, and the tasks that read the workspace.                *)
(*                                                                          *)
(* A catalog is abstracted to its fingerprint, so a file holds a revision.  *)
(* Each action is one SQLite transaction, one file operation, or one stretch*)
(* of code that touches neither; a worker's synchronizer and the promotion  *)
(* of its imports exclude each other by WORKSPACE_LOCK.                     *)
(*                                                                          *)
(* Definitions commented "Mutant" are plausible bugs in the definition that *)
(* follows; nothing uses them but the sanity check of the properties.       *)
(***************************************************************************)
EXTENDS Naturals, FiniteSets

CONSTANTS
    Workers,
    Imports,        \* import requests, each served once
    ServedBy,       \* the worker that serves an import
    RevOf,          \* the revision an import brings
    Revisions,
    FirstRev,       \* the revision the workspace starts with
    Tasks,          \* runs that read the workspace
    NoRev,          \* an absent file, or no publication
    NoOp,           \* update_owner is NULL
    MaxLapses,      \* bound: update leases that expire under a live holder
    MaxCrashes      \* bound: workers killed and restarted

ASSUME FirstRevAssumption == FirstRev \in Revisions
ASSUME NoRevAssumption == NoRev \notin Revisions
ASSUME ImportAssumption ==
    /\ ServedBy \in [Imports -> Workers]
    /\ RevOf \in [Imports -> Revisions]
    /\ Imports \cap Workers = {}
    /\ NoOp \notin (Imports \cup Workers) \X {"update", "cleanup"}

VARIABLES
    ws,             \* workspace_state: rev, owner, lease, pub
    active,         \* catalog.json
    pending,        \* catalog.pending.json
    temp,           \* catalog.pending.json.tmp
    installed,      \* CATALOG_REVISION of each worker
    pc,             \* control of each import and of each worker's synchronizer
    seen,           \* what a synchronizer read when it began
    tasks,          \* control, worker and revision of each task
    committed,      \* history: the revisions that have been durable
    used            \* lapses and crashes spent

vars == <<ws, active, pending, temp, installed, pc, seen, tasks, committed, used>>
files == <<active, pending, temp>>

Ops    == Imports \cup Workers       \* a worker stands for its synchronizer
Owners == Ops \X {"update", "cleanup"}

ImportPcs == {"begin", "write", "stage", "commit", "promote", "replace",
              "discard", "finish", "abort"}
SyncPcs   == {"idle", "load", "match", "promote", "replace", "discard", "release"}
CleanPcs  == {"clean", "cleanDiscard", "cleanAbort"}

TypeOK ==
    /\ ws \in [rev : Revisions, owner : Owners \cup {NoOp},
               lease : {"none", "live", "expired"}, pub : Revisions \cup {NoRev}]
    /\ active \in Revisions
    /\ pending \in Revisions \cup {NoRev}
    /\ temp \in Revisions \cup {NoRev}
    /\ installed \in [Workers -> Revisions]
    /\ pc \in [Ops -> ImportPcs \cup SyncPcs \cup CleanPcs \cup {"done"}]
    /\ seen \in [Workers -> [rev : Revisions, pub : BOOLEAN, litter : BOOLEAN]]
    /\ tasks \in [Tasks -> [pc : {"new", "read", "active", "completed", "failed"},
                            worker : Workers, rev : Revisions]]
    /\ committed \subseteq Revisions
    /\ used \in [lapses : Nat, crashes : Nat]

Init ==
    /\ ws = [rev |-> FirstRev, owner |-> NoOp, lease |-> "none", pub |-> NoRev]
    /\ active = FirstRev /\ pending = NoRev /\ temp = NoRev
    /\ installed = [w \in Workers |-> FirstRev]
    /\ pc = [o \in Ops |-> IF o \in Imports THEN "begin" ELSE "idle"]
    /\ seen = [w \in Workers |-> [rev |-> FirstRev, pub |-> FALSE, litter |-> FALSE]]
    /\ tasks \in [Tasks -> [pc : {"new"}, worker : Workers, rev : {FirstRev}]]
    /\ committed = {FirstRev}
    /\ used = [lapses |-> 0, crashes |-> 0]

Goto(o, label) == pc' = [pc EXCEPT ![o] = label]
TaskActive == \E t \in Tasks : tasks[t].pc = "active"

\* WORKSPACE_LOCK of a worker is free: neither its synchronizer nor the
\* promotion of one of its imports is under way.
LockFree(w) ==
    /\ pc[w] = "idle"
    /\ \A i \in Imports : ServedBy[i] = w => pc[i] # "replace"

-----------------------------------------------------------------------------
(* Transactions on workspace_state.                                         *)

\* A pending publication counts as a lease that never expires.
UpdateHeld == ws.pub # NoRev \/ (ws.owner # NoOp /\ ws.lease = "live")

MayBegin == ~TaskActive /\ ~UpdateHeld
BeginUpdate(owner) == ws' = [ws EXCEPT !.owner = owner, !.lease = "live", !.pub = NoRev]

\* Mutant: whoever still owns the row may commit, expired or not.
MayCommitOwner(owner) == ws.pub = NoRev /\ ws.owner = owner

MayCommit(owner) ==
    /\ ws.pub = NoRev /\ ws.owner = owner /\ ws.lease = "live"
    /\ ~TaskActive

CommitRevision(n) ==
    /\ ws' = [ws EXCEPT !.rev = n, !.pub = n]
    /\ committed' = committed \cup {n}

Released == [ws EXCEPT !.owner = NoOp, !.lease = "none", !.pub = NoRev]

\* finish_workspace_update by its owner, finish_workspace_publication by anyone.
FinishUpdate(owner, n) ==
    ws' = IF ws.owner = owner /\ ws.rev = n /\ ws.pub = n THEN Released ELSE ws

FinishPublication(n) ==
    ws' = IF ws.rev = n /\ ws.pub = n THEN Released ELSE ws

AbortUpdate(owner) ==
    ws' = IF ws.pub = NoRev /\ ws.owner = owner THEN Released ELSE ws

-----------------------------------------------------------------------------
(* File steps shared by imports and synchronizers.                          *)

\* _discard_pending removes the staged file and its temporary, whoever wrote them.
Discard == pending' = NoRev /\ temp' = NoRev /\ UNCHANGED active

\* First half of _promote_pending: is the staged file the wanted revision, or
\* has a peer promoted it already?
LookForPending(o, w, n, promoted, lost) ==
    /\ \/ pending = n /\ Goto(o, "replace") /\ UNCHANGED installed
       \/ /\ pending # n /\ active = n
          /\ installed' = [installed EXCEPT ![w] = n] /\ Goto(o, promoted)
       \/ /\ pending # n /\ active # n
          /\ Goto(o, lost) /\ UNCHANGED installed
    /\ UNCHANGED files

\* Second half: rename whatever is staged now, then install what was asked for.
RenamePending(o, w, n, promoted, lost) ==
    /\ \/ /\ pending # NoRev
          /\ active' = pending /\ pending' = NoRev
          /\ installed' = [installed EXCEPT ![w] = n] /\ Goto(o, promoted)
       \/ /\ pending = NoRev /\ active = n
          /\ installed' = [installed EXCEPT ![w] = n] /\ Goto(o, promoted)
          /\ UNCHANGED <<active, pending>>
       \/ /\ pending = NoRev /\ active # n
          /\ Goto(o, lost)
          /\ UNCHANGED <<active, pending, installed>>
    /\ UNCHANGED temp

-----------------------------------------------------------------------------
(* _activate_catalog.                                                       *)

ImportBegin(i) ==
    /\ pc[i] = "begin" /\ MayBegin
    /\ BeginUpdate(<<i, "update">>)
    /\ Goto(i, "write")
    /\ UNCHANGED <<files, installed, seen, tasks, committed, used>>

\* _write_catalog: the temporary, then the rename; both names are shared.
ImportWrite(i) ==
    /\ pc[i] = "write"
    /\ \/ temp' = RevOf[i] /\ Goto(i, "stage")
       \/ UNCHANGED temp /\ Goto(i, "abort")
    /\ UNCHANGED <<ws, active, pending, installed, seen, tasks, committed, used>>

ImportStage(i) ==
    /\ pc[i] = "stage"
    /\ \/ /\ temp # NoRev
          /\ pending' = temp /\ temp' = NoRev
          /\ Goto(i, "commit")
       \/ /\ temp = NoRev
          /\ Goto(i, "abort")
          /\ UNCHANGED <<pending, temp>>
    /\ UNCHANGED <<ws, active, installed, seen, tasks, committed, used>>

ImportCommit(i) ==
    /\ pc[i] = "commit"
    /\ \/ /\ MayCommit(<<i, "update">>)
          /\ CommitRevision(RevOf[i])
          /\ Goto(i, "promote")
       \/ /\ ~MayCommit(<<i, "update">>)
          /\ Goto(i, "abort")
          /\ UNCHANGED <<ws, committed>>
    /\ UNCHANGED <<files, installed, seen, tasks, used>>

\* Promotion; when it cannot be done the request fails and leaves the durable
\* revision and the fence to the synchronizers.
ImportPromote(i) ==
    /\ pc[i] = "promote" /\ LockFree(ServedBy[i])
    /\ LookForPending(i, ServedBy[i], RevOf[i], "discard", "done")
    /\ UNCHANGED <<ws, seen, tasks, committed, used>>

ImportReplace(i) ==
    /\ pc[i] = "replace"
    /\ RenamePending(i, ServedBy[i], RevOf[i], "discard", "done")
    /\ UNCHANGED <<ws, seen, tasks, committed, used>>

ImportDiscard(i) ==
    /\ pc[i] = "discard"
    /\ Discard
    /\ Goto(i, "finish")
    /\ UNCHANGED <<ws, installed, seen, tasks, committed, used>>

ImportFinish(i) ==
    /\ pc[i] = "finish"
    /\ FinishUpdate(<<i, "update">>, RevOf[i])
    /\ Goto(i, "done")
    /\ UNCHANGED <<files, installed, seen, tasks, committed, used>>

\* _cleanup_uncommitted_pending gives up this request's own token first.
ImportAbort(i) ==
    /\ pc[i] = "abort"
    /\ AbortUpdate(<<i, "update">>)
    /\ Goto(i, "clean")
    /\ UNCHANGED <<files, installed, seen, tasks, committed, used>>

\* Mutant: check, then delete, without the cleanup lease.
CleanBeginUnowned(o, after) ==
    /\ pc[o] = "clean"
    /\ Goto(o, "cleanDiscard")
    /\ UNCHANGED <<ws, files, installed, seen, tasks, committed, used>>

\* Discarding under a fresh cleanup lease, by a failed import or a synchronizer;
\* when the lease is refused the files are left alone.
CleanBegin(o, after) ==
    /\ pc[o] = "clean"
    /\ \/ MayBegin /\ BeginUpdate(<<o, "cleanup">>) /\ Goto(o, "cleanDiscard")
       \/ ~MayBegin /\ Goto(o, after) /\ UNCHANGED ws
    /\ UNCHANGED <<files, installed, seen, tasks, committed, used>>

CleanDiscard(o) ==
    /\ pc[o] = "cleanDiscard"
    /\ Discard
    /\ Goto(o, "cleanAbort")
    /\ UNCHANGED <<ws, installed, seen, tasks, committed, used>>

CleanAbort(o, after) ==
    /\ pc[o] = "cleanAbort"
    /\ AbortUpdate(<<o, "cleanup">>)
    /\ Goto(o, after)
    /\ UNCHANGED <<files, installed, seen, tasks, committed, used>>

ImportStep(i) ==
    \/ ImportBegin(i) \/ ImportWrite(i) \/ ImportStage(i) \/ ImportCommit(i)
    \/ ImportPromote(i) \/ ImportReplace(i) \/ ImportDiscard(i) \/ ImportFinish(i)
    \/ ImportAbort(i) \/ CleanBegin(i, "done") \/ CleanDiscard(i) \/ CleanAbort(i, "done")

-----------------------------------------------------------------------------
(* _sync_workspace of worker w.                                             *)

\* The readiness snapshot and the look at the staging names.  In the steady
\* state the synchronizer returns at once, which changes nothing.
SyncBegin(w) ==
    /\ LockFree(w)
    /\ \/ ws.rev # installed[w] \/ ws.pub = ws.rev
       \/ pending # NoRev \/ temp # NoRev \/ active # ws.rev
    /\ seen' = [seen EXCEPT ![w] = [rev |-> ws.rev, pub |-> ws.pub = ws.rev,
                                    litter |-> pending # NoRev \/ temp # NoRev]]
    /\ Goto(w, "load")
    /\ UNCHANGED <<ws, files, installed, tasks, committed, used>>

SyncLoad(w) ==
    LET n == seen[w].rev IN
    /\ pc[w] = "load"
    /\ \/ /\ active = n
          /\ installed' = [installed EXCEPT ![w] = n]
          /\ Goto(w, CASE seen[w].pub -> "discard"
                       [] ~seen[w].pub /\ seen[w].litter -> "clean"
                       [] OTHER -> "idle")
       \/ active # n /\ Goto(w, "match") /\ UNCHANGED installed
    /\ UNCHANGED <<ws, files, seen, tasks, committed, used>>

\* Mutant: only the importing worker finishes its promotion.
SyncMatchNever(w) ==
    /\ pc[w] = "match"
    /\ Goto(w, "idle")
    /\ UNCHANGED <<ws, files, installed, seen, tasks, committed, used>>

\* Only a staged file of the durable revision, under its fence, is promoted.
SyncMatch(w) ==
    LET n == seen[w].rev IN
    /\ pc[w] = "match"
    /\ Goto(w, IF pending = n /\ ws.pub = n /\ ws.rev = n THEN "promote" ELSE "idle")
    /\ UNCHANGED <<ws, files, installed, seen, tasks, committed, used>>

SyncPromote(w) ==
    /\ pc[w] = "promote"
    /\ LookForPending(w, w, seen[w].rev, "discard", "idle")
    /\ UNCHANGED <<ws, seen, tasks, committed, used>>

SyncReplace(w) ==
    /\ pc[w] = "replace"
    /\ RenamePending(w, w, seen[w].rev, "discard", "idle")
    /\ UNCHANGED <<ws, seen, tasks, committed, used>>

SyncDiscard(w) ==
    /\ pc[w] = "discard"
    /\ Discard
    /\ Goto(w, "release")
    /\ UNCHANGED <<ws, installed, seen, tasks, committed, used>>

SyncRelease(w) ==
    /\ pc[w] = "release"
    /\ FinishPublication(seen[w].rev)
    /\ Goto(w, "idle")
    /\ UNCHANGED <<files, installed, seen, tasks, committed, used>>

SyncStep(w) ==
    \/ SyncBegin(w) \/ SyncLoad(w) \/ SyncMatch(w) \/ SyncPromote(w) \/ SyncReplace(w)
    \/ SyncDiscard(w) \/ SyncRelease(w)
    \/ CleanBegin(w, "idle") \/ CleanDiscard(w) \/ CleanAbort(w, "idle")

-----------------------------------------------------------------------------
(* Tasks, time and crashes.                                                 *)

\* add_message: the route answers only when the workspace is ready, then reads
\* the revision under WORKSPACE_LOCK and later starts the run in the store.
TaskRead(t) ==
    LET w == tasks[t].worker IN
    /\ tasks[t].pc = "new" /\ LockFree(w)
    /\ installed[w] = ws.rev /\ ~UpdateHeld
    /\ tasks' = [tasks EXCEPT ![t].pc = "read", ![t].rev = installed[w]]
    /\ UNCHANGED <<ws, files, installed, pc, seen, committed, used>>

TaskStart(t) ==
    /\ tasks[t].pc = "read" /\ ~UpdateHeld
    /\ tasks' = [tasks EXCEPT ![t].pc = "active"]
    /\ UNCHANGED <<ws, files, installed, pc, seen, committed, used>>

\* The result is published only if the worker still serves the task's revision.
TaskEnd(t) ==
    /\ tasks[t].pc = "active"
    /\ tasks' = [tasks EXCEPT ![t].pc =
           IF installed[tasks[t].worker] = tasks[t].rev THEN "completed" ELSE "failed"]
    /\ UNCHANGED <<ws, files, installed, pc, seen, committed, used>>

\* The holder of the lease still has steps to take.
HolderLive ==
    /\ ws.owner # NoOp
    /\ pc[ws.owner[1]] \notin {"idle", "done"}

Lapse ==
    /\ ws.lease = "live"
    /\ ws' = [ws EXCEPT !.lease = "expired"]
    /\ IF HolderLive
       THEN used.lapses < MaxLapses /\ used' = [used EXCEPT !.lapses = @ + 1]
       ELSE UNCHANGED used
    /\ UNCHANGED <<files, installed, pc, seen, tasks, committed>>

\* A worker dies in the middle of anything and is started again: it loads the
\* active file, and its requests and its tasks that had not started are gone.
Crash(w) ==
    /\ used.crashes < MaxCrashes
    /\ used' = [used EXCEPT !.crashes = @ + 1]
    /\ installed' = [installed EXCEPT ![w] = active]
    /\ pc' = [o \in Ops |->
           IF o = w THEN "idle"
           ELSE IF o \in Imports /\ ServedBy[o] = w THEN "done" ELSE pc[o]]
    /\ tasks' = [t \in Tasks |->
           IF tasks[t].worker = w /\ tasks[t].pc = "read"
           THEN [tasks[t] EXCEPT !.pc = "failed"] ELSE tasks[t]]
    /\ UNCHANGED <<ws, files, seen, committed>>

Next ==
    \/ \E i \in Imports : ImportStep(i)
    \/ \E w \in Workers : SyncStep(w) \/ Crash(w)
    \/ \E t \in Tasks : TaskRead(t) \/ TaskStart(t) \/ TaskEnd(t)
    \/ Lapse

Spec == Init /\ [][Next]_vars

\* Requests that are being served go on, probes keep calling the synchronizer,
\* tasks end and time passes; nobody is obliged to import or to start a task.
Fairness ==
    /\ \A i \in Imports : WF_vars(pc[i] # "begin" /\ ImportStep(i))
    /\ \A w \in Workers : WF_vars(SyncStep(w))
    /\ \A t \in Tasks : WF_vars(TaskEnd(t))
    /\ WF_vars(Lapse)

\* Nothing that promotes, discards or finishes, or has read the fence for that, is under way;
\* a cleanup that has not its lease yet, and staged files left behind, may be.
Settled(o) ==
    \/ pc[o] \in {"begin", "done", "idle", "abort", "clean", "cleanAbort", "match"}
    \/ o \in Workers /\ pc[o] = "load" /\ ~seen[o].pub

\* Imports take turns.  The code does not see to that: an update lease that expires lets the
\* next import in, and a synchronizer that read the last fence may act on the next one's files.
BeginsInTurn == \A i \in Imports : ImportBegin(i) => \A o \in Ops : Settled(o)

InTurn   == Init /\ [][Next /\ BeginsInTurn]_vars
FairSpec == InTurn /\ Fairness

-----------------------------------------------------------------------------
(* Properties.                                                              *)

\* The durable revision can be served: its catalog is the active file, or it is
\* staged under the fence that makes every synchronizer finish the promotion,
\* while imports take turns
\* (_activate_catalog: a later sync can safely complete publication).
CommittedIsMaterialisable ==
    active = ws.rev \/ (ws.pub = ws.rev /\ pending = ws.rev)

\* The revision never changes under an active task, and no task is active while
\* a committed revision is being published: imports and tasks exclude each
\* other through two transactions that each check the other's rows.
NoTaskDuringPublication == ws.pub # NoRev => ~TaskActive
RevisionStableUnderTasks == [][TaskActive => ws'.rev = ws.rev]_vars

\* Every worker comes to serve the durable revision for good.
WorkersConverge == \A w \in Workers : <>[](installed[w] = ws.rev)
=============================================================================
