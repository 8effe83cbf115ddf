-------------------------- MODULE OptimizerRouting --------------------------
(***************************************************************************)
(* How the processes of one surface decide whether paid observations steer  *)
(* the choice of an optimizer: the weighted regime with its hysteresis, the *)
(* epochs that a detected change opens, the durable checkpoint row that     *)
(* carries both across processes, and the fences around a decision.         *)
(*                                                                          *)
(* An observation is its config and its time; obs is the ledger in commit   *)
(* order, so its length is the high water of the history.  What the weights *)
(* and the landscape of the rows say is a choice of the environment, within *)
(* what their thresholds imply.  The times of rows are the anchored ones of *)
(* ObservationMemory: a reading of a row from the future pulls it back.     *)
(*                                                                          *)
(* Definitions commented "Mutant" are plausible bugs in the definition that *)
(* follows; nothing uses them but the sanity check of the properties.       *)
(***************************************************************************)
EXTENDS Naturals, Sequences, FiniteSets

CONSTANTS
    Configs,        \* configs an evolution may pay for
    Procs,          \* processes, each with the registry of its current run
    MinRows,        \* ..._MIN_EFFECTIVE_ROWS and ..._DRIFT_MIN_WINDOW_ROWS
    TTL,            \* ..._REGIME_CHECKPOINT_TTL_SECONDS
    Refresh,        \* ..._REGIME_CHECKPOINT_REFRESH_SECONDS
    Seeds,          \* ledgers and checkpoint rows that earlier runs may have left
    MaxObs,         \* bound on observations
    MaxTime,        \* bound on the clock
    MaxJumps,       \* bound on the times the clock is set back
    MaxCalls        \* bound on routing decisions

Regimes == {"none", "weighted", "fallback"}

\* A row of agent_optimizer_routing_checkpoint; the row that is not there reads as zeros.
CkptRow == [regime : Regimes, updated : Nat, seen : Nat, rows : Nat, epoch : Nat,
            started : Nat, decision : Nat, expires : Nat]
NoRow   == [regime |-> "none", updated |-> 0, seen |-> 0, rows |-> 0, epoch |-> 0,
            started |-> 0, decision |-> 0, expires |-> 0]

ASSUME LimitsAssumption ==
    /\ MinRows \in Nat \ {0} /\ TTL \in Nat \ {0} /\ Refresh \in Nat \ {0}
    /\ MaxTime \in Nat \ {0} /\ {MaxObs, MaxJumps, MaxCalls} \subseteq Nat
ASSUME SeedsAssumption ==
    \A s \in Seeds : /\ s.ckpt \in CkptRow /\ Len(s.obs) <= MaxObs
                     /\ s.obs \in Seq([config : Configs, at : 1 .. MaxTime])

VARIABLES
    clock, jumps,   \* the wall clock, and how often it was set back
    obs,            \* the ledger of observations
    ckpt,           \* the checkpoint row of the surface
    proc,           \* what each process keeps, and where its current decision is
    calls           \* decisions started so far

vars == <<clock, jumps, obs, ckpt, proc, calls>>

Time == 1 .. MaxTime
Least(a, b) == IF a <= b THEN a ELSE b
Most(a, b)  == IF a >= b THEN a ELSE b

-----------------------------------------------------------------------------
(* Evidence.                                                                *)

\* The latest row of every config, those from before the boundary left out.
Rows(o, boundary) ==
    {i \in DOMAIN o : o[i].at >= boundary
                      /\ \A j \in DOMAIN o : o[j].config = o[i].config => j <= i}

\* The version of the evidence in rows: their newest time, how often their configs were
\* paid for since the boundary, and their number.
Version(o, rows, boundary) ==
    [updated |-> IF rows = {} THEN 0 ELSE o[CHOOSE i \in rows : \A j \in rows : o[j].at <= o[i].at].at,
     seen    |-> Cardinality({j \in DOMAIN o : o[j].at >= boundary
                                               /\ \E i \in rows : o[i].config = o[j].config}),
     rows    |-> Cardinality(rows)]

\* Lexicographically.
NotAhead(v, w) ==
    \/ v.updated < w.updated
    \/ v.updated = w.updated /\ v.seen < w.seen
    \/ v.updated = w.updated /\ v.seen = w.seen /\ v.rows <= w.rows

\* A change may be detected at the time of a row that has MinRows rows since, and MinRows
\* older ones in the same epoch.
Changes(o, boundary) ==
    {b \in {o[i].at : i \in Rows(o, boundary)} :
        /\ Cardinality(Rows(o, b)) >= MinRows
        /\ Cardinality({j \in DOMAIN o : boundary <= o[j].at /\ o[j].at < b}) >= MinRows}

-----------------------------------------------------------------------------
(* The checkpoint row.                                                      *)

\* Neither evidence nor an epoch is newer than the decision that was taken on it.
Canonical(c) == [c EXCEPT !.updated = Least(@, c.decision), !.started = Least(@, c.decision)]
EpochOf(c)   == <<c.epoch, c.started>>

Retirable(c, read, now) ==
    c.regime = "weighted" /\ c.decision = read.decision /\ c.expires = read.expires
    /\ c.expires < now

\* The row a decision wants to write over c.
Proposed(c, d) ==
    LET current == IF c.started > d.now /\ d.now >= c.decision THEN d.now ELSE c.started
        started == Least(d.started, d.now)
    IN [regime   |-> d.regime,
        updated  |-> Least(d.version.updated, d.now),
        seen     |-> d.version.seen,
        rows     |-> d.version.rows,
        epoch    |-> c.epoch + (IF started > current THEN 1 ELSE 0),
        started  |-> Most(current, started),
        decision |-> d.now,
        expires  |-> IF d.regime = "weighted" THEN d.now + TTL ELSE d.now]

SameVersion(a, b) == a.updated = b.updated /\ a.seen = b.seen /\ a.rows = b.rows

\* The upsert's condition: newer evidence or a newer decision on the same, or the repair of
\* a row whose clock was ahead.
Supersedes(n, c) ==
    \/ c = NoRow
    \/ n.started > c.started
    \/ n.updated > c.updated
    \/ n.updated = c.updated /\ n.seen > c.seen
    \/ n.updated = c.updated /\ n.seen = c.seen /\ n.rows > c.rows
    \/ SameVersion(n, c) /\ n.decision >= c.decision
    \/ c.updated > n.decision /\ n.decision >= c.decision
    \/ c.started > n.decision /\ n.decision >= c.decision
    \/ /\ n.regime = "weighted" /\ c.regime = "weighted" /\ SameVersion(n, c)
       /\ n.epoch = c.epoch /\ n.started = c.started
       /\ c.decision > n.expires

-----------------------------------------------------------------------------
(* A routing decision.                                                      *)

NoVersion  == [updated |-> 0, seen |-> 0, rows |-> 0]
NoDecision == [regime |-> "none", started |-> 0, version |-> NoVersion, now |-> 0]

\* A registry between two decisions: its regime, a change it could not record yet and the
\* time of its last checkpoint.  The rest belongs to the decision under way; opened and
\* touched record who moved the epoch, the row or the evidence since it began.
Between(regime, pending, refreshed) ==
    [pc |-> "idle", regime |-> regime, pending |-> pending, refreshed |-> refreshed,
     high |-> 0, epoch |-> <<0, 0>>, expected |-> NoRow, conflict |-> FALSE,
     read |-> NoRow, decision |-> NoDecision, used |-> {}, opened |-> FALSE, touched |-> FALSE]

Touch(others) ==
    [p \in Procs |-> [proc[p] EXCEPT !.touched = @ \/ (p \in others /\ proc[p].pc # "idle")]]

\* The high water of the evidence comes first.
Enter(p) ==
    /\ proc[p].pc = "idle" /\ calls < MaxCalls
    /\ proc' = [proc EXCEPT ![p].pc = "token", ![p].high = Len(obs)]
    /\ calls' = calls + 1
    /\ UNCHANGED <<clock, jumps, obs, ckpt>>

\* The epoch and the whole row the decision expects to be current.  The row follows the
\* own writes of the decision, which authorises what it wrote; the epoch does not.
ReadToken(p) ==
    LET row == Canonical(ckpt)
    IN /\ proc[p].pc = "token"
       /\ proc' = [proc EXCEPT ![p].pc = "read", ![p].epoch = EpochOf(row),
                      ![p].expected = row]
       /\ UNCHANGED <<clock, jumps, obs, ckpt, calls>>

ReadCheckpoint(p) ==
    LET row == Canonical(ckpt)
        expired == row.regime = "weighted" /\ row.expires < clock
    IN /\ proc[p].pc = "read"
       /\ proc' = [proc EXCEPT ![p].pc = IF expired THEN "retire" ELSE "evaluate",
                      ![p].read = row, ![p].decision.now = clock]
       /\ UNCHANGED <<clock, jumps, obs, ckpt, calls>>

\* The row that a decision wrote is the one it expects from then on.
Authorized(me, row) == [me EXCEPT !.expected = Canonical(row)]

\* Retire exactly the expired version that was read.
Retire(p) ==
    LET now == proc[p].decision.now
        row == [ckpt EXCEPT !.regime = "fallback", !.decision = now, !.expires = now]
    IN /\ proc[p].pc = "retire"
       /\ \/ /\ Retirable(ckpt, proc[p].read, now)
             /\ ckpt' = row
             /\ proc' = [Touch(Procs \ {p}) EXCEPT
                            ![p] = [Authorized(proc[p], row) EXCEPT !.pc = "reread"]]
          \/ /\ ~Retirable(ckpt, proc[p].read, now)
             /\ proc' = [proc EXCEPT ![p].pc = "reread",
                            ![p].conflict = @ \/ Canonical(ckpt) # proc[p].expected]
             /\ UNCHANGED ckpt
       /\ UNCHANGED <<clock, jumps, obs, calls>>

Reread(p) ==
    /\ proc[p].pc = "reread"
    /\ proc' = [proc EXCEPT ![p].pc = "evaluate", ![p].read = Canonical(ckpt)]
    /\ UNCHANGED <<clock, jumps, obs, ckpt, calls>>

Active(row, now) == row.regime = "weighted" /\ row.decision <= now /\ now <= row.expires

\* The regime of the rows: entering takes more confidence than staying.
Chosen(previous, enter, stay) ==
    IF (IF previous = "weighted" THEN stay ELSE enter) THEN "weighted" ELSE "fallback"

\* One reading of the ledger: no row is from the future.
Reading == [i \in DOMAIN obs |-> [obs[i] EXCEPT !.at = Least(@, clock)]]

\* A fresh registry inherits the regime of an active checkpoint that its rows bear out.
Cold(me) == me.regime = "none" /\ Active(me.read, me.decision.now)

Inherits(me, o) ==
    LET mine == Rows(o, me.read.started)
    IN /\ Cold(me) /\ Cardinality(mine) >= MinRows
       /\ NotAhead(me.read, Version(o, mine, me.read.started))

Previous(me, o) == IF Inherits(me, o) THEN "weighted" ELSE me.regime

\* What a decision for a regime leaves to do that uses some rows and found a change (0: none):
\* a change of regime, a change of epoch and a checkpoint that is due are recorded.
Decided(me, o, regime, used, change) ==
    LET boundary == me.read.started
        now      == me.decision.now
        last     == IF Inherits(me, o) THEN me.read.decision ELSE me.refreshed
        pending  == Most(me.pending, change)
        since    == IF pending > 0 THEN pending ELSE boundary
        rows     == Rows(o, since)
        counted  == IF Cold(me) THEN boundary ELSE Most(boundary, pending)
        due      == \/ regime = "weighted" /\ Previous(me, o) # "weighted"
                    \/ regime = "fallback" /\ Previous(me, o) = "weighted"
                    \/ regime = "weighted" /\ now >= last + Refresh
                    \/ pending > 0
        record   == due /\ Cardinality(rows) >= MinRows
    IN [me EXCEPT !.pc = IF record THEN "record" ELSE "recheck",
           !.regime = regime, !.pending = pending, !.refreshed = last, !.read = NoRow,
           !.used = IF regime = "weighted" THEN {[id |-> i, at |-> o[i].at] : i \in used} ELSE {},
           !.decision = IF record THEN [regime |-> regime, started |-> since, now |-> now,
                                        version |-> Version(o, rows, counted)]
                        ELSE NoDecision]

\* Weigh the rows of the epoch, or look at those since a change.
Evaluate(p) ==
    LET me       == proc[p]
        o        == Reading
        boundary == me.read.started
        mine     == Rows(o, boundary)
    IN /\ me.pc = "evaluate"
       /\ obs' = o
       /\ \/ \E enter, stay \in BOOLEAN :
                /\ enter => stay
                /\ stay => Cardinality(mine) >= MinRows
                /\ proc' = [proc EXCEPT ![p] =
                      Decided(me, o, Chosen(Previous(me, o), enter, stay), mine, 0)]
          \/ \E change \in Changes(o, boundary), regime \in {"weighted", "fallback"} :
                proc' = [proc EXCEPT ![p] = Decided(me, o, regime, Rows(o, change), change)]
       /\ UNCHANGED <<clock, jumps, ckpt, calls>>

\* The write goes through only on the epoch, the row and the evidence of the decision.
Recordable(me) ==
    /\ EpochOf(Canonical(ckpt)) = me.epoch
    /\ Canonical(ckpt) = me.expected
    /\ Len(obs) = me.high

Record(p) ==
    LET me  == proc[p]
        new == Proposed(ckpt, me.decision)
        row == IF Supersedes(new, ckpt) THEN new ELSE ckpt
        Kept(c) == IF c.started >= me.pending THEN 0 ELSE me.pending
    IN /\ me.pc = "record"
       /\ \/ /\ Recordable(me)
             /\ ckpt' = row
             /\ proc' = [(IF row # ckpt THEN Touch(Procs \ {p}) ELSE proc) EXCEPT
                            ![p] = [Authorized(me, row) EXCEPT
                                      !.pc = "recheck", !.pending = Kept(row),
                                      !.opened = row.epoch # ckpt.epoch,
                                      !.refreshed = row.decision, !.decision = NoDecision]]
          \/ /\ ~Recordable(me)
             /\ proc' = [proc EXCEPT
                            ![p].pc = "recheck", ![p].pending = Kept(ckpt), ![p].conflict = TRUE,
                            ![p].refreshed = IF ckpt = NoRow THEN @ ELSE ckpt.decision,
                            ![p].decision = NoDecision]
             /\ UNCHANGED ckpt
       /\ UNCHANGED <<clock, jumps, obs, calls>>

Recheck(p) ==
    /\ proc[p].pc = "recheck"
    /\ proc' = [proc EXCEPT ![p].pc = "finish", ![p].read = Canonical(ckpt)]
    /\ UNCHANGED <<clock, jumps, obs, ckpt, calls>>

\* Mutant: only the own checkpoint write was fenced on the evidence.
ConflictedInRow(me) == me.conflict \/ me.read # me.expected

\* Mutant: the row is not read again.
ConflictedInEvidence(me) == me.conflict \/ Len(obs) # me.high

\* The row (its epoch included) or the evidence moved while the decision was taken.
Conflicted(me) == me.conflict \/ me.read # me.expected \/ Len(obs) # me.high

\* A decision that cannot be validated is replaced by the router without observations.
Finish(p) ==
    LET me == proc[p]
    IN /\ me.pc = "finish"
       /\ proc' = [proc EXCEPT ![p] =
                      IF Conflicted(me) THEN Between("fallback", 0, me.refreshed)
                      ELSE Between(me.regime, me.pending, me.refreshed)]
       /\ UNCHANGED <<clock, jumps, obs, ckpt, calls>>

\* A new run forks a registry that has decided nothing.
Fork(p) ==
    /\ proc[p].pc = "idle"
    /\ proc[p] # Between("none", 0, 0)
    /\ proc' = [proc EXCEPT ![p] = Between("none", 0, 0)]
    /\ UNCHANGED <<clock, jumps, obs, ckpt, calls>>

-----------------------------------------------------------------------------
(* The environment.                                                         *)

Observe(c) ==
    /\ Len(obs) < MaxObs
    /\ obs' = Append(obs, [config |-> c, at |-> clock])
    /\ proc' = Touch(Procs)
    /\ UNCHANGED <<clock, jumps, ckpt, calls>>

Tick ==
    /\ clock < MaxTime
    /\ clock' = clock + 1
    /\ UNCHANGED <<jumps, obs, ckpt, proc, calls>>

JumpBack ==
    /\ jumps < MaxJumps
    /\ \E t \in Time : t < clock /\ clock' = t
    /\ jumps' = jumps + 1
    /\ UNCHANGED <<obs, ckpt, proc, calls>>

Init ==
    /\ clock = 1 /\ jumps = 0 /\ calls = 0
    /\ \E s \in Seeds : obs = s.obs /\ ckpt = s.ckpt
    /\ proc = [p \in Procs |-> Between("none", 0, 0)]

Step(p) ==
    \/ Enter(p) \/ ReadToken(p) \/ ReadCheckpoint(p) \/ Retire(p) \/ Reread(p)
    \/ Evaluate(p) \/ Record(p) \/ Recheck(p) \/ Finish(p) \/ Fork(p)

Next ==
    \/ \E p \in Procs : Step(p)
    \/ \E c \in Configs : Observe(c)
    \/ Tick \/ JumpBack

Spec == Init /\ [][Next]_vars

-----------------------------------------------------------------------------
(* Properties.                                                              *)

Steps == {"idle", "token", "read", "retire", "reread", "evaluate", "record", "recheck",
          "finish"}
Decision == [regime : Regimes, started : Nat, now : Nat,
             version : [updated : Nat, seen : Nat, rows : Nat]]
Registry == [pc : Steps, regime : Regimes, pending : Nat, refreshed : Nat, high : Nat,
             epoch : Nat \X Nat, expected : CkptRow, conflict : BOOLEAN, read : CkptRow,
             decision : Decision, used : SUBSET [id : Nat, at : Nat], opened : BOOLEAN,
             touched : BOOLEAN]

TypeOK ==
    /\ clock \in Time /\ jumps \in 0 .. MaxJumps /\ calls \in 0 .. MaxCalls
    /\ obs \in Seq([config : Configs, at : Time]) /\ Len(obs) <= MaxObs
    /\ ckpt \in CkptRow
    /\ proc \in [Procs -> Registry]

Validated(p) == proc[p].pc = "finish" /\ ~Conflicted(proc[p])

\* A decision that is validated steers by every observation committed so far that belongs
\* to its rows: each row it uses is still the latest of its config.
DecisionsRestOnCurrentEvidence ==
    \A p \in Procs : Validated(p) =>
       \A r \in proc[p].used : r.id \in Rows(obs, 0)

\* ... and by none from before the epoch that the checkpoint had when the decision was
\* checked, unless the decision opened that epoch itself.
UsedRowsBelongToTheEpoch ==
    \A p \in Procs : Validated(p) /\ ~proc[p].opened =>
       \A r \in proc[p].used : r.at >= proc[p].read.started

\* An epoch starts no later than the newest evidence it was decided on, and that evidence
\* is no newer than the decision.
EpochHasEvidence == ckpt.started <= ckpt.updated /\ ckpt.updated <= ckpt.decision

\* The number of an epoch is the number of its boundary: it changes exactly when the boundary
\* moves, by one and forward.
EpochsAreCounted ==
    [][ \/ ckpt'.epoch = ckpt.epoch /\ ckpt'.started = ckpt.started
        \/ ckpt'.epoch = ckpt.epoch + 1 /\ ckpt'.started > ckpt.started ]_ckpt

\* A decision is refused only if another process moved the checkpoint or an observation was
\* committed since it began: its own writes do not refuse it.
ConflictsAreReal ==
    \A p \in Procs : proc[p].pc = "finish" /\ Conflicted(proc[p]) => proc[p].touched
=============================================================================
