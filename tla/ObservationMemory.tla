-------------------------- MODULE ObservationMemory --------------------------
(***************************************************************************)
(* The bounded ledger of paid optimizer observations of one surface: a      *)
(* table with the latest row of each config, a history table whose          *)
(* autoincrement id is the commit order, retention in both, and the         *)
(* snapshot a routing decision reads from them, with the clocks of rows     *)
(* that claim to come from the future anchored at their first reading.      *)
(*                                                                          *)
(* A config is its rank in the order of config keys.  What a row holds      *)
(* besides its time is named by the commit that wrote it: log is every      *)
(* observation ever committed, hist the ids that retention left.            *)
(*                                                                          *)
(* Definitions commented "Mutant" are plausible bugs in the definition that *)
(* follows; nothing uses them but the sanity check of the properties.       *)
(***************************************************************************)
EXTENDS Naturals, Sequences, FiniteSets

CONSTANTS
    Configs,            \* configs, as ranks of their keys
    Scenarios,          \* what may happen: the configs one evolution may pay for, in order
                        \* (batches), the configs an older version left rows for (seeds),
                        \* bounds on commits, on clock jumps and on snapshots taken
    ReadBudget,         \* OPTIMIZER_OBSERVATION_READ_BUDGET
    Retention,          \* OPTIMIZER_OBSERVATION_RETENTION
    HistoryRetention,   \* OPTIMIZER_OBSERVATION_HISTORY_RETENTION
    PairFloor,          \* OPTIMIZER_OBSERVATION_HISTORY_PAIR_FLOOR
    Readers,            \* processes that take routing snapshots
    MaxTime             \* bound on the clock

ASSUME ConfigsAssumption == Configs \subseteq Nat
ASSUME ScenariosAssumption ==
    \A x \in Scenarios :
       /\ x.batches \subseteq Seq(Configs)
       /\ x.seeds \subseteq Configs /\ IsFiniteSet(x.seeds) /\ Cardinality(x.seeds) <= Retention
       /\ x.commits \in Nat /\ x.jumps \in Nat /\ x.reads \in Nat
ASSUME BudgetAssumption ==
    /\ ReadBudget \in Nat \ {0} /\ Retention \in Nat \ {0} /\ PairFloor \in Nat \ {0}
    /\ HistoryRetention \in Nat \ {0} /\ MaxTime \in Nat \ {0}
    /\ ReadBudget <= Retention /\ ReadBudget * PairFloor <= HistoryRetention

VARIABLES
    clock, jumps,       \* the wall clock of the host, and how often it was set back
    log,                \* every observation ever committed; its index is the id
    hist,               \* ids in agent_optimizer_observation_history
    latest,             \* agent_optimizer_observations
    anchors,            \* agent_optimizer_observation_recency_anchor
    legacyAnchors,      \* agent_optimizer_observation_legacy_recency_anchor
    reader,             \* the snapshot each reader is preparing
    reads,              \* the snapshots taken so far
    routed,             \* the earliest time a row was routed with, by its identity
    scenario            \* chosen once

vars == <<clock, jumps, log, hist, latest, anchors, legacyAnchors, reader, reads, routed,
          scenario>>

Time    == 1 .. MaxTime
\* The commit a row of the latest table stems from; 0 when it predates the history.
Legacy  == 0
Row     == [v : Nat, at : Time]
\* What makes a row the same row at a later reading.
Identity == [config : Configs, v : Nat, at : Time]

Biggest(S, k)   == {i \in S : Cardinality({j \in S : j > i}) < k}
Least(a, b)     == IF a <= b THEN a ELSE b

-----------------------------------------------------------------------------
(* The tables.                                                              *)

Ids(h, l, c)  == {i \in h : l[i].config = c}
\* coalesce(max(id), 0) of the config's history.
Commit(h, l, c) == IF Ids(h, l, c) = {} THEN 0
                   ELSE CHOOSE i \in Ids(h, l, c) : \A j \in Ids(h, l, c) : j <= i

\* Mutant: membership follows the wall clock of the rows.
BeforeByClock(t, h, l, c, d) ==
    \/ t[c].at > t[d].at
    \/ t[c].at = t[d].at /\ c < d

\* order by commit id desc, updated_at desc, config_key asc
Before(t, h, l, c, d) ==
    \/ Commit(h, l, c) > Commit(h, l, d)
    \/ /\ Commit(h, l, c) = Commit(h, l, d)
       /\ \/ t[c].at > t[d].at
          \/ t[c].at = t[d].at /\ c < d

\* The first n configs of table t.
FirstConfigs(t, h, l, n) ==
    {c \in DOMAIN t : Cardinality({d \in DOMAIN t : Before(t, h, l, d, c)}) < n}

PruneLatest(t, h, l) == [c \in FirstConfigs(t, h, l, Retention) |-> t[c]]

\* Mutant: the history keeps the rows with the newest clocks.
KeptHistoryByClock(t, h, l) ==
    {i \in h : Cardinality({j \in h : l[j].at > l[i].at \/ (l[j].at = l[i].at /\ j > i)})
                 < HistoryRetention}

\* The newest rows of every config of the routing set, then the newest of the rest.
KeptHistory(t, h, l) ==
    LET reserved == UNION {Biggest(Ids(h, l, c), PairFloor) :
                             c \in FirstConfigs(t, h, l, ReadBudget)}
        size == Cardinality(reserved)
    IN IF size >= HistoryRetention THEN reserved
       ELSE reserved \cup Biggest(h \ reserved, HistoryRetention - size)

-----------------------------------------------------------------------------
(* Recording what an evolution paid for: one immediate transaction.         *)

Record(batch) ==
    LET n       == Len(log)
        rows    == [k \in DOMAIN batch |-> [config |-> batch[k], at |-> clock]]
        written == {batch[k] : k \in DOMAIN batch}
        newest(c) == CHOOSE k \in DOMAIN batch :
                        batch[k] = c /\ \A j \in DOMAIN batch : batch[j] = c => j <= k
        log2    == log \o rows
        h2      == hist \cup (n + 1) .. (n + Len(batch))
        t2      == [c \in DOMAIN latest \cup written |->
                      IF c \in written THEN [v |-> n + newest(c), at |-> clock]
                      ELSE latest[c]]
        t3      == PruneLatest(t2, h2, log2)
    IN /\ n + Len(batch) <= scenario.commits
       /\ log' = log2
       /\ latest' = t3
       /\ hist' = KeptHistory(t3, h2, log2)
       /\ UNCHANGED <<scenario, clock, jumps, anchors, legacyAnchors, reader, reads, routed>>

-----------------------------------------------------------------------------
(* A routing snapshot: one read transaction, then the anchors of its rows.  *)

Idle == [pc |-> "idle", rows |-> {}, clocks |-> <<>>, read |-> <<>>, now |-> 1,
         floor |-> <<>>]

Untimed(c, v, at) == [config |-> c, v |-> v, at |-> at, eff |-> at]

\* The latest rows within the read budget and the history of their configs.  A latest row
\* is recognised as the newest history version when it equals it, and is legacy otherwise.
ReadSnapshot(p) ==
    LET current    == FirstConfigs(latest, hist, log, ReadBudget)
        version(c) == IF latest[c].v = Commit(hist, log, c) THEN latest[c].v ELSE Legacy
    IN /\ reader[p].pc = "idle" /\ reads < scenario.reads
       /\ reads' = reads + 1
       /\ reader' = [reader EXCEPT ![p] =
            [Idle EXCEPT !.pc = "anchor", !.floor = routed,
               !.clocks = [i \in hist |-> log[i].at],
               !.rows = {Untimed(c, version(c), latest[c].at) : c \in current}
                        \cup {Untimed(log[i].config, i, log[i].at) :
                                i \in {j \in hist : log[j].config \in current}}]]
       /\ UNCHANGED <<scenario, clock, jumps, log, hist, latest, anchors, legacyAnchors, routed>>

\* The time of a row at clock now, under the anchor that table f has for key k.
Effective(at, f, k, now) ==
    LET a == IF k \in DOMAIN f THEN f[k] ELSE at
    IN Least(at, IF at > now THEN Least(a, now) ELSE a)

Key(r) == [config |-> r.config, at |-> r.at]

\* Reading the durable anchors and computing the effective times.
ReadAnchors(p) ==
    /\ reader[p].pc = "anchor"
    /\ reader' = [reader EXCEPT
         ![p].pc = "persist", ![p].now = clock, ![p].read = anchors,
         ![p].rows = {IF r.v = Legacy THEN r
                      ELSE [r EXCEPT !.eff = Effective(r.at, anchors, r.v, clock)] : r \in @}]
    /\ UNCHANGED <<scenario, clock, jumps, log, hist, latest, anchors, legacyAnchors, reads, routed>>

\* Mutant: a later reading overwrites the anchor of an earlier one.
AnchoredLast(old, keys, now) ==
    [k \in DOMAIN old \cup keys |-> IF k \in keys THEN now ELSE old[k]]

\* on conflict do update set anchor_at = min(...)
Anchored(old, keys, now) ==
    [k \in DOMAIN old \cup keys |->
       IF k \notin keys THEN old[k]
       ELSE IF k \in DOMAIN old THEN Least(old[k], now) ELSE now]

\* The table after the future rows among rows (by key) were anchored and the anchors
\* whose row is gone were dropped; nothing is written when there is nothing to do.
Persisted(table, read, at, now, live) ==
    LET future == {k \in DOMAIN at : at[k] > now /\ (k \in DOMAIN read => read[k] > now)}
        stale  == DOMAIN read \ DOMAIN at
        all    == Anchored(table, future, now)
    IN IF future \cup stale = {} THEN table
       ELSE [k \in DOMAIN all \cap live |-> all[k]]

\* All retained history versions are anchored, not only those of the current configs.
PersistAnchors(p) ==
    /\ reader[p].pc = "persist"
    /\ anchors' = Persisted(anchors, reader[p].read, reader[p].clocks, reader[p].now, hist)
    /\ reader' = [reader EXCEPT ![p].pc = "legacy", ![p].clocks = <<>>]
    /\ UNCHANGED <<scenario, clock, jumps, log, hist, latest, legacyAnchors, reads, routed>>

\* The same for rows that are in no history: their key and time identify them.
ReadLegacyAnchors(p) ==
    /\ reader[p].pc = "legacy"
    /\ reader' = [reader EXCEPT
         ![p].pc = "settle", ![p].now = clock, ![p].read = legacyAnchors,
         ![p].rows = {IF r.v # Legacy THEN r
                      ELSE [r EXCEPT !.eff = Effective(r.at, legacyAnchors, Key(r), clock)] :
                      r \in @}]
    /\ UNCHANGED <<scenario, clock, jumps, log, hist, latest, anchors, legacyAnchors, reads, routed>>

LiveKeys  == {[config |-> c, at |-> latest[c].at] : c \in DOMAIN latest}
Id(r)     == [config |-> r.config, v |-> r.v, at |-> r.at]
First(S)  == CHOOSE t \in S : \A u \in S : t <= u

\* The snapshot is complete when its anchors are durable: the decision uses it.
PersistLegacyAnchors(p) ==
    LET rows   == reader[p].rows
        legacy == {Key(r) : r \in {s \in rows : s.v = Legacy}}
        used(k) == {r.eff : r \in {s \in rows : Id(s) = k}}
                   \cup (IF k \in DOMAIN routed THEN {routed[k]} ELSE {})
    IN /\ reader[p].pc = "settle"
       /\ legacyAnchors' =
            IF legacy = {} THEN legacyAnchors
            ELSE Persisted(legacyAnchors, reader[p].read, [k \in legacy |-> k.at],
                           reader[p].now, LiveKeys)
       /\ routed' = [k \in DOMAIN routed \cup {Id(r) : r \in rows} |-> First(used(k))]
       /\ reader' = [reader EXCEPT ![p] = Idle]
       /\ UNCHANGED <<scenario, clock, jumps, log, hist, latest, anchors, reads>>

-----------------------------------------------------------------------------
(* The clock of the host: time passes, and may be set back.                 *)

Tick ==
    /\ clock < MaxTime
    /\ clock' = clock + 1
    /\ UNCHANGED <<scenario, jumps, log, hist, latest, anchors, legacyAnchors, reader, reads, routed>>

JumpBack ==
    /\ jumps < scenario.jumps
    /\ \E t \in Time : t < clock /\ clock' = t
    /\ jumps' = jumps + 1
    /\ UNCHANGED <<scenario, log, hist, latest, anchors, legacyAnchors, reader, reads, routed>>

\* A database may come from a version that kept the latest rows only.
Init ==
    /\ clock = 1 /\ jumps = 0
    /\ log = <<>> /\ hist = {}
    /\ scenario \in Scenarios
    /\ \E at \in [scenario.seeds -> Time] :
          latest = [c \in scenario.seeds |-> [v |-> Legacy, at |-> at[c]]]
    /\ anchors = <<>> /\ legacyAnchors = <<>>
    /\ reader = [p \in Readers |-> Idle]
    /\ reads = 0 /\ routed = <<>>

ReaderStep(p) ==
    \/ ReadSnapshot(p) \/ ReadAnchors(p) \/ PersistAnchors(p)
    \/ ReadLegacyAnchors(p) \/ PersistLegacyAnchors(p)

Next ==
    \/ \E batch \in scenario.batches : Record(batch)
    \/ \E p \in Readers : ReaderStep(p)
    \/ Tick \/ JumpBack

Spec == Init /\ [][Next]_vars

-----------------------------------------------------------------------------
(* Properties.                                                              *)

TypeOK ==
    /\ clock \in Time /\ jumps \in 0 .. scenario.jumps /\ reads \in 0 .. scenario.reads
    /\ log \in Seq([config : Configs, at : Time])
    /\ hist \subseteq DOMAIN log
    /\ DOMAIN latest \subseteq Configs
    /\ \A c \in DOMAIN latest : latest[c] \in Row /\ latest[c].v <= Len(log)
    /\ DOMAIN anchors \subseteq DOMAIN log /\ \A i \in DOMAIN anchors : anchors[i] \in Time
    /\ \A k \in DOMAIN legacyAnchors : legacyAnchors[k] \in Time
    /\ DOMAIN routed \subseteq Identity

\* The highest id in the history is the last observation that was committed, whatever was
\* pruned: the routing fence takes it for the revision of all evidence.
HighWaterIsTheLastCommit == log # <<>> => Len(log) \in hist

\* A routing decision sees the configs that were paid for last, in the order of their
\* commits, although older history is gone and the clock may have been set back.
LastCommit(c) == CHOOSE i \in Ids(DOMAIN log, log, c) :
                    \A j \in Ids(DOMAIN log, log, c) : j <= i
RoutingSetIsNewest ==
    LET paid == {log[i].config : i \in DOMAIN log}
    IN {c \in paid : Cardinality({d \in paid : LastCommit(d) > LastCommit(c)}) < ReadBudget}
       \subseteq FirstConfigs(latest, hist, log, ReadBudget)

Retained(r) ==
    IF r.v = Legacy THEN r.config \in DOMAIN latest /\ latest[r.config] = [v |-> Legacy, at |-> r.at]
    ELSE r.v \in hist

\* No row becomes younger: once a decision used a row with some time, no decision that
\* starts afterwards, in whatever process and at whatever clock, uses it with a later one
\* while the row is in its table.  (A row replaced since the snapshot was read may lose its
\* anchor before the reader looks for it: such a decision is refused by the routing fence.)
AgesOnlyForward ==
    \A p \in Readers : reader[p].pc = "settle" =>
       \A r \in reader[p].rows :
          Id(r) \in DOMAIN reader[p].floor /\ Retained(r) => r.eff <= reader[p].floor[Id(r)]
=============================================================================
