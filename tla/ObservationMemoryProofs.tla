------------------------ MODULE ObservationMemoryProofs ------------------------
(***************************************************************************)
(* Proofs about the ledger of paid optimizer observations, for any configs, *)
(* batches, budgets and readers, and a clock that is set back any number of *)
(* times.                                                                   *)
(***************************************************************************)
EXTENDS ObservationMemory, FiniteSetTheorems, WellFoundedInduction, TLAPS

-----------------------------------------------------------------------------
(* Bounds of sets of numbers.                                               *)

LEMMA LeastExists ==
    ASSUME NEW S \in SUBSET Nat, S # {}
    PROVE  \E t \in S : \A u \in S : t <= u
<1> DEFINE R == OpToRel(<, Nat)
<1> HIDE DEF R
<1>1. IsWellFoundedOn(R, Nat)
  BY NatLessThanWellFounded DEF R
<1>2. PICK t \in S : \A u \in S : ~(<<u, t>> \in R)
  BY <1>1, WFMin
<1>3. \A u \in S : ~(u < t)
  BY <1>2 DEF OpToRel, R
<1> QED BY <1>3

LEMMA GreatestExists ==
    ASSUME NEW n \in Nat, NEW S \in SUBSET (1 .. n), S # {}
    PROVE  \E t \in S : \A u \in S : u <= t
<1> DEFINE rest == {n - t : t \in S}
<1>1. rest \in SUBSET Nat /\ rest # {}
  <2>1. \A t \in S : n - t \in Nat
    OBVIOUS
  <2> QED BY <2>1
<1>2. PICK x \in rest : \A y \in rest : x <= y
  <2> HIDE DEF rest
  <2> QED BY <1>1, LeastExists
<1>3. PICK t \in S : x = n - t
  BY <1>2
<1>4. \A u \in S : n - t <= n - u
  BY <1>2, <1>3
<1> QED BY <1>4

LEMMA FirstIs ==
    ASSUME NEW S \in SUBSET Nat, S # {}
    PROVE  First(S) \in S /\ \A u \in S : First(S) <= u
BY LeastExists DEF First

-----------------------------------------------------------------------------
(* Logs.                                                                    *)

Entry == [config : Configs, at : Time]

LEMMA Numbers ==
    /\ MaxTime \in Nat \ {0} /\ Time \subseteq Nat /\ Configs \subseteq Nat
    /\ ReadBudget \in Nat \ {0} /\ Retention \in Nat \ {0} /\ PairFloor \in Nat \ {0}
    /\ HistoryRetention \in Nat \ {0} /\ ReadBudget <= Retention
BY BudgetAssumption, ConfigsAssumption DEF Time

LEMMA LogType ==
    ASSUME NEW l \in Seq(Entry)
    PROVE  /\ Len(l) \in Nat /\ DOMAIN l = 1 .. Len(l)
           /\ \A i \in DOMAIN l : l[i] \in Entry /\ l[i].config \in Configs /\ l[i].at \in Time
<1>1. Len(l) \in Nat /\ DOMAIN l = 1 .. Len(l)
  OBVIOUS
<1>2. \A i \in DOMAIN l : l[i] \in Entry
  <2> HIDE DEF Entry
  <2> QED OBVIOUS
<1> QED BY <1>1, <1>2 DEF Entry

\* The last commit of a config among some ids.
LEMMA CommitIs ==
    ASSUME NEW l \in Seq(Entry), NEW h \in SUBSET DOMAIN l, NEW c
    PROVE  /\ Commit(h, l, c) \in Nat
           /\ Ids(h, l, c) = {} => Commit(h, l, c) = 0
           /\ Ids(h, l, c) # {} => /\ Commit(h, l, c) \in Ids(h, l, c)
                                   /\ \A j \in Ids(h, l, c) : j <= Commit(h, l, c)
<1>1. Ids(h, l, c) \in SUBSET (1 .. Len(l)) /\ Len(l) \in Nat
  BY LogType DEF Ids
<1>2. Ids(h, l, c) # {} => \E t \in Ids(h, l, c) : \A u \in Ids(h, l, c) : u <= t
  BY <1>1, GreatestExists
<1> QED BY <1>1, <1>2 DEF Commit

\* The configs that were paid for, and those paid for after a config was last.
Paid(l) == {l[i].config : i \in DOMAIN l}
Last(l, c) == Commit(DOMAIN l, l, c)
Newer(l, c) == {d \in Paid(l) : Last(l, d) > Last(l, c)}
Recent(l, n) == {c \in Paid(l) : Cardinality(Newer(l, c)) < n}

LEMMA LastIs ==
    ASSUME NEW l \in Seq(Entry), NEW c \in Paid(l)
    PROVE  /\ Last(l, c) \in DOMAIN l /\ l[Last(l, c)].config = c
           /\ \A i \in DOMAIN l : l[i].config = c => i <= Last(l, c)
<1>1. Ids(DOMAIN l, l, c) # {}
  BY DEF Paid, Ids
<1> QED BY <1>1, CommitIs DEF Last, Ids

LEMMA NewerFinite ==
    ASSUME NEW l \in Seq(Entry)
    PROVE  \A c : \A S \in SUBSET Newer(l, c) :
              /\ IsFiniteSet(S) /\ Cardinality(S) \in Nat
              /\ Cardinality(S) <= Cardinality(Newer(l, c)) /\ Cardinality(Newer(l, c)) \in Nat
<1>1. IsFiniteSet(DOMAIN l)
  BY LogType, FS_Interval
<1>2. IsFiniteSet(Paid(l))
  <2> DEFINE f == [i \in DOMAIN l |-> l[i].config]
  <2>1. f \in Surjection(DOMAIN l, Paid(l))
    BY DEF Paid, Surjection
  <2> HIDE DEF f
  <2> QED BY <1>1, <2>1, FS_Surjection
<1> SUFFICES ASSUME NEW c, NEW S \in SUBSET Newer(l, c)
             PROVE  /\ IsFiniteSet(S) /\ Cardinality(S) \in Nat
                    /\ Cardinality(S) <= Cardinality(Newer(l, c)) /\ Cardinality(Newer(l, c)) \in Nat
  OBVIOUS
<1>3. IsFiniteSet(Newer(l, c))
  <2>1. Newer(l, c) \in SUBSET Paid(l)
    BY DEF Newer
  <2> QED BY <1>2, <2>1, FS_Subset
<1> QED BY <1>3, FS_Subset, FS_CardinalityType

-----------------------------------------------------------------------------
(* What was paid for last comes first.                                      *)

\* Tables of latest rows.
Timed(t) == DOMAIN t \subseteq Configs /\ \A c \in DOMAIN t : t[c].at \in Nat

\* A recent config whose last commit is kept is one of the first, in any table that has it.
LEMMA RecentComeFirst ==
    ASSUME NEW l \in Seq(Entry), NEW h \in SUBSET DOMAIN l, NEW t, Timed(t), NEW n \in Nat,
           NEW c \in Recent(l, n), c \in DOMAIN t, Last(l, c) \in h
    PROVE  c \in FirstConfigs(t, h, l, n)
<1> DEFINE ahead == {d \in DOMAIN t : Before(t, h, l, d, c)}
<1>1. c \in Paid(l) /\ Cardinality(Newer(l, c)) < n
  BY DEF Recent
<1>2. Last(l, c) \in Ids(h, l, c)
  BY <1>1, LastIs DEF Ids
<1>3. Commit(h, l, c) = Last(l, c)
  <2>1. Commit(h, l, c) \in Ids(h, l, c) /\ Last(l, c) <= Commit(h, l, c)
    BY <1>2, CommitIs
  <2>2. Commit(h, l, c) <= Last(l, c)
    BY <2>1, <1>1, LastIs DEF Ids
  <2> QED BY <2>1, <2>2, <1>1, LastIs, LogType, CommitIs
<1>4. Last(l, c) \in Nat \ {0}
  BY <1>1, LastIs, LogType
<1>5. ASSUME NEW d \in DOMAIN t, Before(t, h, l, d, c) PROVE d \in Newer(l, c)
  <2>1. Commit(h, l, d) >= Last(l, c)
    BY <1>3, <1>4, <1>5, CommitIs DEF Before
  <2>2. Commit(h, l, d) \in Ids(h, l, d) /\ Commit(h, l, d) \in Nat
    BY <2>1, <1>4, CommitIs
  <2>3. d \in Paid(l)
    BY <2>2 DEF Ids, Paid
  <2>4. CASE Commit(h, l, d) > Last(l, c)
    <3>1. Commit(h, l, d) <= Last(l, d) /\ Last(l, d) \in Nat
      BY <2>2, <2>3, LastIs, LogType DEF Ids
    <3> QED BY <3>1, <2>2, <2>3, <2>4, <1>4 DEF Newer
  <2>5. CASE Commit(h, l, d) = Last(l, c)
    <3>1. d = c
      BY <2>2, <2>5, <1>1, LastIs DEF Ids
    <3>2. t[c].at \in Nat /\ c \in Nat
      BY Numbers DEF Timed
    <3> QED BY <3>1, <3>2, <2>2, <1>5 DEF Before
  <2> QED BY <2>1, <2>2, <2>4, <2>5, <1>4
<1>6. ahead \in SUBSET Newer(l, c)
  BY <1>5
<1>7. Cardinality(ahead) < n
  <2> HIDE DEF ahead
  <2> QED BY <1>1, <1>6, NewerFinite
<1> QED BY <1>7 DEF FirstConfigs

\* The last commit of a config of the routing set is reserved.
LEMMA LastIsReserved ==
    ASSUME NEW l \in Seq(Entry), NEW h \in SUBSET DOMAIN l, NEW t, NEW c \in Paid(l),
           c \in FirstConfigs(t, h, l, ReadBudget), Last(l, c) \in h
    PROVE  Last(l, c) \in KeptHistory(t, h, l)
<1> DEFINE i == Last(l, c)
           later == {j \in Ids(h, l, c) : j > i}
<1>1. i \in Ids(h, l, c)
  BY LastIs DEF Ids
<1>2. later = {}
  BY LastIs, LogType DEF Ids
<1>3. Cardinality(later) = 0
  <2> HIDE DEF later
  <2> QED BY <1>2, FS_EmptySet
<1>4. i \in Biggest(Ids(h, l, c), PairFloor)
  BY <1>1, <1>3, Numbers DEF Biggest
<1> QED BY <1>4 DEF KeptHistory

-----------------------------------------------------------------------------
(* Recording keeps the last commits.                                        *)

\* What was paid for last has its latest row and its newest history row.
Kept(t, h, l) == \A c \in Recent(l, ReadBudget) : c \in DOMAIN t /\ Last(l, c) \in h

\* Retention keeps it, in the tables and in the routing set.
LEMMA RetentionKeeps ==
    ASSUME NEW l \in Seq(Entry), NEW h \in SUBSET DOMAIN l, NEW t, Timed(t), Kept(t, h, l)
    PROVE  /\ \A c \in Recent(l, ReadBudget) : c \in FirstConfigs(t, h, l, ReadBudget)
           /\ LET s == PruneLatest(t, h, l) IN Kept(s, KeptHistory(s, h, l), l)
<1> DEFINE s == PruneLatest(t, h, l)
<1>1. ASSUME NEW c \in Recent(l, ReadBudget) PROVE c \in FirstConfigs(t, h, l, ReadBudget)
  BY RecentComeFirst, Numbers DEF Kept
<1>2. \A c \in Recent(l, ReadBudget) : c \in Paid(l) /\ c \in Recent(l, Retention)
  <2> SUFFICES ASSUME NEW c \in Recent(l, ReadBudget)
               PROVE  c \in Paid(l) /\ c \in Recent(l, Retention)
    OBVIOUS
  <2>1. Cardinality(Newer(l, c)) \in Nat
    BY NewerFinite
  <2> QED BY <2>1, Numbers DEF Recent
<1>3. DOMAIN s = FirstConfigs(t, h, l, Retention) /\ \A c \in DOMAIN s : s[c] = t[c]
  BY DEF PruneLatest
<1>4. Timed(s)
  BY <1>3 DEF Timed, FirstConfigs
<1>5. ASSUME NEW c \in Recent(l, ReadBudget)
      PROVE  c \in DOMAIN s /\ Last(l, c) \in KeptHistory(s, h, l)
  <2>1. c \in DOMAIN t /\ Last(l, c) \in h
    BY DEF Kept
  <2>2. c \in DOMAIN s
    BY <1>2, <1>3, <2>1, RecentComeFirst, Numbers
  <2> HIDE DEF s
  <2>3. c \in FirstConfigs(s, h, l, ReadBudget)
    BY <1>4, <2>1, <2>2, RecentComeFirst, Numbers
  <2> QED BY <1>2, <2>1, <2>2, <2>3, LastIsReserved
<1> QED BY <1>1, <1>5 DEF Kept

\* What a longer log says of the configs it has in common with the shorter one.
LEMMA LongerLog ==
    ASSUME NEW l \in Seq(Entry), NEW m \in Seq(Entry), Len(l) <= Len(m),
           \A i \in DOMAIN l : m[i] = l[i],
           NEW c \in Paid(m), \A i \in DOMAIN m : i > Len(l) => m[i].config # c
    PROVE  /\ c \in Paid(l) /\ Last(m, c) = Last(l, c)
           /\ Newer(l, c) \subseteq Newer(m, c)
<1>1. DOMAIN l \subseteq DOMAIN m /\ DOMAIN m \subseteq Nat /\ Len(l) \in Nat
  BY LogType
<1>2. Last(m, c) \in DOMAIN l /\ l[Last(m, c)].config = c
  BY <1>1, LastIs, LogType
<1>3. c \in Paid(l)
  BY <1>2 DEF Paid
<1>4. Last(m, c) = Last(l, c)
  <2>1. Last(m, c) <= Last(l, c)
    BY <1>2, <1>3, LastIs
  <2>2. Last(l, c) \in DOMAIN l /\ l[Last(l, c)].config = c
    BY <1>3, LastIs
  <2>3. Last(l, c) <= Last(m, c)
    BY <1>1, <2>2, LastIs
  <2> QED BY <1>1, <1>2, <2>1, <2>2, <2>3
<1>5. ASSUME NEW d \in Newer(l, c) PROVE d \in Newer(m, c)
  <2>1. d \in Paid(l) /\ Last(l, d) > Last(l, c)
    BY DEF Newer
  <2>2. Last(l, d) \in DOMAIN l /\ l[Last(l, d)].config = d
    BY <2>1, LastIs
  <2>3. d \in Paid(m)
    BY <1>1, <2>2 DEF Paid
  <2>4. Last(l, d) <= Last(m, d) /\ Last(m, d) \in Nat
    BY <1>1, <2>2, <2>3, LastIs
  <2>5. Last(l, c) \in Nat /\ Last(l, d) \in Nat
    BY <1>1, <1>3, <2>2, LastIs
  <2> QED BY <1>4, <2>1, <2>3, <2>4, <2>5 DEF Newer
<1> QED BY <1>3, <1>4, <1>5

\* The rows of a batch.
Written(batch) == {batch[k] : k \in DOMAIN batch}
Appended(batch) == log \o [k \in DOMAIN batch |-> [config |-> batch[k], at |-> clock]]

LEMMA BatchIsAppended ==
    ASSUME log \in Seq(Entry), clock \in Time, NEW batch \in Seq(Configs)
    PROVE  /\ Appended(batch) \in Seq(Entry)
           /\ Len(Appended(batch)) = Len(log) + Len(batch) /\ Len(batch) \in Nat
           /\ \A i \in DOMAIN log : Appended(batch)[i] = log[i]
           /\ \A i \in DOMAIN Appended(batch) : i > Len(log) =>
                 /\ i - Len(log) \in DOMAIN batch
                 /\ Appended(batch)[i] = [config |-> batch[i - Len(log)], at |-> clock]
<1> DEFINE rows == [k \in DOMAIN batch |-> [config |-> batch[k], at |-> clock]]
<1>1. Len(batch) \in Nat /\ DOMAIN batch = 1 .. Len(batch) /\ \A k \in DOMAIN batch : batch[k] \in Configs
  OBVIOUS
<1>2. \A k \in DOMAIN batch : rows[k] = [config |-> batch[k], at |-> clock] /\ rows[k] \in Entry
  BY <1>1 DEF Entry
<1>3. rows \in [1 .. Len(batch) -> Entry]
  BY <1>1, <1>2
<1> HIDE DEF rows
<1> HIDE DEF Entry
<1>4. rows \in Seq(Entry) /\ Len(rows) = Len(batch)
  BY <1>1, <1>3
<1>5. log \o rows \in Seq(Entry) /\ Len(log \o rows) = Len(log) + Len(rows)
  BY <1>4
<1>6. \A i \in DOMAIN log : (log \o rows)[i] = log[i]
  BY <1>4
<1>7. \A i \in 1 .. Len(log) + Len(rows) : i > Len(log) =>
         i - Len(log) \in 1 .. Len(rows) /\ (log \o rows)[i] = rows[i - Len(log)]
  BY <1>4
<1>8. DOMAIN (log \o rows) = 1 .. Len(log) + Len(rows)
  BY <1>5
<1>9. Appended(batch) = log \o rows
  BY DEF Appended, rows
<1> QED BY <1>1, <1>2, <1>4, <1>5, <1>6, <1>7, <1>8, <1>9

\* Before retention, the tables with the batch have what was paid for last.
LEMMA BatchIsKept ==
    ASSUME log \in Seq(Entry), clock \in Time, NEW batch \in Seq(Configs),
           Kept(latest, hist, log), NEW t, DOMAIN t = DOMAIN latest \cup Written(batch)
    PROVE  Kept(t, hist \cup (Len(log) + 1) .. (Len(log) + Len(batch)), Appended(batch))
<1> DEFINE m == Appended(batch)
           h == hist \cup (Len(log) + 1) .. (Len(log) + Len(batch))
<1>1. /\ m \in Seq(Entry) /\ Len(m) = Len(log) + Len(batch) /\ Len(batch) \in Nat
      /\ \A i \in DOMAIN log : m[i] = log[i]
      /\ \A i \in DOMAIN m : i > Len(log) =>
            i - Len(log) \in DOMAIN batch /\ m[i] = [config |-> batch[i - Len(log)], at |-> clock]
  BY BatchIsAppended
<1> HIDE DEF m
<1>2. Len(log) \in Nat /\ DOMAIN m = 1 .. Len(m) /\ DOMAIN log = 1 .. Len(log)
  BY <1>1, LogType
<1> SUFFICES ASSUME NEW c \in Recent(m, ReadBudget)
             PROVE  c \in DOMAIN t /\ Last(m, c) \in h
  BY DEF Kept, m
<1>3. c \in Paid(m) /\ Cardinality(Newer(m, c)) < ReadBudget
  BY DEF Recent
<1>4. Last(m, c) \in DOMAIN m /\ m[Last(m, c)].config = c
  BY <1>1, <1>3, LastIs
<1>5. CASE Last(m, c) > Len(log)
  <2>1. m[Last(m, c)].config = batch[Last(m, c) - Len(log)] /\ Last(m, c) - Len(log) \in DOMAIN batch
    BY <1>1, <1>4, <1>5
  <2>2. c \in Written(batch)
    BY <1>4, <2>1 DEF Written
  <2> QED BY <1>1, <1>2, <1>4, <1>5, <2>2
<1>6. CASE ~(Last(m, c) > Len(log))
  <2>1. \A i \in DOMAIN m : i > Len(log) => m[i].config # c
    BY <1>1, <1>2, <1>3, <1>4, <1>6, LastIs
  <2>2. c \in Paid(log) /\ Last(m, c) = Last(log, c) /\ Newer(log, c) \subseteq Newer(m, c)
    <3>1. Len(log) <= Len(m)
      BY <1>1, <1>2
    <3>2. m \in Seq(Entry) /\ \A i \in DOMAIN log : m[i] = log[i]
      BY <1>1
    <3> QED BY <1>3, <2>1, <3>1, <3>2, LongerLog
  <2>3. Cardinality(Newer(log, c)) <= Cardinality(Newer(m, c))
        /\ Cardinality(Newer(log, c)) \in Nat /\ Cardinality(Newer(m, c)) \in Nat
    <3>1. Newer(log, c) \in SUBSET Newer(m, c)
      BY <2>2
    <3> QED BY <1>1, <3>1, NewerFinite
  <2>4. c \in Recent(log, ReadBudget)
    BY <1>3, <2>2, <2>3, Numbers DEF Recent
  <2> QED BY <2>2, <2>4 DEF Kept
<1> QED BY <1>5, <1>6

-----------------------------------------------------------------------------
(* The inductive invariant.                                                 *)

RowType  == [config : Configs, v : Nat, at : Time, eff : Time]
Held     == {"pc", "rows", "clocks", "read", "now", "floor"}
Shape(x) == x = [k \in Held |-> x[k]]

\* The versions are those of the log.
Real(k) == k.v # Legacy => k.v \in DOMAIN log /\ log[k.v] = [config |-> k.config, at |-> k.at]
LegacyKept(k) == k.config \in DOMAIN latest /\ latest[k.config] = [v |-> Legacy, at |-> k.at]

TablesOK ==
    /\ log \in Seq(Entry) /\ hist \subseteq DOMAIN log
    /\ DOMAIN latest \subseteq Configs
    /\ \A c \in DOMAIN latest :
          latest[c] \in Row /\ Real([config |-> c, v |-> latest[c].v, at |-> latest[c].at])
    /\ DOMAIN anchors \subseteq DOMAIN log /\ \A i \in DOMAIN anchors : anchors[i] \in Time
    /\ DOMAIN legacyAnchors \subseteq [config : Configs, at : Time]
    /\ \A k \in DOMAIN legacyAnchors : legacyAnchors[k] \in Time

\* A row that was used with an age has an anchor that makes it at least as old.
Bounded(k, t) ==
    t < k.at => IF k.v = Legacy
                THEN Key(k) \in DOMAIN legacyAnchors /\ legacyAnchors[Key(k)] <= t
                ELSE k.v \in DOMAIN anchors /\ anchors[k.v] <= t

RoutedInv ==
    \A k \in DOMAIN routed :
       /\ k \in Identity /\ routed[k] \in Time /\ Real(k)
       /\ Retained(k) => Bounded(k, routed[k])

\* What a reader knows of its row r: before the anchors of its kind were read, between the
\* reading and the writing of them, and after that.
Floored(x, k) == k \in DOMAIN x.floor
Awaited(x, r) == Retained(Id(r)) /\ Floored(x, Id(r)) => Bounded(Id(r), x.floor[Id(r)])
NotYounger(x, r) == Retained(Id(r)) /\ Floored(x, Id(r)) => r.eff <= x.floor[Id(r)]
Computed(x, r, key) == r.eff = Effective(r.at, x.read, key, x.now) /\ NotYounger(x, r)
Anchors(x, r) == NotYounger(x, r) /\ (Retained(Id(r)) => Bounded(Id(r), r.eff))

\* The anchors have not moved forward since they were read.
AnchorsFell(x) ==
    \A i \in DOMAIN x.read :
       /\ i \in DOMAIN log /\ x.read[i] \in Time
       /\ i \in hist => i \in DOMAIN anchors /\ anchors[i] <= x.read[i]
LegacyAnchorsFell(x) ==
    \A k \in DOMAIN x.read :
       /\ x.read[k] \in Time
       /\ LegacyKept(k) => k \in DOMAIN legacyAnchors /\ legacyAnchors[k] <= x.read[k]

RowsOK(x) ==
    CASE x.pc = "anchor"  -> \A r \in x.rows : Awaited(x, r)
      [] x.pc = "persist" -> /\ AnchorsFell(x)
                             /\ \A r \in x.rows : IF r.v = Legacy THEN Awaited(x, r)
                                                   ELSE Computed(x, r, r.v)
      [] x.pc = "legacy"  -> \A r \in x.rows : IF r.v = Legacy THEN Awaited(x, r)
                                               ELSE Anchors(x, r)
      [] x.pc = "settle"  -> /\ LegacyAnchorsFell(x)
                             /\ \A r \in x.rows : IF r.v = Legacy THEN Computed(x, r, Key(r))
                                                   ELSE Anchors(x, r)
      [] OTHER            -> x.rows = {}

ReaderOK(x) ==
    /\ Shape(x) /\ x.pc \in {"idle", "anchor", "persist", "legacy", "settle"}
    /\ x.now \in Time /\ \A k \in DOMAIN x.floor : x.floor[k] \in Time
    /\ \A r \in x.rows : r \in RowType /\ Real(r)
    /\ x.pc \in {"anchor", "persist"} =>
          \A r \in x.rows : r.v # Legacy => r.v \in DOMAIN x.clocks /\ x.clocks[r.v] = r.at
    /\ RowsOK(x)

ReadersInv == reader = [p \in Readers |-> reader[p]] /\ \A p \in Readers : ReaderOK(reader[p])
CountsInv == /\ clock \in Time /\ scenario \in Scenarios
             /\ jumps \in 0 .. scenario.jumps /\ reads \in 0 .. scenario.reads
IInv == CountsInv /\ TablesOK /\ Kept(latest, hist, log) /\ RoutedInv /\ ReadersInv

-----------------------------------------------------------------------------
(* Ages.                                                                    *)

\* The time a row is used with is its own, the read anchor or the clock of the reading.
LEMMA EffectiveIs ==
    ASSUME NEW at \in Time, NEW now \in Time, NEW f, NEW k, k \in DOMAIN f => f[k] \in Time
    PROVE  LET e == Effective(at, f, k, now)
           IN /\ e \in Time /\ e <= at /\ (k \in DOMAIN f => e <= f[k])
              /\ e < at => \/ k \in DOMAIN f /\ f[k] = e
                           \/ at > now /\ e = now /\ (k \in DOMAIN f => f[k] > now)
<1>1. at \in Nat /\ now \in Nat /\ (k \in DOMAIN f => f[k] \in Nat)
  BY Numbers
<1> QED BY <1>1 DEF Effective, Least

\* Writing anchors keeps those of the rows that are left, never moves one forward, and anchors
\* the rows from the future at the clock of the reading.
LEMMA PersistedIs ==
    ASSUME NEW table, NEW read, NEW at, NEW live, NEW now \in Time,
           \A k \in DOMAIN table : table[k] \in Time
    PROVE  LET P == Persisted(table, read, at, now, live)
           IN /\ \A k \in DOMAIN P : P[k] \in Time /\ (k \in DOMAIN table \/ k \in live)
              /\ \A k \in live : k \in DOMAIN table => k \in DOMAIN P /\ P[k] <= table[k]
              /\ \A k \in live \cap DOMAIN at :
                    at[k] > now /\ (k \in DOMAIN read => read[k] > now) => k \in DOMAIN P /\ P[k] <= now
<1> DEFINE future == {k \in DOMAIN at : at[k] > now /\ (k \in DOMAIN read => read[k] > now)}
           stale  == DOMAIN read \ DOMAIN at
           all    == Anchored(table, future, now)
           P      == Persisted(table, read, at, now, live)
<1>1. DOMAIN all = DOMAIN table \cup future
  BY DEF Anchored
<1>2. \A k \in DOMAIN all :
         /\ all[k] \in Time /\ (k \in DOMAIN table => all[k] <= table[k])
         /\ k \in future => all[k] <= now
  <2> SUFFICES ASSUME NEW k \in DOMAIN all
               PROVE  /\ all[k] \in Time /\ (k \in DOMAIN table => all[k] <= table[k])
                      /\ k \in future => all[k] <= now
    OBVIOUS
  <2>1. all[k] = IF k \notin future THEN table[k]
                 ELSE IF k \in DOMAIN table THEN Least(table[k], now) ELSE now
    BY <1>1 DEF Anchored
  <2>2. k \in DOMAIN table \/ k \in future
    BY <1>1
  <2>3. now \in Nat /\ (k \in DOMAIN table => table[k] \in Time /\ table[k] \in Nat)
    BY Numbers
  <2> HIDE DEF future, all
  <2> QED BY <2>1, <2>2, <2>3 DEF Least
<1>3. P = IF future \cup stale = {} THEN table ELSE [k \in DOMAIN all \cap live |-> all[k]]
  BY DEF Persisted
<1> HIDE DEF all, P, stale
<1>4. CASE future \cup stale = {}
  <2>1. P = table /\ future = {}
    BY <1>3, <1>4
  <2>2. \A k \in DOMAIN at : ~(at[k] > now /\ (k \in DOMAIN read => read[k] > now))
    BY <2>1
  <2>3. ASSUME NEW k \in DOMAIN table PROVE table[k] <= table[k]
    <3>1. table[k] \in Nat
      BY Numbers
    <3> QED BY <3>1
  <2> QED BY <2>1, <2>2, <2>3 DEF P
<1>5. CASE future \cup stale # {}
  <2>1. P = [k \in DOMAIN all \cap live |-> all[k]]
    BY <1>3, <1>5
  <2>2. DOMAIN P = DOMAIN all \cap live /\ \A k \in DOMAIN P : P[k] = all[k]
    BY <2>1
  <2> QED BY <1>1, <1>2, <2>2 DEF P
<1> QED BY <1>4, <1>5

-----------------------------------------------------------------------------
(* Time only moves forward in the tables.                                   *)

Forward ==
    /\ \A i \in DOMAIN log : i \in DOMAIN log' /\ log'[i] = log[i]
    /\ \A i \in DOMAIN log : i \in hist' => i \in hist
    /\ \A i \in DOMAIN anchors : i \in hist' => i \in DOMAIN anchors' /\ anchors'[i] <= anchors[i]
    /\ \A k : LegacyKept(k)' => LegacyKept(k)
    /\ \A k \in DOMAIN legacyAnchors :
          LegacyKept(k)' => k \in DOMAIN legacyAnchors' /\ legacyAnchors'[k] <= legacyAnchors[k]

LEMMA KeysStay ==
    ASSUME TablesOK, TablesOK', Forward, NEW CONSTANT k, Real(k)
    PROVE  /\ Real(k)' /\ (Retained(k)' => Retained(k))
           /\ \A t \in Time : Retained(k)' /\ Bounded(k, t) => Bounded(k, t)'
<1>1. CASE k.v = Legacy
  <2>1. Real(k)'
    BY <1>1 DEF Real
  <2>2. /\ Retained(k) <=> LegacyKept(Key(k))
        /\ Retained(k)' <=> LegacyKept(Key(k))'
    BY <1>1 DEF Retained, LegacyKept, Key
  <2>3. Retained(k)' => Retained(k)
    BY <2>2 DEF Forward
  <2>4. ASSUME NEW t \in Time, Retained(k)', Bounded(k, t) PROVE Bounded(k, t)'
    <3> SUFFICES ASSUME t < k.at
                 PROVE  Key(k) \in DOMAIN legacyAnchors' /\ legacyAnchors'[Key(k)] <= t
      BY <1>1 DEF Bounded, Key
    <3>1. Key(k) \in DOMAIN legacyAnchors /\ legacyAnchors[Key(k)] <= t
      BY <1>1, <2>4 DEF Bounded
    <3>2. Key(k) \in DOMAIN legacyAnchors' /\ legacyAnchors'[Key(k)] <= legacyAnchors[Key(k)]
      BY <2>2, <2>4, <3>1 DEF Forward
    <3>3. legacyAnchors[Key(k)] \in Nat /\ legacyAnchors'[Key(k)] \in Nat /\ t \in Nat
      BY <3>1, <3>2, Numbers DEF TablesOK
    <3> QED BY <3>1, <3>2, <3>3
  <2> QED BY <2>1, <2>3, <2>4
<1>2. CASE k.v # Legacy
  <2>1. Real(k)' /\ k.v \in DOMAIN log
    BY <1>2 DEF Real, Forward
  <2>2. (Retained(k) <=> k.v \in hist) /\ (Retained(k)' <=> k.v \in hist')
    BY <1>2 DEF Retained
  <2>3. Retained(k)' => Retained(k)
    BY <2>1, <2>2 DEF Forward
  <2>4. ASSUME NEW t \in Time, Retained(k)', Bounded(k, t) PROVE Bounded(k, t)'
    <3> SUFFICES ASSUME t < k.at
                 PROVE  k.v \in DOMAIN anchors' /\ anchors'[k.v] <= t
      BY <1>2 DEF Bounded
    <3>1. k.v \in DOMAIN anchors /\ anchors[k.v] <= t
      BY <1>2, <2>4 DEF Bounded
    <3>2. k.v \in DOMAIN anchors' /\ anchors'[k.v] <= anchors[k.v]
      BY <2>2, <2>4, <3>1 DEF Forward
    <3>3. anchors[k.v] \in Nat /\ anchors'[k.v] \in Nat /\ t \in Nat
      BY <3>1, <3>2, Numbers DEF TablesOK
    <3> QED BY <3>1, <3>2, <3>3
  <2> QED BY <2>1, <2>3, <2>4
<1> QED BY <1>1, <1>2

LEMMA RealId ==
    ASSUME NEW r \in RowType, Real(r)
    PROVE  /\ Real(Id(r)) /\ Id(r) \in Identity /\ Id(r).v = r.v /\ Id(r).at = r.at
           /\ Key(Id(r)) = Key(r) /\ (r.v # Legacy => (Retained(Id(r)) <=> r.v \in hist))
           /\ r.v = Legacy => (Retained(Id(r)) <=> LegacyKept(Key(r)))
           /\ Retained(r) <=> Retained(Id(r))
BY DEF RowType, Real, Id, Identity, Key, Retained, LegacyKept

LEMMA ReaderStays ==
    ASSUME TablesOK, TablesOK', Forward, NEW CONSTANT x, ReaderOK(x)
    PROVE  ReaderOK(x)'
<1>1. ASSUME NEW CONSTANT r \in x.rows
      PROVE  /\ r \in RowType /\ Real(r)'
             /\ Awaited(x, r) => Awaited(x, r)'
             /\ NotYounger(x, r) => NotYounger(x, r)'
             /\ Anchors(x, r) => Anchors(x, r)'
  <2>1. r \in RowType /\ Real(r) /\ Real(Id(r)) /\ r.eff \in Time
    BY RealId DEF ReaderOK, RowType
  <2>2. Retained(Id(r))' => Retained(Id(r))
    BY <2>1, KeysStay
  <2>3. \A t \in Time : Retained(Id(r))' /\ Bounded(Id(r), t) => Bounded(Id(r), t)'
    BY <2>1, KeysStay
  <2>4. Real(r)'
    BY <2>1, KeysStay
  <2>5. Floored(x, Id(r)) => x.floor[Id(r)] \in Time
    BY DEF ReaderOK, Floored
  <2>6. Awaited(x, r) => Awaited(x, r)'
    BY <2>2, <2>3, <2>5 DEF Awaited, Floored, Id
  <2>7. NotYounger(x, r) => NotYounger(x, r)'
    BY <2>2 DEF NotYounger, Floored, Id
  <2>8. Anchors(x, r) => Anchors(x, r)'
    BY <2>1, <2>2, <2>3, <2>7 DEF Anchors, Id
  <2> QED BY <2>1, <2>4, <2>6, <2>7, <2>8
<1>2. AnchorsFell(x) => AnchorsFell(x)'
  <2> SUFFICES ASSUME AnchorsFell(x), NEW i \in DOMAIN x.read
               PROVE  /\ i \in DOMAIN log' /\ x.read[i] \in Time
                      /\ i \in hist' => i \in DOMAIN anchors' /\ anchors'[i] <= x.read[i]
    BY DEF AnchorsFell
  <2>1. i \in DOMAIN log /\ x.read[i] \in Time /\ (i \in hist => i \in DOMAIN anchors /\ anchors[i] <= x.read[i])
    BY DEF AnchorsFell
  <2>2. i \in DOMAIN log' /\ (i \in hist' => i \in hist)
    BY <2>1 DEF Forward
  <2>3. ASSUME i \in hist' PROVE i \in DOMAIN anchors' /\ anchors'[i] <= x.read[i]
    <3>1. i \in DOMAIN anchors' /\ anchors'[i] <= anchors[i]
      BY <2>1, <2>2, <2>3 DEF Forward
    <3>2. anchors'[i] \in Nat /\ anchors[i] \in Nat /\ x.read[i] \in Nat
      BY <2>1, <2>2, <2>3, <3>1, Numbers DEF TablesOK
    <3> QED BY <2>1, <2>2, <2>3, <3>1, <3>2
  <2> QED BY <2>1, <2>2, <2>3
<1>3. LegacyAnchorsFell(x) => LegacyAnchorsFell(x)'
  <2> SUFFICES ASSUME LegacyAnchorsFell(x), NEW CONSTANT k \in DOMAIN x.read
               PROVE  /\ x.read[k] \in Time
                      /\ LegacyKept(k)' => k \in DOMAIN legacyAnchors' /\ legacyAnchors'[k] <= x.read[k]
    BY DEF LegacyAnchorsFell
  <2>1. x.read[k] \in Time /\ (LegacyKept(k) => k \in DOMAIN legacyAnchors /\ legacyAnchors[k] <= x.read[k])
    BY DEF LegacyAnchorsFell
  <2>2. ASSUME LegacyKept(k)' PROVE k \in DOMAIN legacyAnchors' /\ legacyAnchors'[k] <= x.read[k]
    <3>1. k \in DOMAIN legacyAnchors /\ legacyAnchors[k] <= x.read[k]
      BY <2>1, <2>2 DEF Forward
    <3>2. k \in DOMAIN legacyAnchors' /\ legacyAnchors'[k] <= legacyAnchors[k]
      BY <2>2, <3>1 DEF Forward
    <3>3. legacyAnchors'[k] \in Nat /\ legacyAnchors[k] \in Nat /\ x.read[k] \in Nat
      BY <2>1, <3>1, <3>2, Numbers DEF TablesOK
    <3> QED BY <3>1, <3>2, <3>3
  <2> QED BY <2>1, <2>2
<1>4. RowsOK(x) => RowsOK(x)'
  BY <1>1, <1>2, <1>3 DEF RowsOK, Computed
<1> QED BY <1>1, <1>4 DEF ReaderOK

LEMMA RoutedStays ==
    ASSUME TablesOK, TablesOK', Forward, RoutedInv, UNCHANGED routed
    PROVE  RoutedInv'
<1> SUFFICES ASSUME NEW CONSTANT k \in DOMAIN routed
             PROVE  /\ k \in Identity /\ routed[k] \in Time /\ Real(k)'
                    /\ Retained(k)' => Bounded(k, routed[k])'
  BY DEF RoutedInv
<1>1. k \in Identity /\ routed[k] \in Time /\ Real(k) /\ (Retained(k) => Bounded(k, routed[k]))
  BY DEF RoutedInv
<1>2. PICK t \in Time : t = routed[k]
  BY <1>1
<1>3. Retained(k)' => Bounded(k, t)'
  BY <1>1, <1>2, KeysStay
<1>4. Real(k)'
  BY <1>1, KeysStay
<1>5. Bounded(k, t)' => Bounded(k, routed[k])'
  BY <1>2 DEF Bounded
<1> QED BY <1>1, <1>3, <1>4, <1>5

\* The tables an evolution writes before retention.
Newest(batch, c) == CHOOSE k \in DOMAIN batch :
                       batch[k] = c /\ \A j \in DOMAIN batch : batch[j] = c => j <= k
Upserted(batch) == [c \in DOMAIN latest \cup Written(batch) |->
                      IF c \in Written(batch) THEN [v |-> Len(log) + Newest(batch, c), at |-> clock]
                      ELSE latest[c]]
Inserted(batch) == hist \cup (Len(log) + 1) .. (Len(log) + Len(batch))

LEMMA RecordIs ==
    ASSUME NEW batch, Record(batch)
    PROVE  /\ log' = Appended(batch)
           /\ latest' = PruneLatest(Upserted(batch), Inserted(batch), Appended(batch))
           /\ hist' = KeptHistory(latest', Inserted(batch), Appended(batch))
           /\ UNCHANGED <<scenario, clock, jumps, anchors, legacyAnchors, reader, reads, routed>>
BY DEF Record, Appended, Upserted, Inserted, Newest, Written

LEMMA NewestIs ==
    ASSUME NEW batch \in Seq(Configs), NEW c \in Written(batch)
    PROVE  Newest(batch, c) \in DOMAIN batch /\ batch[Newest(batch, c)] = c
<1> DEFINE S == {k \in DOMAIN batch : batch[k] = c}
<1>1. DOMAIN batch = 1 .. Len(batch) /\ Len(batch) \in Nat
  OBVIOUS
<1>2. S \in SUBSET (1 .. Len(batch)) /\ S # {}
  BY <1>1 DEF Written
<1>3. \E t \in S : \A u \in S : u <= t
  <2> HIDE DEF S
  <2> QED BY <1>1, <1>2, GreatestExists
<1> QED BY <1>3 DEF Newest

\* Retention drops rows and adds none.
LEMMA RetentionDrops ==
    ASSUME NEW t, NEW h, NEW l
    PROVE  /\ KeptHistory(t, h, l) \subseteq h
           /\ DOMAIN PruneLatest(t, h, l) \subseteq DOMAIN t
           /\ \A c \in DOMAIN PruneLatest(t, h, l) : PruneLatest(t, h, l)[c] = t[c]
<1>1. \A S, k : Biggest(S, k) \subseteq S
  BY DEF Biggest
<1>2. \A c : Biggest(Ids(h, l, c), PairFloor) \subseteq h
  BY <1>1 DEF Ids
<1>3. KeptHistory(t, h, l) \subseteq h
  BY <1>1, <1>2 DEF KeptHistory
<1> QED BY <1>3 DEF PruneLatest, FirstConfigs

LEMMA RecordMovesForward ==
    ASSUME clock \in Time, TablesOK, NEW batch \in Seq(Configs), Record(batch)
    PROVE  TablesOK' /\ Forward
<1> DEFINE n == Len(log)
           t == Upserted(batch)
           h == Inserted(batch)
<1>1. /\ log' = Appended(batch) /\ anchors' = anchors /\ legacyAnchors' = legacyAnchors
      /\ latest' = PruneLatest(t, h, log') /\ hist' = KeptHistory(latest', h, log')
  BY RecordIs
<1>2. /\ log \in Seq(Entry) /\ hist \subseteq DOMAIN log /\ DOMAIN log = 1 .. n /\ n \in Nat
      /\ Len(batch) \in Nat /\ DOMAIN batch = 1 .. Len(batch)
  BY LogType DEF TablesOK
<1>3. /\ log' \in Seq(Entry) /\ DOMAIN log' = 1 .. n + Len(batch)
      /\ \A i \in DOMAIN log : i \in DOMAIN log' /\ log'[i] = log[i]
      /\ \A i \in DOMAIN log' : i > n => log'[i] = [config |-> batch[i - n], at |-> clock]
  BY <1>1, <1>2, BatchIsAppended, LogType
<1>4. hist' \subseteq hist \cup (n + 1) .. (n + Len(batch))
  BY <1>1, RetentionDrops DEF Inserted
<1>5. ASSUME NEW c \in Written(batch)
      PROVE  t[c] = [v |-> n + Newest(batch, c), at |-> clock] /\ c \in Configs
             /\ n + Newest(batch, c) \in DOMAIN log' /\ n + Newest(batch, c) \in Nat \ {0}
             /\ log'[n + Newest(batch, c)] = [config |-> c, at |-> clock]
  <2>1. Newest(batch, c) \in DOMAIN batch /\ batch[Newest(batch, c)] = c
    BY NewestIs
  <2>2. Newest(batch, c) \in 1 .. Len(batch) /\ c \in Configs
    BY <1>2, <2>1
  <2>3. n + Newest(batch, c) \in DOMAIN log' /\ n + Newest(batch, c) > n
        /\ (n + Newest(batch, c)) - n = Newest(batch, c)
    BY <1>2, <1>3, <2>2
  <2>4. t[c] = [v |-> n + Newest(batch, c), at |-> clock]
    BY DEF Upserted
  <2>5. log'[n + Newest(batch, c)] = [config |-> c, at |-> clock]
    BY <1>3, <2>1, <2>3
  <2> QED BY <1>2, <2>2, <2>3, <2>4, <2>5
<1>6. ASSUME NEW c \in DOMAIN latest'
      PROVE  \/ c \in Written(batch) /\ latest'[c] = t[c]
             \/ c \notin Written(batch) /\ c \in DOMAIN latest /\ latest'[c] = latest[c]
  <2>1. c \in DOMAIN latest \cup Written(batch) /\ latest'[c] = t[c]
    BY <1>1, RetentionDrops DEF Upserted
  <2> QED BY <2>1 DEF Upserted
<1>7. ASSUME NEW c \in DOMAIN latest'
      PROVE  /\ c \in Configs /\ latest'[c] \in Row
             /\ Real([config |-> c, v |-> latest[c].v, at |-> latest[c].at])'
  <2>1. CASE c \in Written(batch)
    <3>1. latest'[c] = [v |-> n + Newest(batch, c), at |-> clock]
      BY <1>5, <1>6, <2>1
    <3> DEFINE v == n + Newest(batch, c)
    <3>2. v \in Nat \ {0} /\ v \in DOMAIN log' /\ log'[v] = [config |-> c, at |-> clock] /\ c \in Configs
      BY <1>5, <2>1
    <3> HIDE DEF v
    <3>3. latest'[c].v = v /\ latest'[c].at = clock
      BY <3>1 DEF v
    <3>4. latest'[c] \in Row
      BY <3>1, <3>2 DEF Row, v
    <3>5. Real([config |-> c, v |-> latest[c].v, at |-> latest[c].at])'
      BY <3>2, <3>3 DEF Real
    <3> QED BY <3>2, <3>4, <3>5
  <2>2. CASE c \notin Written(batch)
    <3>1. c \in DOMAIN latest /\ latest'[c] = latest[c]
      BY <1>6, <2>2
    <3>2. /\ c \in Configs /\ latest[c] \in Row
          /\ Real([config |-> c, v |-> latest[c].v, at |-> latest[c].at])
      BY <3>1 DEF TablesOK
    <3>3. ASSUME latest[c].v # Legacy
          PROVE  latest[c].v \in DOMAIN log' /\ log'[latest[c].v] = [config |-> c, at |-> latest[c].at]
      BY <1>3, <3>2, <3>3 DEF Real
    <3>4. Real([config |-> c, v |-> latest[c].v, at |-> latest[c].at])'
      BY <3>1, <3>3 DEF Real
    <3> QED BY <3>1, <3>2, <3>4
  <2> QED BY <2>1, <2>2
<1>8. TablesOK'
  <2>1. hist' \subseteq DOMAIN log'
    BY <1>2, <1>3, <1>4
  <2>2. DOMAIN latest' \subseteq Configs
    BY <1>7
  <2>3. DOMAIN anchors' \subseteq DOMAIN log' /\ \A i \in DOMAIN anchors' : anchors'[i] \in Time
    BY <1>1, <1>3 DEF TablesOK
  <2>4. /\ DOMAIN legacyAnchors' \subseteq [config : Configs, at : Time]
        /\ \A k \in DOMAIN legacyAnchors' : legacyAnchors'[k] \in Time
    BY <1>1 DEF TablesOK
  <2>5. log' \in Seq(Entry)
    BY <1>3
  <2> HIDE DEF t, h
  <2> QED BY <1>7, <2>1, <2>2, <2>3, <2>4, <2>5 DEF TablesOK
<1>9. Forward
  <2>1. \A i \in DOMAIN log : i \in hist' => i \in hist
    BY <1>2, <1>4
  <2>2. \A i \in DOMAIN anchors : anchors'[i] <= anchors[i]
    <3> SUFFICES ASSUME NEW i \in DOMAIN anchors PROVE anchors'[i] <= anchors[i]
      OBVIOUS
    <3>1. anchors[i] \in Nat
      BY Numbers DEF TablesOK
    <3> QED BY <1>1, <3>1
  <2>3. \A k \in DOMAIN legacyAnchors : legacyAnchors'[k] <= legacyAnchors[k]
    <3> SUFFICES ASSUME NEW k \in DOMAIN legacyAnchors PROVE legacyAnchors'[k] <= legacyAnchors[k]
      OBVIOUS
    <3>1. legacyAnchors[k] \in Nat
      BY Numbers DEF TablesOK
    <3> QED BY <1>1, <3>1
  <2>4. \A k : LegacyKept(k)' => LegacyKept(k)
    <3> SUFFICES ASSUME NEW CONSTANT k, LegacyKept(k)' PROVE LegacyKept(k)
      OBVIOUS
    <3>1. k.config \in DOMAIN latest' /\ latest'[k.config] = [v |-> Legacy, at |-> k.at]
      BY DEF LegacyKept
    <3>2. k.config \notin Written(batch)
      <4> SUFFICES ASSUME k.config \in Written(batch) PROVE FALSE
        OBVIOUS
      <4>1. latest'[k.config] = [v |-> n + Newest(batch, k.config), at |-> clock]
            /\ n + Newest(batch, k.config) # 0
        BY <1>5, <1>6, <3>1
      <4>2. latest'[k.config].v = n + Newest(batch, k.config) /\ latest'[k.config].v = 0
        BY <3>1, <4>1 DEF Legacy
      <4> QED BY <4>1, <4>2
    <3> QED BY <1>6, <3>1, <3>2 DEF LegacyKept
  <2> QED BY <1>1, <1>3, <2>1, <2>2, <2>3, <2>4 DEF Forward
<1> QED BY <1>8, <1>9

LEMMA RecordKeeps ==
    ASSUME clock \in Time, TablesOK, Kept(latest, hist, log), NEW batch \in Seq(Configs),
           Record(batch)
    PROVE  Kept(latest, hist, log)'
<1> DEFINE t == Upserted(batch)
           h == Inserted(batch)
           l == Appended(batch)
<1>1. log' = l /\ latest' = PruneLatest(t, h, l) /\ hist' = KeptHistory(latest', h, l)
  BY RecordIs
<1>2. l \in Seq(Entry) /\ Len(l) = Len(log) + Len(batch) /\ Len(batch) \in Nat
  BY BatchIsAppended DEF TablesOK
<1>3. h \in SUBSET DOMAIN l
  <2>1. hist \subseteq 1 .. Len(log) /\ Len(log) \in Nat /\ DOMAIN l = 1 .. Len(l)
    BY <1>2, LogType DEF TablesOK
  <2>2. h = hist \cup (Len(log) + 1) .. (Len(log) + Len(batch))
    BY DEF Inserted
  <2> HIDE DEF l, h
  <2> SUFFICES ASSUME NEW i \in h PROVE i \in 1 .. Len(l)
    BY <2>1
  <2> QED BY <1>2, <2>1, <2>2
<1>4. Timed(t)
  <2>1. DOMAIN t = DOMAIN latest \cup Written(batch)
    BY DEF Upserted
  <2>2. Written(batch) \subseteq Configs /\ DOMAIN latest \subseteq Configs
    BY DEF Written, TablesOK
  <2>3. ASSUME NEW c \in DOMAIN t PROVE t[c].at \in Nat
    <3>1. CASE c \in Written(batch)
      BY <3>1, Numbers DEF Upserted
    <3>2. CASE c \notin Written(batch)
      <4>1. t[c] = latest[c] /\ c \in DOMAIN latest
        BY <2>1, <3>2 DEF Upserted
      <4>2. latest[c].at \in Time
        BY <4>1 DEF TablesOK, Row
      <4> QED BY <4>1, <4>2, Numbers
    <3> QED BY <3>1, <3>2
  <2> QED BY <2>1, <2>2, <2>3 DEF Timed
<1>5. Kept(t, h, l)
  <2>1. DOMAIN t = DOMAIN latest \cup Written(batch)
    BY DEF Upserted
  <2>2. log \in Seq(Entry)
    BY DEF TablesOK
  <2> HIDE DEF t
  <2> QED BY <2>1, <2>2, BatchIsKept DEF Inserted
<1> HIDE DEF t, h, l
<1>6. Kept(PruneLatest(t, h, l), KeptHistory(PruneLatest(t, h, l), h, l), l)
  BY <1>2, <1>3, <1>4, <1>5, RetentionKeeps
<1> QED BY <1>1, <1>6

-----------------------------------------------------------------------------
(* Writing anchors moves them forward in time only.                         *)

LEMMA StillForward ==
    ASSUME TablesOK, UNCHANGED <<log, hist, latest, anchors, legacyAnchors>>
    PROVE  TablesOK' /\ Forward
<1>1. TablesOK'
  BY DEF TablesOK, Real
<1>2. \A i \in DOMAIN anchors : anchors[i] <= anchors[i]
  <2> SUFFICES ASSUME NEW i \in DOMAIN anchors PROVE anchors[i] <= anchors[i]
    OBVIOUS
  <2>1. anchors[i] \in Nat
    BY Numbers DEF TablesOK
  <2> QED BY <2>1
<1>3. \A k \in DOMAIN legacyAnchors : legacyAnchors[k] <= legacyAnchors[k]
  <2> SUFFICES ASSUME NEW k \in DOMAIN legacyAnchors PROVE legacyAnchors[k] <= legacyAnchors[k]
    OBVIOUS
  <2>1. legacyAnchors[k] \in Nat
    BY Numbers DEF TablesOK
  <2> QED BY <2>1
<1> QED BY <1>1, <1>2, <1>3 DEF Forward, LegacyKept

LEMMA AnchoringMovesForward ==
    ASSUME TablesOK, NEW read, NEW at, NEW now \in Time,
           anchors' = Persisted(anchors, read, at, now, hist),
           UNCHANGED <<log, hist, latest, legacyAnchors>>
    PROVE  TablesOK' /\ Forward
<1>1. \A i \in DOMAIN anchors : anchors[i] \in Time
  BY DEF TablesOK
<1>2. /\ \A i \in DOMAIN anchors' : anchors'[i] \in Time /\ (i \in DOMAIN anchors \/ i \in hist)
      /\ \A i \in hist : i \in DOMAIN anchors => i \in DOMAIN anchors' /\ anchors'[i] <= anchors[i]
  BY <1>1, PersistedIs
<1>3. TablesOK'
  <2>1. DOMAIN anchors' \subseteq DOMAIN log
    BY <1>2 DEF TablesOK
  <2> QED BY <1>2, <2>1 DEF TablesOK, Real
<1>4. \A k \in DOMAIN legacyAnchors : legacyAnchors[k] <= legacyAnchors[k]
  <2> SUFFICES ASSUME NEW k \in DOMAIN legacyAnchors PROVE legacyAnchors[k] <= legacyAnchors[k]
    OBVIOUS
  <2>1. legacyAnchors[k] \in Nat
    BY Numbers DEF TablesOK
  <2> QED BY <2>1
<1> QED BY <1>2, <1>3, <1>4 DEF Forward, LegacyKept

LEMMA LegacyAnchoringMovesForward ==
    ASSUME TablesOK, NEW read, NEW at, NEW now \in Time,
           \/ legacyAnchors' = legacyAnchors
           \/ legacyAnchors' = Persisted(legacyAnchors, read, at, now, LiveKeys),
           UNCHANGED <<log, hist, latest, anchors>>
    PROVE  TablesOK' /\ Forward
<1>1. CASE legacyAnchors' = legacyAnchors
  BY <1>1, StillForward
<1>2. CASE legacyAnchors' = Persisted(legacyAnchors, read, at, now, LiveKeys)
  <2>1. \A k \in DOMAIN legacyAnchors : legacyAnchors[k] \in Time
    BY DEF TablesOK
  <2>2. /\ \A k \in DOMAIN legacyAnchors' :
              legacyAnchors'[k] \in Time /\ (k \in DOMAIN legacyAnchors \/ k \in LiveKeys)
        /\ \A k \in LiveKeys : k \in DOMAIN legacyAnchors =>
              k \in DOMAIN legacyAnchors' /\ legacyAnchors'[k] <= legacyAnchors[k]
    BY <1>2, <2>1, PersistedIs
  <2>3. LiveKeys \subseteq [config : Configs, at : Time]
    <3> SUFFICES ASSUME NEW c \in DOMAIN latest
                 PROVE  [config |-> c, at |-> latest[c].at] \in [config : Configs, at : Time]
      BY DEF LiveKeys
    <3>1. c \in Configs /\ latest[c] \in Row
      BY DEF TablesOK
    <3>2. latest[c].at \in Time
      BY <3>1 DEF Row
    <3> QED BY <3>1, <3>2
  <2>4. TablesOK'
    <3>1. DOMAIN legacyAnchors' \subseteq [config : Configs, at : Time]
      BY <2>2, <2>3 DEF TablesOK
    <3> QED BY <2>2, <3>1 DEF TablesOK, Real
  <2>5. \A k \in DOMAIN legacyAnchors : LegacyKept(k) => k \in LiveKeys
    <3> SUFFICES ASSUME NEW k \in DOMAIN legacyAnchors, LegacyKept(k) PROVE k \in LiveKeys
      OBVIOUS
    <3>1. k \in [config : Configs, at : Time]
      BY DEF TablesOK
    <3>2. k.config \in DOMAIN latest /\ latest[k.config].at = k.at
      BY DEF LegacyKept
    <3>3. k = [config |-> k.config, at |-> latest[k.config].at]
      BY <3>1, <3>2
    <3> QED BY <3>2, <3>3 DEF LiveKeys
  <2>6. \A i \in DOMAIN anchors : anchors[i] <= anchors[i]
    <3> SUFFICES ASSUME NEW i \in DOMAIN anchors PROVE anchors[i] <= anchors[i]
      OBVIOUS
    <3>1. anchors[i] \in Nat
      BY Numbers DEF TablesOK
    <3> QED BY <3>1
  <2> QED BY <2>2, <2>4, <2>5, <2>6 DEF Forward, LegacyKept
<1> QED BY <1>1, <1>2

\* A live row keeps its legacy anchor key.
LEMMA LegacyIsLive ==
    ASSUME NEW r \in RowType, LegacyKept(Key(r))
    PROVE  Key(r) \in LiveKeys
BY DEF LegacyKept, Key, LiveKeys

-----------------------------------------------------------------------------
(* The steps of a reader.                                                   *)

LEMMA ReadersStay ==
    ASSUME TablesOK, TablesOK', Forward, ReadersInv, NEW p \in Readers, NEW CONSTANT y,
           reader' = [reader EXCEPT ![p] = y], ReaderOK(y)'
    PROVE  ReadersInv'
<1>1. reader' = [q \in Readers |-> reader'[q]] /\ reader'[p] = y
      /\ \A q \in Readers : q # p => reader'[q] = reader[q]
  BY DEF ReadersInv
<1>2. ASSUME NEW CONSTANT q \in Readers PROVE ReaderOK(reader[q])'
  <2>1. CASE q = p
    BY <1>1, <2>1
  <2>2. CASE q # p
    <3>1. PICK x : x = reader[q]
      OBVIOUS
    <3>2. ReaderOK(x)
      BY <3>1 DEF ReadersInv
    <3>3. ReaderOK(x)'
      BY <3>2, ReaderStays
    <3>4. reader'[q] = x
      BY <1>1, <2>2, <3>1
    <3> QED BY <3>3, <3>4
  <2> QED BY <2>1, <2>2
<1> QED BY <1>1, <1>2 DEF ReadersInv

LEMMA ReadersSame ==
    ASSUME TablesOK, TablesOK', Forward, ReadersInv, UNCHANGED reader
    PROVE  ReadersInv'
<1>1. ASSUME NEW CONSTANT q \in Readers PROVE ReaderOK(reader[q])'
  <2>1. PICK x : x = reader[q]
    OBVIOUS
  <2>2. ReaderOK(x)
    BY <2>1 DEF ReadersInv
  <2>3. ReaderOK(x)'
    BY <2>2, ReaderStays
  <2> QED BY <2>1, <2>3
<1> QED BY <1>1 DEF ReadersInv

LEMMA SnapshotStep ==
    ASSUME TablesOK, RoutedInv, ReadersInv, NEW p \in Readers, ReadSnapshot(p)
    PROVE  ReadersInv'
<1> DEFINE current    == FirstConfigs(latest, hist, log, ReadBudget)
           version(c) == IF latest[c].v = Commit(hist, log, c) THEN latest[c].v ELSE Legacy
           clocks     == [i \in hist |-> log[i].at]
           rows       == {Untimed(c, version(c), latest[c].at) : c \in current}
                         \cup {Untimed(log[i].config, i, log[i].at) :
                                 i \in {j \in hist : log[j].config \in current}}
<1>1. reader' = [reader EXCEPT ![p] = [Idle EXCEPT !.pc = "anchor", !.floor = routed,
                                                   !.clocks = clocks, !.rows = rows]]
  BY DEF ReadSnapshot
<1>2. UNCHANGED <<log, hist, latest, anchors, legacyAnchors, routed>>
  BY DEF ReadSnapshot
<1>3. TablesOK' /\ Forward
  BY <1>2, StillForward
<1>4. log \in Seq(Entry) /\ hist \subseteq DOMAIN log /\ current \subseteq DOMAIN latest
  BY DEF TablesOK, FirstConfigs
<1>5. ASSUME NEW i \in hist
      PROVE  /\ log[i] \in Entry /\ i \in Nat
             /\ clocks[i] = log[i].at /\ i \in DOMAIN clocks
  BY <1>4, LogType
<1>6. ASSUME NEW r \in rows
      PROVE  /\ r \in RowType /\ Real(r)
             /\ r.v # Legacy => r.v \in DOMAIN clocks /\ clocks[r.v] = r.at
  <2>1. CASE \E c \in current : r = Untimed(c, version(c), latest[c].at)
    <3>1. PICK c \in current : r = Untimed(c, version(c), latest[c].at)
      BY <2>1
    <3>2. latest[c] \in Row /\ Real([config |-> c, v |-> latest[c].v, at |-> latest[c].at])
          /\ c \in Configs
      BY <1>4 DEF TablesOK
    <3>3. r.config = c /\ r.v = version(c) /\ r.at = latest[c].at /\ r.eff = r.at
          /\ r = [config |-> c, v |-> version(c), at |-> latest[c].at, eff |-> latest[c].at]
      BY <3>1 DEF Untimed
    <3>4. version(c) \in Nat
      BY <3>2 DEF Row, Legacy
    <3>5. r \in RowType
      BY <3>2, <3>3, <3>4 DEF RowType, Row
    <3>6. ASSUME r.v # Legacy
          PROVE  r.v \in hist /\ log[r.v] = [config |-> r.config, at |-> r.at]
      <4>1. r.v = latest[c].v /\ r.v = Commit(hist, log, c)
        BY <3>3, <3>6
      <4>2. Commit(hist, log, c) \in Ids(hist, log, c)
        BY <1>4, <3>6, <4>1, CommitIs DEF Legacy
      <4>3. r.v \in hist
        BY <4>1, <4>2 DEF Ids
      <4>4. log[r.v] = [config |-> c, at |-> latest[c].at]
        BY <3>2, <3>6, <4>1 DEF Real
      <4> QED BY <3>3, <4>3, <4>4
    <3>7. Real(r)
      BY <1>4, <3>6 DEF Real
    <3>8. ASSUME r.v # Legacy PROVE r.v \in DOMAIN clocks /\ clocks[r.v] = r.at
      BY <1>5, <3>6, <3>8
    <3> QED BY <3>5, <3>7, <3>8
  <2>2. CASE \E i \in {j \in hist : log[j].config \in current} :
                r = Untimed(log[i].config, i, log[i].at)
    <3>1. PICK i \in hist : r = Untimed(log[i].config, i, log[i].at)
      BY <2>2
    <3>2. log[i] \in Entry /\ i \in Nat /\ i \in DOMAIN log
      BY <1>4, <1>5
    <3>3. r.config = log[i].config /\ r.v = i /\ r.at = log[i].at
          /\ r = [config |-> log[i].config, v |-> i, at |-> log[i].at, eff |-> log[i].at]
      BY <3>1 DEF Untimed
    <3>4. r \in RowType
      BY <3>2, <3>3 DEF RowType, Entry
    <3>5. log[i] = [config |-> log[i].config, at |-> log[i].at]
      BY <3>2 DEF Entry
    <3>6. Real(r)
      BY <3>2, <3>3, <3>5 DEF Real
    <3>7. r.v \in DOMAIN clocks /\ clocks[r.v] = r.at
      BY <1>5, <3>3
    <3> QED BY <3>4, <3>6, <3>7
  <2> QED BY <2>1, <2>2
<1> HIDE DEF clocks, rows, current, version
<1>7. PICK y : y = [Idle EXCEPT !.pc = "anchor", !.floor = routed, !.clocks = clocks,
                                !.rows = rows]
  OBVIOUS
<1>8. reader' = [reader EXCEPT ![p] = y]
  BY <1>1, <1>7
<1>9. y.pc = "anchor" /\ y.rows = rows /\ y.clocks = clocks /\ y.now = 1 /\ y.floor = routed
  BY <1>7 DEF Idle
<1>10. Shape(y)
  <2>1. DOMAIN Idle = Held
    BY DEF Idle, Held
  <2>2. DOMAIN y = Held /\ y = [k \in DOMAIN y |-> y[k]]
    BY <1>7, <2>1
  <2> QED BY <2>2 DEF Shape
<1>11. ASSUME NEW r \in rows PROVE Awaited(y, r)
  <2>1. Id(r) \in DOMAIN routed /\ Retained(Id(r)) => Bounded(Id(r), routed[Id(r)])
    BY DEF RoutedInv
  <2> QED BY <1>9, <2>1 DEF Awaited, Floored
<1>12. 1 \in Time /\ \A k \in DOMAIN routed : routed[k] \in Time
  BY Numbers DEF RoutedInv, Time
<1>13. RowsOK(y)
  BY <1>9, <1>11 DEF RowsOK
<1>14. ReaderOK(y)
  BY <1>6, <1>9, <1>10, <1>12, <1>13 DEF ReaderOK
<1>15. ReaderOK(y)'
  BY <1>3, <1>14, ReaderStays
<1> QED BY <1>3, <1>8, <1>15, ReadersStay

LEMMA ReadAnchorsStep ==
    ASSUME clock \in Time, TablesOK, ReadersInv, NEW p \in Readers, ReadAnchors(p)
    PROVE  ReadersInv'
<1> DEFINE timed(r) == IF r.v = Legacy THEN r
                       ELSE [r EXCEPT !.eff = Effective(r.at, anchors, r.v, clock)]
           rows     == {timed(r) : r \in reader[p].rows}
<1>1. PICK x : x = reader[p]
  OBVIOUS
<1>2. ReaderOK(x) /\ x.pc = "anchor" /\ Shape(x) /\ reader = [q \in Readers |-> reader[q]]
  BY <1>1 DEF ReadersInv, ReadAnchors, ReaderOK
<1>3. UNCHANGED <<log, hist, latest, anchors, legacyAnchors>>
  BY DEF ReadAnchors
<1>4. TablesOK' /\ Forward
  BY <1>3, StillForward
<1>5. ASSUME NEW s \in rows
      PROVE  /\ s \in RowType /\ Real(s)
             /\ s.v # Legacy => s.v \in DOMAIN x.clocks /\ x.clocks[s.v] = s.at
             /\ s.v = Legacy => Awaited(x, s)
             /\ s.v # Legacy => /\ s.eff = Effective(s.at, anchors, s.v, clock)
                                /\ NotYounger(x, s)
  <2>1. PICK r \in x.rows : s = timed(r)
    BY <1>1
  <2>2. /\ r \in RowType /\ Real(r) /\ Awaited(x, r)
        /\ r.v # Legacy => r.v \in DOMAIN x.clocks /\ x.clocks[r.v] = r.at
    BY <1>2 DEF ReaderOK, RowsOK
  <2>3. CASE r.v = Legacy
    BY <2>1, <2>2, <2>3
  <2>4. CASE r.v # Legacy
    <3> DEFINE e == Effective(r.at, anchors, r.v, clock)
    <3>1. s = [r EXCEPT !.eff = e]
      BY <2>1, <2>4
    <3>2. r \in RowType /\ r.at \in Time
      BY <2>2 DEF RowType
    <3>3. /\ e \in Time /\ e <= r.at /\ (r.v \in DOMAIN anchors => e <= anchors[r.v])
          /\ r.v \in DOMAIN anchors => anchors[r.v] \in Time
      BY <3>2, EffectiveIs DEF TablesOK
    <3> HIDE DEF e
    <3>4. /\ s \in RowType /\ s.v = r.v /\ s.at = r.at /\ s.config = r.config /\ s.eff = e
      BY <3>1, <3>2, <3>3 DEF RowType
    <3>5. Real(s) /\ Id(s) = Id(r) /\ Id(r).v = r.v /\ Id(r).at = r.at
      BY <2>2, <3>4 DEF Real, Id
    <3>6. NotYounger(x, s)
      <4> SUFFICES ASSUME Retained(Id(r)), Floored(x, Id(r)) PROVE e <= x.floor[Id(r)]
        BY <3>4, <3>5 DEF NotYounger
      <4>1. Bounded(Id(r), x.floor[Id(r)])
        BY <2>2 DEF Awaited
      <4>2. x.floor[Id(r)] \in Time
        BY <1>2 DEF ReaderOK, Floored
      <4>3. CASE x.floor[Id(r)] < r.at
        <5>1. r.v \in DOMAIN anchors /\ anchors[r.v] <= x.floor[Id(r)]
          BY <2>4, <3>5, <4>1, <4>3 DEF Bounded
        <5>2. e \in Nat /\ anchors[r.v] \in Nat /\ x.floor[Id(r)] \in Nat
          BY <3>3, <4>2, <5>1, Numbers
        <5> QED BY <3>3, <5>1, <5>2
      <4>4. CASE ~(x.floor[Id(r)] < r.at)
        <5>1. e \in Nat /\ r.at \in Nat /\ x.floor[Id(r)] \in Nat
          BY <3>2, <3>3, <4>2, Numbers
        <5> QED BY <3>3, <4>4, <5>1
      <4> QED BY <4>3, <4>4
    <3>7. s.eff = Effective(s.at, anchors, s.v, clock)
      BY <3>4 DEF e
    <3> QED BY <2>2, <2>4, <3>4, <3>5, <3>6, <3>7
  <2> QED BY <2>3, <2>4
<1> HIDE DEF rows
<1>6. PICK y : y = [x EXCEPT !.pc = "persist", !.now = clock, !.read = anchors, !.rows = rows]
  OBVIOUS
<1>7. reader' = [reader EXCEPT ![p] = y]
  <2>1. reader' = [reader EXCEPT ![p].pc = "persist", ![p].now = clock, ![p].read = anchors,
                                 ![p].rows = rows]
    BY DEF ReadAnchors, rows
  <2> QED BY <1>1, <1>2, <1>6, <2>1
<1>8. /\ y.pc = "persist" /\ y.rows = rows /\ y.clocks = x.clocks /\ y.now = clock
      /\ y.floor = x.floor /\ y.read = anchors
  BY <1>2, <1>6 DEF Shape, Held
<1>9. Shape(y)
  <2>1. DOMAIN x = Held
    BY <1>2 DEF Shape
  <2>2. DOMAIN y = Held /\ y = [k \in DOMAIN y |-> y[k]]
    BY <1>6, <2>1
  <2> QED BY <2>2 DEF Shape
<1>10. AnchorsFell(y)
  <2>1. \A i \in DOMAIN anchors : anchors[i] \in Time /\ i \in DOMAIN log /\ anchors[i] <= anchors[i]
    <3> SUFFICES ASSUME NEW i \in DOMAIN anchors
                 PROVE  anchors[i] \in Time /\ i \in DOMAIN log /\ anchors[i] <= anchors[i]
      OBVIOUS
    <3>1. anchors[i] \in Time /\ anchors[i] \in Nat /\ i \in DOMAIN log
      BY Numbers DEF TablesOK
    <3> QED BY <3>1
  <2> QED BY <1>8, <2>1 DEF AnchorsFell
<1>11. RowsOK(y)
  BY <1>5, <1>8, <1>10 DEF RowsOK, Awaited, NotYounger, Floored, Computed
<1>12. ReaderOK(y)
  BY <1>2, <1>5, <1>8, <1>9, <1>11 DEF ReaderOK
<1>13. ReaderOK(y)'
  BY <1>4, <1>12, ReaderStays
<1> QED BY <1>4, <1>7, <1>13, ReadersStay

\* A row whose age was computed from the anchors is bounded once they are written.
LEMMA AnchoredIsBounded ==
    ASSUME NEW r \in RowType, r.v # Legacy, NEW read, NEW clocks, NEW now \in Time,
           \A i \in DOMAIN anchors : anchors[i] \in Time,
           r.eff = Effective(r.at, read, r.v, now),
           r.v \in DOMAIN read => read[r.v] \in Time,
           r.v \in DOMAIN clocks /\ clocks[r.v] = r.at, r.v \in hist,
           r.v \in DOMAIN read => r.v \in DOMAIN anchors' /\ anchors'[r.v] <= read[r.v],
           anchors' = Persisted(anchors, read, clocks, now, hist), hist' = hist
    PROVE  Bounded(Id(r), r.eff)'
<1>1. r.at \in Time /\ r.eff \in Time /\ Id(r).v = r.v /\ Id(r).at = r.at
  BY DEF RowType, Id
<1> SUFFICES ASSUME r.eff < r.at PROVE r.v \in DOMAIN anchors' /\ anchors'[r.v] <= r.eff
  BY <1>1 DEF Bounded, Id
<1>2. \/ r.v \in DOMAIN read /\ read[r.v] = r.eff
      \/ r.at > now /\ r.eff = now /\ (r.v \in DOMAIN read => read[r.v] > now)
  <2> DEFINE e == Effective(r.at, read, r.v, now)
  <2>1. e < r.at => \/ r.v \in DOMAIN read /\ read[r.v] = e
                    \/ r.at > now /\ e = now /\ (r.v \in DOMAIN read => read[r.v] > now)
    BY <1>1, EffectiveIs
  <2>2. r.eff = e
    OBVIOUS
  <2> HIDE DEF e
  <2> QED BY <2>1, <2>2
<1>3. CASE r.v \in DOMAIN read /\ read[r.v] = r.eff
  BY <1>3
<1>4. CASE r.at > now /\ r.eff = now /\ (r.v \in DOMAIN read => read[r.v] > now)
  <2>1. \A i \in hist \cap DOMAIN clocks :
           clocks[i] > now /\ (i \in DOMAIN read => read[i] > now)
              => i \in DOMAIN anchors' /\ anchors'[i] <= now
    BY PersistedIs
  <2> QED BY <1>4, <2>1
<1> QED BY <1>2, <1>3, <1>4

LEMMA PersistAnchorsStep ==
    ASSUME TablesOK, ReadersInv, NEW p \in Readers, PersistAnchors(p)
    PROVE  TablesOK' /\ Forward /\ ReadersInv'
<1>1. PICK x : x = reader[p]
  OBVIOUS
<1>2. ReaderOK(x) /\ x.pc = "persist" /\ Shape(x) /\ reader = [q \in Readers |-> reader[q]]
      /\ x.now \in Time
  BY <1>1 DEF ReadersInv, PersistAnchors, ReaderOK
<1>3. /\ anchors' = Persisted(anchors, x.read, x.clocks, x.now, hist)
      /\ UNCHANGED <<log, hist, latest, legacyAnchors>>
  BY <1>1 DEF PersistAnchors
<1>4. TablesOK' /\ Forward
  BY <1>2, <1>3, AnchoringMovesForward
<1>5. ReaderOK(x)'
  BY <1>2, <1>4, ReaderStays
<1>6. AnchorsFell(x)' /\ RowsOK(x)'
  BY <1>2, <1>5 DEF ReaderOK, RowsOK
<1>7. ASSUME NEW CONSTANT r \in x.rows
      PROVE  IF r.v = Legacy THEN Awaited(x, r)' ELSE Anchors(x, r)'
  <2>1. r \in RowType
    BY <1>2 DEF ReaderOK
  <2>2. CASE r.v = Legacy
    BY <1>2, <1>6, <2>2 DEF RowsOK
  <2>3. CASE r.v # Legacy
    <3>1. r.eff = Effective(r.at, x.read, r.v, x.now) /\ NotYounger(x, r)'
      BY <1>2, <1>6, <2>3 DEF RowsOK, Computed
    <3>2. r.v \in DOMAIN x.clocks /\ x.clocks[r.v] = r.at
      BY <1>2, <2>3 DEF ReaderOK
    <3>3. ASSUME Retained(Id(r))' PROVE Bounded(Id(r), r.eff)'
      <4>1. r.v \in hist
        BY <1>3, <2>3, <3>3 DEF Retained, Id
      <4>2. r.v \in DOMAIN x.read => /\ x.read[r.v] \in Time
                                     /\ r.v \in DOMAIN anchors' /\ anchors'[r.v] <= x.read[r.v]
        BY <1>3, <1>6, <4>1 DEF AnchorsFell
      <4>3. \A i \in DOMAIN anchors : anchors[i] \in Time
        BY DEF TablesOK
      <4> QED BY <1>2, <1>3, <2>1, <2>3, <3>1, <3>2, <4>1, <4>2, <4>3, AnchoredIsBounded
    <3> QED BY <2>3, <3>1, <3>3 DEF Anchors, Id
  <2> QED BY <2>2, <2>3
<1>8. PICK y : y = [x EXCEPT !.pc = "legacy", !.clocks = <<>>]
  OBVIOUS
<1>9. reader' = [reader EXCEPT ![p] = y]
  <2>1. reader' = [reader EXCEPT ![p].pc = "legacy", ![p].clocks = <<>>]
    BY DEF PersistAnchors
  <2> QED BY <1>1, <1>2, <1>8, <2>1
<1>10. y.pc = "legacy" /\ y.rows = x.rows /\ y.now = x.now /\ y.floor = x.floor
  BY <1>2, <1>8 DEF Shape, Held
<1>11. Shape(y)
  <2>1. DOMAIN x = Held
    BY <1>2 DEF Shape
  <2>2. DOMAIN y = Held /\ y = [k \in DOMAIN y |-> y[k]]
    BY <1>8, <2>1
  <2> QED BY <2>2 DEF Shape
<1>12. RowsOK(y)'
  <2>1. \A r \in y.rows : IF r.v = Legacy THEN Awaited(y, r)' ELSE Anchors(y, r)'
    BY <1>7, <1>10 DEF Awaited, Anchors, NotYounger, Floored
  <2> QED BY <1>10, <2>1 DEF RowsOK
<1>13. ReaderOK(y)'
  BY <1>5, <1>10, <1>11, <1>12 DEF ReaderOK
<1> QED BY <1>4, <1>9, <1>13, ReadersStay

LEMMA ReadLegacyAnchorsStep ==
    ASSUME clock \in Time, TablesOK, ReadersInv, NEW p \in Readers, ReadLegacyAnchors(p)
    PROVE  ReadersInv'
<1> DEFINE timed(r) == IF r.v # Legacy THEN r
                       ELSE [r EXCEPT !.eff = Effective(r.at, legacyAnchors, Key(r), clock)]
           rows     == {timed(r) : r \in reader[p].rows}
<1>1. PICK x : x = reader[p]
  OBVIOUS
<1>2. ReaderOK(x) /\ x.pc = "legacy" /\ Shape(x) /\ reader = [q \in Readers |-> reader[q]]
  BY <1>1 DEF ReadersInv, ReadLegacyAnchors, ReaderOK
<1>3. UNCHANGED <<log, hist, latest, anchors, legacyAnchors>>
  BY DEF ReadLegacyAnchors
<1>4. TablesOK' /\ Forward
  BY <1>3, StillForward
<1>5. ASSUME NEW s \in rows
      PROVE  /\ s \in RowType /\ Real(s)
             /\ s.v # Legacy => Anchors(x, s)
             /\ s.v = Legacy => /\ s.eff = Effective(s.at, legacyAnchors, Key(s), clock)
                                /\ NotYounger(x, s)
  <2>1. PICK r \in x.rows : s = timed(r)
    BY <1>1
  <2>2. /\ r \in RowType /\ Real(r)
        /\ IF r.v = Legacy THEN Awaited(x, r) ELSE Anchors(x, r)
    BY <1>2 DEF ReaderOK, RowsOK
  <2>3. CASE r.v # Legacy
    BY <2>1, <2>2, <2>3
  <2>4. CASE r.v = Legacy
    <3> DEFINE e == Effective(r.at, legacyAnchors, Key(r), clock)
    <3>1. s = [r EXCEPT !.eff = e]
      BY <2>1, <2>4
    <3>2. r \in RowType /\ r.at \in Time
      BY <2>2 DEF RowType
    <3>3. /\ e \in Time /\ e <= r.at
          /\ Key(r) \in DOMAIN legacyAnchors => e <= legacyAnchors[Key(r)]
          /\ Key(r) \in DOMAIN legacyAnchors => legacyAnchors[Key(r)] \in Time
      BY <3>2, EffectiveIs DEF TablesOK
    <3> HIDE DEF e
    <3>4. /\ s \in RowType /\ s.v = r.v /\ s.at = r.at /\ s.config = r.config /\ s.eff = e
      BY <3>1, <3>2, <3>3 DEF RowType
    <3>5. Real(s) /\ Id(s) = Id(r) /\ Id(r).v = r.v /\ Id(r).at = r.at
      BY <2>2, <3>4 DEF Real, Id
    <3>6. Key(s) = Key(r) /\ Key(Id(r)) = Key(r)
      BY <3>4 DEF Key, Id
    <3>7. NotYounger(x, s)
      <4> SUFFICES ASSUME Retained(Id(r)), Floored(x, Id(r)) PROVE e <= x.floor[Id(r)]
        BY <3>4, <3>5 DEF NotYounger
      <4>1. Bounded(Id(r), x.floor[Id(r)])
        BY <2>2, <2>4 DEF Awaited
      <4>2. x.floor[Id(r)] \in Time
        BY <1>2 DEF ReaderOK, Floored
      <4>3. CASE x.floor[Id(r)] < r.at
        <5>1. Key(r) \in DOMAIN legacyAnchors /\ legacyAnchors[Key(r)] <= x.floor[Id(r)]
          BY <2>4, <3>5, <3>6, <4>1, <4>3 DEF Bounded
        <5>2. e \in Nat /\ legacyAnchors[Key(r)] \in Nat /\ x.floor[Id(r)] \in Nat
          BY <3>3, <4>2, <5>1, Numbers
        <5> QED BY <3>3, <5>1, <5>2
      <4>4. CASE ~(x.floor[Id(r)] < r.at)
        <5>1. e \in Nat /\ r.at \in Nat /\ x.floor[Id(r)] \in Nat
          BY <3>2, <3>3, <4>2, Numbers
        <5> QED BY <3>3, <4>4, <5>1
      <4> QED BY <4>3, <4>4
    <3>8. s.eff = Effective(s.at, legacyAnchors, Key(s), clock)
      BY <3>4, <3>6 DEF e
    <3> QED BY <2>2, <2>4, <3>4, <3>5, <3>7, <3>8
  <2> QED BY <2>3, <2>4
<1> HIDE DEF rows
<1>6. PICK y : y = [x EXCEPT !.pc = "settle", !.now = clock, !.read = legacyAnchors, !.rows = rows]
  OBVIOUS
<1>7. reader' = [reader EXCEPT ![p] = y]
  <2>1. reader' = [reader EXCEPT ![p].pc = "settle", ![p].now = clock, ![p].read = legacyAnchors,
                                 ![p].rows = rows]
    BY DEF ReadLegacyAnchors, rows
  <2> QED BY <1>1, <1>2, <1>6, <2>1
<1>8. /\ y.pc = "settle" /\ y.rows = rows /\ y.now = clock
      /\ y.floor = x.floor /\ y.read = legacyAnchors
  BY <1>2, <1>6 DEF Shape, Held
<1>9. Shape(y)
  <2>1. DOMAIN x = Held
    BY <1>2 DEF Shape
  <2>2. DOMAIN y = Held /\ y = [k \in DOMAIN y |-> y[k]]
    BY <1>6, <2>1
  <2> QED BY <2>2 DEF Shape
<1>10. LegacyAnchorsFell(y)
  <2>1. \A k \in DOMAIN legacyAnchors : legacyAnchors[k] \in Time /\ legacyAnchors[k] <= legacyAnchors[k]
    <3> SUFFICES ASSUME NEW k \in DOMAIN legacyAnchors
                 PROVE  legacyAnchors[k] \in Time /\ legacyAnchors[k] <= legacyAnchors[k]
      OBVIOUS
    <3>1. legacyAnchors[k] \in Time /\ legacyAnchors[k] \in Nat
      BY Numbers DEF TablesOK
    <3> QED BY <3>1
  <2> QED BY <1>8, <2>1 DEF LegacyAnchorsFell
<1>11. RowsOK(y)
  BY <1>5, <1>8, <1>10 DEF RowsOK, Anchors, NotYounger, Floored, Computed
<1>12. ReaderOK(y)
  BY <1>2, <1>5, <1>8, <1>9, <1>11 DEF ReaderOK
<1>13. ReaderOK(y)'
  BY <1>4, <1>12, ReaderStays
<1> QED BY <1>4, <1>7, <1>13, ReadersStay

LEMMA LegacyIsBounded ==
    ASSUME NEW r \in RowType, r.v = Legacy, NEW read, NEW times, NEW now \in Time,
           \A k \in DOMAIN legacyAnchors : legacyAnchors[k] \in Time,
           r.eff = Effective(r.at, read, Key(r), now),
           Key(r) \in DOMAIN read => read[Key(r)] \in Time,
           Key(r) \in DOMAIN times /\ times[Key(r)] = r.at, Key(r) \in LiveKeys,
           Key(r) \in DOMAIN read => /\ Key(r) \in DOMAIN legacyAnchors'
                                     /\ legacyAnchors'[Key(r)] <= read[Key(r)],
           legacyAnchors' = Persisted(legacyAnchors, read, times, now, LiveKeys)
    PROVE  Bounded(Id(r), r.eff)'
<1>1. r.at \in Time /\ r.eff \in Time /\ Id(r).v = Legacy /\ Id(r).at = r.at /\ Key(Id(r)) = Key(r)
  BY DEF RowType, Id, Key
<1> DEFINE k == Key(r)
<1> SUFFICES ASSUME r.eff < r.at PROVE k \in DOMAIN legacyAnchors' /\ legacyAnchors'[k] <= r.eff
  BY <1>1 DEF Bounded, Id, Key
<1> HIDE DEF k
<1>2. \/ k \in DOMAIN read /\ read[k] = r.eff
      \/ r.at > now /\ r.eff = now /\ (k \in DOMAIN read => read[k] > now)
  <2> DEFINE e == Effective(r.at, read, k, now)
  <2>1. k \in DOMAIN read => read[k] \in Time
    BY DEF k
  <2>2. e < r.at => \/ k \in DOMAIN read /\ read[k] = e
                    \/ r.at > now /\ e = now /\ (k \in DOMAIN read => read[k] > now)
    BY <1>1, <2>1, EffectiveIs
  <2>3. r.eff = e
    BY DEF k
  <2> HIDE DEF e
  <2> QED BY <2>2, <2>3
<1>3. CASE k \in DOMAIN read /\ read[k] = r.eff
  BY <1>3 DEF k
<1>4. CASE r.at > now /\ r.eff = now /\ (k \in DOMAIN read => read[k] > now)
  <2>1. \A i \in LiveKeys \cap DOMAIN times :
           times[i] > now /\ (i \in DOMAIN read => read[i] > now)
              => i \in DOMAIN legacyAnchors' /\ legacyAnchors'[i] <= now
    BY PersistedIs
  <2>2. k \in LiveKeys \cap DOMAIN times /\ times[k] = r.at
    BY DEF k
  <2> QED BY <1>4, <2>1, <2>2
<1> QED BY <1>2, <1>3, <1>4

\* A snapshot settles: what its rows are routed with is bounded from then on.
LEMMA SettleStep ==
    ASSUME TablesOK, RoutedInv, ReadersInv, NEW p \in Readers, PersistLegacyAnchors(p)
    PROVE  TablesOK' /\ Forward /\ RoutedInv' /\ ReadersInv'
<1>1. PICK x : x = reader[p]
  OBVIOUS
<1> DEFINE legacy  == {Key(r) : r \in {s \in x.rows : s.v = Legacy}}
           times   == [k \in legacy |-> k.at]
           used(k) == {r.eff : r \in {s \in x.rows : Id(s) = k}}
                      \cup (IF k \in DOMAIN routed THEN {routed[k]} ELSE {})
<1>2. ReaderOK(x) /\ x.pc = "settle" /\ x.now \in Time
  BY <1>1 DEF ReadersInv, PersistLegacyAnchors, ReaderOK
<1>3. /\ legacyAnchors' = IF legacy = {} THEN legacyAnchors
                          ELSE Persisted(legacyAnchors, x.read, times, x.now, LiveKeys)
      /\ routed' = [k \in DOMAIN routed \cup {Id(r) : r \in x.rows} |-> First(used(k))]
      /\ reader' = [reader EXCEPT ![p] = Idle]
      /\ UNCHANGED <<log, hist, latest, anchors>>
  BY <1>1 DEF PersistLegacyAnchors
<1>4. TablesOK' /\ Forward
  <2> HIDE DEF times
  <2> QED BY <1>2, <1>3, LegacyAnchoringMovesForward
<1>5. ReaderOK(x)'
  BY <1>2, <1>4, ReaderStays
<1>6. LegacyAnchorsFell(x)' /\ RowsOK(x)'
  BY <1>2, <1>5 DEF ReaderOK, RowsOK
<1>7. ASSUME NEW CONSTANT r \in x.rows
      PROVE  /\ r \in RowType /\ r.eff \in Time /\ Real(r)
             /\ Retained(Id(r))' => Bounded(Id(r), r.eff)'
  <2>1. r \in RowType /\ r.eff \in Time /\ Real(r)
    BY <1>2 DEF ReaderOK, RowType
  <2>2. CASE r.v # Legacy
    BY <1>2, <1>6, <2>1, <2>2 DEF RowsOK, Anchors
  <2>3. CASE r.v = Legacy
    <3> SUFFICES ASSUME Retained(Id(r))' PROVE Bounded(Id(r), r.eff)'
      BY <2>1
    <3>1. r.eff = Effective(r.at, x.read, Key(r), x.now)
      BY <1>2, <1>6, <2>3 DEF RowsOK, Computed
    <3>2. LegacyKept(Key(r))' /\ LegacyKept(Key(r))
      BY <1>3, <2>3 DEF Retained, LegacyKept, Id, Key
    <3>3. Key(r) \in LiveKeys
      BY <2>1, <3>2, LegacyIsLive
    <3>4. Key(r) \in legacy /\ times[Key(r)] = r.at /\ DOMAIN times = legacy
      BY <2>3 DEF Key
    <3>5. Key(r) \in DOMAIN x.read => /\ x.read[Key(r)] \in Time
                                      /\ Key(r) \in DOMAIN legacyAnchors'
                                      /\ legacyAnchors'[Key(r)] <= x.read[Key(r)]
      BY <1>6, <3>2 DEF LegacyAnchorsFell
    <3>6. legacyAnchors' = Persisted(legacyAnchors, x.read, times, x.now, LiveKeys)
      BY <1>3, <3>4
    <3>7. \A k \in DOMAIN legacyAnchors : legacyAnchors[k] \in Time
      BY DEF TablesOK
    <3> HIDE DEF times, legacy
    <3> QED BY <1>2, <2>1, <2>3, <3>1, <3>3, <3>4, <3>5, <3>6, <3>7, LegacyIsBounded
  <2> QED BY <2>2, <2>3
<1>8. ASSUME NEW CONSTANT k \in DOMAIN routed \cup {Id(r) : r \in x.rows}
      PROVE  /\ k \in Identity /\ routed'[k] \in Time /\ Real(k)'
             /\ Retained(k)' => Bounded(k, routed[k])'
  <2>1. k \in Identity /\ Real(k)
    <3>1. CASE k \in DOMAIN routed
      BY <3>1 DEF RoutedInv
    <3>2. CASE k \in {Id(r) : r \in x.rows}
      <4>1. PICK r \in x.rows : k = Id(r)
        BY <3>2
      <4> QED BY <1>7, <4>1, RealId
    <3> QED BY <3>1, <3>2
  <2>2. Real(k)'
    BY <1>4, <2>1, KeysStay
  <2>3. ASSUME NEW CONSTANT t \in used(k)
        PROVE  t \in Time /\ (Retained(k)' => Bounded(k, t)')
    <3>1. CASE k \in DOMAIN routed /\ t = routed[k]
      <4>1. t \in Time /\ (Retained(k) => Bounded(k, t))
        BY <3>1 DEF RoutedInv
      <4> QED BY <1>4, <2>1, <4>1, KeysStay
    <3>2. CASE \E r \in x.rows : Id(r) = k /\ t = r.eff
      <4>1. PICK r \in x.rows : Id(r) = k /\ t = r.eff
        BY <3>2
      <4>2. Retained(Id(r))' => Bounded(Id(r), r.eff)'
        BY <1>7
      <4> QED BY <1>7, <4>1, <4>2
    <3> QED BY <3>1, <3>2
  <2>4. used(k) # {} /\ used(k) \in SUBSET Nat
    <3>1. used(k) # {}
      OBVIOUS
    <3>2. used(k) \subseteq Time
      BY <2>3
    <3> QED BY <3>1, <3>2, Numbers
  <2>5. First(used(k)) \in used(k)
    <3> HIDE DEF used
    <3> QED BY <2>4, FirstIs
  <2>6. routed'[k] = First(used(k))
    BY <1>3
  <2>7. PICK t \in used(k) : t = routed'[k]
    BY <2>5, <2>6
  <2>8. t \in Time /\ (Retained(k)' => Bounded(k, t)')
    BY <2>3
  <2> HIDE DEF used
  <2>9. Bounded(k, t)' => Bounded(k, routed[k])'
    BY <2>7 DEF Bounded
  <2> QED BY <2>1, <2>2, <2>7, <2>8, <2>9
<1>9. RoutedInv'
  <2>1. DOMAIN routed' = DOMAIN routed \cup {Id(r) : r \in x.rows}
    BY <1>3
  <2> HIDE DEF used
  <2> QED BY <1>8, <2>1 DEF RoutedInv
<1>10. ReadersInv'
  <2>1. PICK y : y = Idle
    OBVIOUS
  <2>2. ReaderOK(y)'
    <3>1. y.pc = "idle" /\ y.rows = {} /\ y.now = 1 /\ y.floor = <<>> /\ DOMAIN y.floor = {}
      BY <2>1 DEF Idle
    <3>2. Shape(y)
      BY <2>1 DEF Idle, Shape, Held
    <3>3. 1 \in Time
      BY Numbers DEF Time
    <3> QED BY <3>1, <3>2, <3>3 DEF ReaderOK, RowsOK
  <2>3. reader' = [reader EXCEPT ![p] = y]
    BY <1>3, <2>1
  <2> QED BY <1>4, <2>2, <2>3, ReadersStay
<1> QED BY <1>4, <1>9, <1>10

-----------------------------------------------------------------------------
(* The invariant is inductive.                                              *)

LEMMA InitEstablishes == Init => IInv
<1> SUFFICES ASSUME Init PROVE IInv
  OBVIOUS
<1>1. 1 \in Time
  BY Numbers DEF Time
<1>2. CountsInv
  <2>1. scenario.jumps \in Nat /\ scenario.reads \in Nat
    BY ScenariosAssumption DEF Init
  <2> QED BY <1>1, <2>1 DEF CountsInv, Init
<1>3. PICK at \in [scenario.seeds -> Time] :
         latest = [c \in scenario.seeds |-> [v |-> Legacy, at |-> at[c]]]
  BY DEF Init
<1>4. log = <<>> /\ hist = {} /\ anchors = <<>> /\ legacyAnchors = <<>> /\ routed = <<>>
      /\ DOMAIN log = {} /\ DOMAIN anchors = {} /\ DOMAIN legacyAnchors = {} /\ DOMAIN routed = {}
  BY DEF Init
<1>5. TablesOK
  <2>1. scenario.seeds \subseteq Configs
    BY ScenariosAssumption DEF Init
  <2>2. log \in Seq(Entry)
    BY <1>4
  <2>3. \A c \in DOMAIN latest :
           latest[c] \in Row /\ Real([config |-> c, v |-> latest[c].v, at |-> latest[c].at])
    BY <1>3 DEF Row, Real, Legacy
  <2>4. DOMAIN latest \subseteq Configs
    BY <1>3, <2>1
  <2> QED BY <1>4, <2>2, <2>3, <2>4 DEF TablesOK
<1>6. Kept(latest, hist, log)
  BY <1>4 DEF Kept, Recent, Paid
<1>7. RoutedInv
  BY <1>4 DEF RoutedInv
<1>8. ReaderOK(Idle)
  <2>1. PICK y : y = Idle
    OBVIOUS
  <2>2. y.pc = "idle" /\ y.rows = {} /\ y.now = 1 /\ y.floor = <<>> /\ DOMAIN y.floor = {}
    BY <2>1 DEF Idle
  <2>3. Shape(y)
    BY <2>1 DEF Idle, Shape, Held
  <2>4. ReaderOK(y)
    BY <1>1, <2>2, <2>3 DEF ReaderOK, RowsOK
  <2> QED BY <2>1, <2>4
<1>9. ReadersInv
  BY <1>8 DEF ReadersInv, Init
<1> QED BY <1>2, <1>5, <1>6, <1>7, <1>9 DEF IInv

LEMMA CountsStay ==
    ASSUME CountsInv, [Next]_vars
    PROVE  CountsInv'
<1>0. scenario.jumps \in Nat /\ scenario.reads \in Nat /\ Time = 1 .. MaxTime /\ MaxTime \in Nat
      /\ clock \in Time /\ jumps \in 0 .. scenario.jumps /\ reads \in 0 .. scenario.reads
      /\ scenario \in Scenarios
  BY ScenariosAssumption, Numbers DEF CountsInv, Time
<1>1. CASE \E batch \in scenario.batches : Record(batch)
  BY <1>0, <1>1 DEF Record, CountsInv
<1>2. CASE \E p \in Readers : ReaderStep(p)
  <2>1. PICK p \in Readers : ReaderStep(p)
    BY <1>2
  <2>2. scenario' = scenario /\ clock' = clock /\ jumps' = jumps
    BY <2>1 DEF ReaderStep, ReadSnapshot, ReadAnchors, PersistAnchors, ReadLegacyAnchors,
                PersistLegacyAnchors
  <2>3. reads' = reads \/ (reads < scenario.reads /\ reads' = reads + 1)
    BY <2>1 DEF ReaderStep, ReadSnapshot, ReadAnchors, PersistAnchors, ReadLegacyAnchors,
                PersistLegacyAnchors
  <2>4. reads' \in 0 .. scenario.reads
    BY <1>0, <2>3
  <2> QED BY <1>0, <2>2, <2>4 DEF CountsInv
<1>3. CASE Tick
  <2>1. clock' \in Time
    BY <1>0, <1>3 DEF Tick
  <2> QED BY <1>0, <1>3, <2>1 DEF Tick, CountsInv
<1>4. CASE JumpBack
  <2>1. clock' \in Time /\ jumps' \in 0 .. scenario.jumps
    BY <1>0, <1>4 DEF JumpBack
  <2> QED BY <1>0, <1>4, <2>1 DEF JumpBack, CountsInv
<1>5. CASE UNCHANGED vars
  BY <1>0, <1>5 DEF vars, CountsInv
<1> QED BY <1>1, <1>2, <1>3, <1>4, <1>5 DEF Next

LEMMA NextPreserves ==
    ASSUME IInv, [Next]_vars
    PROVE  IInv'
<1>0. CountsInv /\ TablesOK /\ Kept(latest, hist, log) /\ RoutedInv /\ ReadersInv /\ clock \in Time
  BY DEF IInv, CountsInv
<1>1. CountsInv'
  BY <1>0, CountsStay
<1>2. CASE \E batch \in scenario.batches : Record(batch)
  <2>1. PICK batch \in scenario.batches : Record(batch)
    BY <1>2
  <2>2. batch \in Seq(Configs)
    BY <1>0, ScenariosAssumption DEF CountsInv
  <2>3. TablesOK' /\ Forward
    BY <1>0, <2>1, <2>2, RecordMovesForward
  <2>4. Kept(latest, hist, log)'
    BY <1>0, <2>1, <2>2, RecordKeeps
  <2>5. UNCHANGED <<routed, reader>>
    BY <2>1 DEF Record
  <2>6. RoutedInv' /\ ReadersInv'
    BY <1>0, <2>3, <2>5, RoutedStays, ReadersSame
  <2> QED BY <1>1, <2>3, <2>4, <2>6 DEF IInv
<1>3. CASE \E p \in Readers : ReaderStep(p)
  <2>1. PICK p \in Readers : ReaderStep(p)
    BY <1>3
  <2>2. Kept(latest, hist, log)'
    <3>1. latest' = latest /\ hist' = hist /\ log' = log
      BY <2>1 DEF ReaderStep, ReadSnapshot, ReadAnchors, PersistAnchors, ReadLegacyAnchors,
                  PersistLegacyAnchors
    <3> QED BY <1>0, <3>1
  <2>3. CASE ReadSnapshot(p)
    <3>1. TablesOK' /\ Forward /\ UNCHANGED routed
      BY <1>0, <2>3, StillForward DEF ReadSnapshot
    <3>2. RoutedInv' /\ ReadersInv'
      BY <1>0, <2>3, <3>1, RoutedStays, SnapshotStep
    <3> QED BY <1>1, <2>2, <3>1, <3>2 DEF IInv
  <2>4. CASE ReadAnchors(p)
    <3>1. TablesOK' /\ Forward /\ UNCHANGED routed
      BY <1>0, <2>4, StillForward DEF ReadAnchors
    <3>2. RoutedInv' /\ ReadersInv'
      BY <1>0, <2>4, <3>1, RoutedStays, ReadAnchorsStep
    <3> QED BY <1>1, <2>2, <3>1, <3>2 DEF IInv
  <2>5. CASE PersistAnchors(p)
    <3>1. TablesOK' /\ Forward /\ ReadersInv' /\ UNCHANGED routed
      BY <1>0, <2>5, PersistAnchorsStep DEF PersistAnchors
    <3>2. RoutedInv'
      BY <1>0, <3>1, RoutedStays
    <3> QED BY <1>1, <2>2, <3>1, <3>2 DEF IInv
  <2>6. CASE ReadLegacyAnchors(p)
    <3>1. TablesOK' /\ Forward /\ UNCHANGED routed
      BY <1>0, <2>6, StillForward DEF ReadLegacyAnchors
    <3>2. RoutedInv' /\ ReadersInv'
      BY <1>0, <2>6, <3>1, RoutedStays, ReadLegacyAnchorsStep
    <3> QED BY <1>1, <2>2, <3>1, <3>2 DEF IInv
  <2>7. CASE PersistLegacyAnchors(p)
    <3>1. TablesOK' /\ RoutedInv' /\ ReadersInv'
      BY <1>0, <2>7, SettleStep
    <3> QED BY <1>1, <2>2, <3>1 DEF IInv
  <2> QED BY <2>1, <2>3, <2>4, <2>5, <2>6, <2>7 DEF ReaderStep
<1>4. ASSUME UNCHANGED <<log, hist, latest, anchors, legacyAnchors, routed, reader>> PROVE IInv'
  <2>1. TablesOK' /\ Forward
    BY <1>0, <1>4, StillForward
  <2>2. RoutedInv' /\ ReadersInv'
    BY <1>0, <1>4, <2>1, RoutedStays, ReadersSame
  <2>3. Kept(latest, hist, log)'
    BY <1>0, <1>4
  <2> QED BY <1>1, <2>1, <2>2, <2>3 DEF IInv
<1>5. CASE Tick
  BY <1>4, <1>5 DEF Tick
<1>6. CASE JumpBack
  BY <1>4, <1>6 DEF JumpBack
<1>7. CASE UNCHANGED vars
  BY <1>4, <1>7 DEF vars
<1> QED BY <1>2, <1>3, <1>5, <1>6, <1>7 DEF Next

-----------------------------------------------------------------------------
(* Theorems.                                                                *)

\* What retention left of the tables, the anchors and the snapshots of every reader satisfy
\* the inductive invariant, whatever is recorded and however often the clock is set back.
THEOREM ObservationInvariant == Spec => []IInv
<1>1. Init => IInv
  BY InitEstablishes
<1>2. IInv /\ [Next]_vars => IInv'
  BY NextPreserves
<1> QED BY <1>1, <1>2, PTL DEF Spec

\* The tables hold observations of the log, each row the time it was committed with.
THEOREM ObservationTypes == Spec => []TypeOK
<1>1. IInv => TypeOK
  <2> SUFFICES ASSUME IInv PROVE TypeOK
    OBVIOUS
  <2>1. CountsInv /\ TablesOK /\ RoutedInv
    BY DEF IInv
  <2>2. log \in Seq([config : Configs, at : Time]) /\ Len(log) \in Nat /\ DOMAIN log = 1 .. Len(log)
    BY <2>1, LogType DEF TablesOK, Entry
  <2>3. ASSUME NEW c \in DOMAIN latest PROVE latest[c] \in Row /\ latest[c].v <= Len(log)
    <3>1. latest[c] \in Row /\ Real([config |-> c, v |-> latest[c].v, at |-> latest[c].at])
      BY <2>1 DEF TablesOK
    <3>2. latest[c].v = 0 \/ latest[c].v \in DOMAIN log
      BY <3>1 DEF Real, Legacy
    <3> QED BY <2>2, <3>1, <3>2
  <2>4. DOMAIN routed \subseteq Identity
    BY <2>1 DEF RoutedInv
  <2> QED BY <2>1, <2>2, <2>3, <2>4 DEF TypeOK, CountsInv, TablesOK
<1> QED BY <1>1, ObservationInvariant, PTL

\* Retention in _prune_history never takes the last commit, so max(id) of the history is a
\* revision of all the evidence: it grows with every batch that is recorded.
THEOREM TheRevisionIsTheLastCommit == Spec => []HighWaterIsTheLastCommit
<1>1. IInv => HighWaterIsTheLastCommit
  <2> SUFFICES ASSUME IInv, log # <<>> PROVE Len(log) \in hist
    BY DEF HighWaterIsTheLastCommit
  <2>1. log \in Seq(Entry) /\ Kept(latest, hist, log)
    BY DEF IInv, TablesOK
  <2>2. Len(log) \in Nat \ {0} /\ DOMAIN log = 1 .. Len(log)
    BY <2>1, LogType
  <2> DEFINE c == log[Len(log)].config
  <2>3. c \in Paid(log)
    BY <2>2 DEF Paid
  <2> HIDE DEF c
  <2>4. Last(log, c) = Len(log)
    <3>1. Last(log, c) \in 1 .. Len(log)
      BY <2>1, <2>2, <2>3, LastIs
    <3>2. Len(log) <= Last(log, c)
      BY <2>1, <2>2, <2>3, LastIs DEF c
    <3> QED BY <2>2, <3>1, <3>2
  <2>5. Newer(log, c) = {}
    <3> SUFFICES ASSUME NEW d \in Paid(log), Last(log, d) > Len(log) PROVE FALSE
      BY <2>4 DEF Newer
    <3>1. Last(log, d) \in 1 .. Len(log)
      BY <2>1, <2>2, LastIs
    <3> QED BY <2>2, <3>1
  <2>6. Cardinality(Newer(log, c)) = 0
    BY <2>5, FS_EmptySet
  <2>7. c \in Recent(log, ReadBudget)
    BY <2>3, <2>6, Numbers DEF Recent
  <2> QED BY <2>1, <2>4, <2>7 DEF Kept
<1> QED BY <1>1, ObservationInvariant, PTL

\* The routing set holds every config whose last observation is among the last ReadBudget, in
\* the order of commits and whatever the clocks of the rows say: two retentions, one of the
\* latest rows and one of the history, cannot displace it.
THEOREM RoutingSeesTheNewest == Spec => []RoutingSetIsNewest
<1>1. IInv => RoutingSetIsNewest
  <2> SUFFICES ASSUME IInv PROVE RoutingSetIsNewest
    OBVIOUS
  <2>1. /\ log \in Seq(Entry) /\ hist \in SUBSET DOMAIN log /\ Kept(latest, hist, log) /\ TablesOK
    BY DEF IInv, TablesOK
  <2>2. Timed(latest)
    BY <2>1, Numbers DEF TablesOK, Timed, Row
  <2>3. \A c \in Recent(log, ReadBudget) : c \in FirstConfigs(latest, hist, log, ReadBudget)
    BY <2>1, <2>2, RetentionKeeps
  <2>4. ASSUME NEW c \in Paid(log) PROVE LastCommit(c) = Last(log, c)
    <3>1. Ids(DOMAIN log, log, c) # {}
      BY DEF Paid, Ids
    <3> QED BY <3>1 DEF LastCommit, Last, Commit
  <2>5. ASSUME NEW c \in Paid(log)
        PROVE  {d \in Paid(log) : LastCommit(d) > LastCommit(c)} = Newer(log, c)
    BY <2>4 DEF Newer
  <2> QED BY <2>3, <2>5 DEF RoutingSetIsNewest, Recent, Paid
<1> QED BY <1>1, ObservationInvariant, PTL

\* An age that a decision was made with is never taken back by a decision that starts later,
\* in whatever process and at whatever clock, while the row is in its table.
THEOREM RowsOnlyAge == Spec => []AgesOnlyForward
<1>1. IInv => AgesOnlyForward
  <2> SUFFICES ASSUME IInv, NEW p \in Readers, reader[p].pc = "settle", NEW r \in reader[p].rows,
                      Id(r) \in DOMAIN reader[p].floor, Retained(r)
               PROVE  r.eff <= reader[p].floor[Id(r)]
    BY DEF AgesOnlyForward
  <2>1. PICK x : x = reader[p]
    OBVIOUS
  <2>2. ReaderOK(x)
    BY <2>1 DEF IInv, ReadersInv
  <2>3. r \in RowType /\ Real(r) /\ NotYounger(x, r)
    BY <2>1, <2>2 DEF ReaderOK, RowsOK, Computed, Anchors
  <2>4. Retained(Id(r))
    BY <2>3, RealId
  <2> QED BY <2>1, <2>3, <2>4 DEF NotYounger, Floored
<1> QED BY <1>1, ObservationInvariant, PTL
================================================================================
