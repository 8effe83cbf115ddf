------------------------ MODULE OptimizerRoutingProofs ------------------------
(***************************************************************************)
(* Proofs about routing decisions, for any number of processes, configs and *)
(* observations, any clock that is set back any number of times, and any    *)
(* thresholds and lifetimes.                                                *)
(***************************************************************************)
EXTENDS OptimizerRouting, FiniteSetTheorems, WellFoundedInduction, TLAPS

-----------------------------------------------------------------------------
(* Evidence.                                                                *)

Ledger == Seq([config : Configs, at : Time])

\* A nonempty set of times has a newest one.
LEMMA NewestExists ==
    ASSUME NEW S \in SUBSET Time, S # {}
    PROVE  \E t \in S : \A u \in S : u <= t
<1> DEFINE ages == {MaxTime - t : t \in S}
           R    == OpToRel(<, Nat)
<1> HIDE DEF R
<1>0. MaxTime \in Nat
  BY LimitsAssumption
<1>1. ages \subseteq Nat /\ ages # {}
  <2>1. \A t \in S : MaxTime - t \in Nat
    <3> SUFFICES ASSUME NEW t \in S PROVE MaxTime - t \in Nat
      OBVIOUS
    <3>1. t \in 1 .. MaxTime
      BY DEF Time
    <3> QED BY <1>0, <3>1
  <2>2. PICK t \in S : TRUE
    OBVIOUS
  <2>3. MaxTime - t \in ages
    OBVIOUS
  <2> QED BY <2>1, <2>3
<1>2. IsWellFoundedOn(R, Nat)
  BY NatLessThanWellFounded DEF R
<1>3. \E x \in ages : \A y \in ages : ~(<<y, x>> \in R)
  <2> HIDE DEF ages
  <2> QED BY <1>1, <1>2, WFMin
<1>4. PICK x \in ages : \A y \in ages : ~(y < x)
  BY <1>1, <1>3 DEF OpToRel, R
<1>5. PICK t \in S : x = MaxTime - t
  BY <1>4
<1>6. \A u \in S : ~(MaxTime - u < MaxTime - t)
  BY <1>4, <1>5
<1>7. \A u \in S : u <= t
  BY <1>0, <1>6 DEF Time
<1> QED BY <1>7

\* The version of some rows of a ledger, and that its newest time is one of theirs.
LEMMA VersionType ==
    ASSUME NEW o \in Ledger, NEW rows \in SUBSET DOMAIN o, NEW b \in Nat
    PROVE  /\ Version(o, rows, b) \in [updated : Nat, seen : Nat, rows : Nat]
           /\ rows # {} => \A i \in rows : o[i].at <= Version(o, rows, b).updated
<1> DEFINE seen == {j \in DOMAIN o : o[j].at >= b /\ \E i \in rows : o[i].config = o[j].config}
           newest == CHOOSE i \in rows : \A j \in rows : o[j].at <= o[i].at
           updated == IF rows = {} THEN 0 ELSE o[newest].at
<1> DEFINE X == [config : Configs, at : Time]
<1>0. DOMAIN o = 1 .. Len(o) /\ Len(o) \in Nat /\ \A i \in DOMAIN o : o[i] \in X
  <2>1. o \in Seq(X)
    BY DEF Ledger
  <2> HIDE DEF X
  <2>2. DOMAIN o = 1 .. Len(o) /\ Len(o) \in Nat
    BY <2>1
  <2>3. \A i \in DOMAIN o : o[i] \in X
    BY <2>1, <2>2
  <2> QED BY <2>2, <2>3
<1>1. DOMAIN o = 1 .. Len(o) /\ Len(o) \in Nat
      /\ \A i \in DOMAIN o : o[i].at \in Time /\ o[i] \in X
  BY <1>0
<1>2. IsFiniteSet(DOMAIN o)
  BY <1>1, FS_Interval
<1>3. Cardinality(seen) \in Nat /\ Cardinality(rows) \in Nat
  <2>1. seen \in SUBSET DOMAIN o /\ rows \in SUBSET DOMAIN o
    OBVIOUS
  <2>2. IsFiniteSet(seen) /\ IsFiniteSet(rows)
    <3> HIDE DEF seen
    <3> QED BY <2>1, <1>2, FS_Subset
  <2> HIDE DEF seen
  <2> QED BY <2>2, FS_CardinalityType
<1>4. rows # {} => \E i \in rows : \A j \in rows : o[j].at <= o[i].at
  <2> SUFFICES ASSUME rows # {} PROVE \E i \in rows : \A j \in rows : o[j].at <= o[i].at
    OBVIOUS
  <2> DEFINE S == {o[i].at : i \in rows}
  <2>1. S \in SUBSET Time /\ S # {}
    BY <1>1
  <2>2. PICK t \in S : \A u \in S : u <= t
    <3> HIDE DEF S
    <3> QED BY <2>1, NewestExists
  <2>3. PICK i \in rows : t = o[i].at
    BY <2>2
  <2>4. \A j \in rows : o[j].at <= o[i].at
    BY <2>2, <2>3
  <2> QED BY <2>4
<1>5. rows # {} => newest \in rows /\ \A j \in rows : o[j].at <= o[newest].at
  BY <1>4
<1>6. updated \in Nat
  <2>1. CASE rows = {}
    BY <2>1
  <2>2. CASE rows # {}
    <3>1. newest \in DOMAIN o
      BY <1>5, <2>2
    <3>2. o[newest].at \in Nat
      <4> HIDE DEF newest
      <4> QED BY <3>1, <1>1, LimitsAssumption DEF Time
    <3> QED BY <2>2, <3>2
  <2> QED BY <2>1, <2>2
<1>7. Version(o, rows, b) = [updated |-> updated, seen |-> Cardinality(seen), rows |-> Cardinality(rows)]
  BY DEF Version
<1> HIDE DEF updated, seen
<1>8. Version(o, rows, b) \in [updated : Nat, seen : Nat, rows : Nat]
  BY <1>3, <1>6, <1>7
<1>9. rows # {} => \A i \in rows : o[i].at <= Version(o, rows, b).updated
  BY <1>5, <1>7 DEF updated
<1> QED BY <1>8, <1>9

LEMMA LedgerTimes ==
    ASSUME NEW o \in Ledger
    PROVE  \A i \in DOMAIN o : i \in Nat /\ o[i].at \in Nat
<1> DEFINE X == [config : Configs, at : Time]
<1>1. o \in Seq(X)
  BY DEF Ledger
<1>2. \A x \in X : x.at \in Nat
  BY LimitsAssumption DEF Time
<1> HIDE DEF X
<1>3. \A i \in DOMAIN o : i \in Nat /\ o[i] \in X
  BY <1>1
<1> QED BY <1>2, <1>3

LEMMA RowsInLedger ==
    ASSUME NEW o \in Ledger, NEW b \in Nat
    PROVE  Rows(o, b) \in SUBSET DOMAIN o /\ Rows(o, b) \subseteq Rows(o, 0)
BY LedgerTimes DEF Rows

\* A reading keeps every row, its config and the order.
LEMMA ReadingKeepsRows ==
    ASSUME obs \in Ledger, clock \in Time
    PROVE  /\ Reading \in Ledger /\ Len(Reading) = Len(obs)
           /\ Rows(Reading, 0) = Rows(obs, 0)
<1> DEFINE X == [config : Configs, at : Time]
<1>1. obs \in Seq(X)
  BY DEF Ledger
<1>2. \A x \in X : [x EXCEPT !.at = Least(@, clock)] \in X
                  /\ [x EXCEPT !.at = Least(@, clock)].config = x.config
                  /\ [x EXCEPT !.at = Least(@, clock)].at \in Nat /\ x.at \in Nat
  BY LimitsAssumption DEF Least, Time
<1> HIDE DEF X
<1>3. DOMAIN obs = 1 .. Len(obs) /\ Len(obs) \in Nat /\ \A i \in DOMAIN obs : obs[i] \in X
  BY <1>1
<1>4. DOMAIN Reading = 1 .. Len(obs)
      /\ \A i \in 1 .. Len(obs) : Reading[i] \in X /\ Reading[i].config = obs[i].config
                                  /\ Reading[i].at \in Nat /\ obs[i].at \in Nat
  BY <1>2, <1>3 DEF Reading
<1>5. Reading \in Seq(X) /\ Len(Reading) = Len(obs)
  <2>1. Reading = [i \in 1 .. Len(obs) |-> Reading[i]]
    BY <1>3, <1>4 DEF Reading
  <2>2. Reading \in [1 .. Len(obs) -> X]
    BY <2>1, <1>4
  <2> QED BY <2>2, <1>3, <1>4
<1>6. Rows(Reading, 0) = Rows(obs, 0)
  <2> DEFINE Latest == {i \in 1 .. Len(obs) :
                          \A j \in 1 .. Len(obs) : obs[j].config = obs[i].config => j <= i}
  <2>1. \A i \in 1 .. Len(obs) : Reading[i].at >= 0 /\ obs[i].at >= 0
    BY <1>4
  <2>2. Rows(obs, 0) = Latest
    BY <1>3, <2>1 DEF Rows
  <2>3. Rows(Reading, 0) = Latest
    BY <1>4, <2>1 DEF Rows
  <2> QED BY <2>2, <2>3
<1> QED BY <1>5, <1>6 DEF Ledger, X

-----------------------------------------------------------------------------
(* The checkpoint row.                                                      *)

Tidy(c) == /\ c.started <= c.updated /\ c.updated <= c.decision
           /\ c.regime = "weighted" => c.decision <= c.expires

LEMMA CanonicalType ==
    ASSUME NEW c \in CkptRow
    PROVE  Canonical(c) \in CkptRow /\ (Tidy(c) => Canonical(c) = c)
<1>1. /\ c.updated \in Nat /\ c.started \in Nat /\ c.decision \in Nat
      /\ Least(c.updated, c.decision) \in Nat /\ Least(c.started, c.decision) \in Nat
  BY DEF CkptRow, Least
<1>2. Canonical(c) = [c EXCEPT !.updated = Least(c.updated, c.decision),
                               !.started = Least(c.started, c.decision)]
  BY DEF Canonical
<1>3. Canonical(c) \in CkptRow
  BY <1>1, <1>2 DEF CkptRow
<1>4. Tidy(c) => Least(c.updated, c.decision) = c.updated /\ Least(c.started, c.decision) = c.started
  BY <1>1 DEF Tidy, Least
<1>5. [c EXCEPT !.updated = c.updated, !.started = c.started] = c
  BY DEF CkptRow
<1> QED BY <1>2, <1>3, <1>4, <1>5

LEMMA NoRowType == NoRow \in CkptRow /\ NoDecision \in Decision
BY DEF NoRow, CkptRow, NoDecision, Decision, NoVersion, Regimes

LEMMA ProposedType ==
    ASSUME NEW c \in CkptRow, NEW d \in Decision
    PROVE  Proposed(c, d) \in CkptRow
<1>1. d.now \in Nat /\ d.started \in Nat /\ d.version.updated \in Nat /\ d.version.seen \in Nat
      /\ d.version.rows \in Nat /\ d.regime \in Regimes /\ TTL \in Nat
  BY LimitsAssumption DEF Decision
<1>2. c.epoch \in Nat /\ c.started \in Nat /\ c.decision \in Nat
  BY DEF CkptRow
<1> QED BY <1>1, <1>2 DEF Proposed, CkptRow, Least, Most

\* Over a tidy row a decision whose epoch has evidence leaves a tidy row; the epoch moves
\* forward by one with its boundary, or stays with it.
LEMMA ProposedIsTidy ==
    ASSUME NEW c \in CkptRow, NEW d \in Decision, Tidy(c),
           d.started <= d.version.updated, Supersedes(Proposed(c, d), c)
    PROVE  LET n == Proposed(c, d)
           IN /\ Tidy(n)
              /\ \/ n.epoch = c.epoch /\ n.started = c.started
                 \/ n.epoch = c.epoch + 1 /\ n.started > c.started
<1> DEFINE n == Proposed(c, d)
           start == Least(d.started, d.now)
<1>1. d.now \in Nat /\ d.started \in Nat /\ d.version.updated \in Nat /\ d.version.seen \in Nat
      /\ d.version.rows \in Nat /\ d.regime \in Regimes /\ TTL \in Nat /\ start \in Nat
  BY LimitsAssumption DEF Decision, Least
<1>2. c.epoch \in Nat /\ c.started \in Nat /\ c.decision \in Nat /\ c.updated \in Nat
      /\ c.seen \in Nat /\ c.rows \in Nat
      /\ c.started <= c.updated /\ c.updated <= c.decision
  BY DEF CkptRow, Tidy
<1>3. /\ n.started = Most(c.started, start) /\ n.updated = Least(d.version.updated, d.now)
      /\ n.epoch = c.epoch + (IF start > c.started THEN 1 ELSE 0) /\ n.decision = d.now
      /\ n.regime = d.regime /\ n.expires = (IF d.regime = "weighted" THEN d.now + TTL ELSE d.now)
  <2>1. ~(c.started > d.now /\ d.now >= c.decision)
    BY <1>1, <1>2
  <2> QED BY <2>1 DEF Proposed
<1>4. start <= n.updated /\ n.updated <= n.decision /\ n.updated \in Nat
  BY <1>1, <1>3 DEF Least
<1>5. n.started > c.started \/ n.updated >= c.updated \/ c = NoRow
  BY <1>1, <1>2, <1>3, <1>4 DEF Supersedes, SameVersion, Most
<1>6. c = NoRow => c.started = 0
  BY DEF NoRow
<1>7. n.started <= n.updated
  BY <1>1, <1>2, <1>3, <1>4, <1>5, <1>6 DEF Most
<1>8. Tidy(n)
  BY <1>1, <1>3, <1>4, <1>7 DEF Tidy
<1>9. \/ n.epoch = c.epoch /\ n.started = c.started
      \/ n.epoch = c.epoch + 1 /\ n.started > c.started
  BY <1>1, <1>2, <1>3 DEF Most
<1> QED BY <1>8, <1>9

-----------------------------------------------------------------------------
(* A registry deciding.                                                     *)

LEMMA BetweenType ==
    ASSUME NEW regime \in Regimes, NEW pending \in Nat, NEW refreshed \in Nat
    PROVE  Between(regime, pending, refreshed) \in Registry
BY NoRowType DEF Between, Registry, Steps

\* A decision taken on a ledger: the high water, the expectations and the conflict it came
\* with are kept, it uses only rows that are the latest of their config, and an epoch it
\* wants to open has evidence.
LEMMA DecidedType ==
    ASSUME NEW me \in Registry, NEW o \in Ledger, NEW regime \in {"weighted", "fallback"},
           NEW change \in Nat, NEW b \in Nat, NEW m,
           m = Decided(me, o, regime, Rows(o, b), change)
    PROVE  /\ m \in Registry /\ m.pc \in {"record", "recheck"}
           /\ m.high = me.high /\ m.epoch = me.epoch /\ m.expected = me.expected
           /\ m.conflict = me.conflict /\ m.touched = me.touched
           /\ \A r \in m.used : r.id \in Rows(o, 0)
           /\ m.pc = "record" => m.decision.started <= m.decision.version.updated
<1> DEFINE boundary == me.read.started
           pending  == Most(me.pending, change)
           since    == IF pending > 0 THEN pending ELSE boundary
           counted  == IF Cold(me) THEN boundary ELSE Most(boundary, pending)
           last     == IF Inherits(me, o) THEN me.read.decision ELSE me.refreshed
           rows     == Rows(o, since)
           version  == Version(o, rows, counted)
           used     == IF regime = "weighted" THEN {[id |-> i, at |-> o[i].at] : i \in Rows(o, b)}
                       ELSE {}
           dec(w)   == [regime |-> regime, started |-> since, now |-> me.decision.now,
                        version |-> w]
<1>1. /\ me.read \in CkptRow /\ me.pending \in Nat /\ me.refreshed \in Nat
      /\ me.decision \in Decision
  BY DEF Registry
<1>2. boundary \in Nat /\ me.read.decision \in Nat /\ me.decision.now \in Nat
  BY <1>1 DEF CkptRow, Decision
<1>3. pending \in Nat /\ since \in Nat /\ counted \in Nat /\ last \in Nat
  BY <1>1, <1>2 DEF Most
<1>4. rows \in SUBSET DOMAIN o /\ Rows(o, b) \in SUBSET DOMAIN o /\ Rows(o, b) \subseteq Rows(o, 0)
  BY <1>3, RowsInLedger
<1>5. version \in [updated : Nat, seen : Nat, rows : Nat]
      /\ (rows # {} => \A i \in rows : o[i].at <= version.updated)
  BY <1>3, <1>4, VersionType
<1>6. \A i \in DOMAIN o : i \in Nat /\ o[i].at \in Nat
  BY LedgerTimes
<1>7. Cardinality(rows) >= MinRows => since <= version.updated
  <2> SUFFICES ASSUME Cardinality(rows) >= MinRows PROVE since <= version.updated
    OBVIOUS
  <2>1. rows # {}
    <3>1. Cardinality({}) = 0
      BY FS_EmptySet
    <3> HIDE DEF rows
    <3> QED BY <3>1, LimitsAssumption
  <2>2. PICK i \in rows : TRUE
    BY <2>1
  <2>3. o[i].at >= since /\ o[i].at <= version.updated /\ o[i].at \in Nat
    BY <2>1, <1>4, <1>5, <1>6 DEF Rows
  <2> HIDE DEF since, version
  <2> QED BY <2>3, <1>3, <1>5
<1>8. used \in SUBSET [id : Nat, at : Nat] /\ \A r \in used : r.id \in Rows(o, 0)
  BY <1>4, <1>6
<1>9. dec(version) \in Decision /\ dec(version).started = since /\ dec(version).version = version
  <2> HIDE DEF since, version
  <2> QED BY <1>2, <1>3, <1>5 DEF Decision, Regimes
<1>10. PICK record \in BOOLEAN :
          /\ record => Cardinality(rows) >= MinRows
          /\ Decided(me, o, regime, Rows(o, b), change) =
               [me EXCEPT !.pc = IF record THEN "record" ELSE "recheck",
                  !.regime = regime, !.pending = pending, !.refreshed = last, !.read = NoRow,
                  !.used = used, !.decision = IF record THEN dec(version) ELSE NoDecision]
  <2> DEFINE due == \/ regime = "weighted" /\ Previous(me, o) # "weighted"
                    \/ regime = "fallback" /\ Previous(me, o) = "weighted"
                    \/ regime = "weighted" /\ me.decision.now >= last + Refresh
                    \/ pending > 0
             record == due /\ Cardinality(rows) >= MinRows
  <2> record \in BOOLEAN
    OBVIOUS
  <2> WITNESS record \in BOOLEAN
  <2> QED BY DEF Decided
<1> HIDE DEF pending, since, counted, last, rows, version, used, dec
<1>11. NoRow \in CkptRow /\ NoDecision \in Decision /\ regime \in Regimes
  BY NoRowType DEF Regimes
<1> DEFINE dm == IF record THEN dec(version) ELSE NoDecision
           pm == IF record THEN "record" ELSE "recheck"
<1>12. m = [me EXCEPT !.pc = pm, !.regime = regime, !.pending = pending, !.refreshed = last,
                      !.read = NoRow, !.used = used, !.decision = dm]
  BY <1>10
<1>13. dm \in Decision /\ pm \in Steps /\ pm \in {"record", "recheck"}
       /\ (pm = "record" => record)
  BY <1>9, <1>11 DEF Steps
<1> HIDE DEF dm, pm
<1>14. m \in Registry
  <2>1. used \in SUBSET [id : Nat, at : Nat] /\ pending \in Nat /\ last \in Nat
    BY <1>3, <1>8
  <2> DEFINE n == [me EXCEPT !.pc = pm, !.read = NoRow, !.decision = dm, !.used = used]
  <2>2. n \in Registry
    BY <2>1, <1>11, <1>13 DEF Registry
  <2>3. m = [n EXCEPT !.regime = regime, !.pending = pending, !.refreshed = last]
    BY <1>12 DEF Registry
  <2> HIDE DEF n
  <2> QED BY <2>1, <2>2, <2>3, <1>11 DEF Registry
<1>15. /\ m.high = me.high /\ m.epoch = me.epoch /\ m.expected = me.expected
       /\ m.conflict = me.conflict /\ m.touched = me.touched
       /\ m.used = used /\ m.pc = pm /\ m.decision = dm
  BY <1>12 DEF Registry
<1>16. m.pc = "record" => m.decision.started <= m.decision.version.updated
  <2> SUFFICES ASSUME record PROVE dm.started <= dm.version.updated
    BY <1>13, <1>15
  <2> QED BY <1>7, <1>9, <1>10 DEF dm
<1> QED BY <1>8, <1>13, <1>14, <1>15, <1>16

-----------------------------------------------------------------------------
(* The inductive invariant.                                                 *)

\* What a registry me may rely on, over the ledger o and the row c: nobody committed evidence
\* before its high water, and as long as nobody touched the evidence or the row since it
\* began, its expectations are what it would read.
Sound(me, o, c) ==
    /\ me.high <= Len(o)
    /\ me.pc = "record" => me.decision.started <= me.decision.version.updated
    /\ me.pc \in {"record", "recheck", "finish"} /\ me.high = Len(o)
          => \A r \in me.used : r.id \in Rows(o, 0)
    /\ ~me.touched =>
          /\ ~me.conflict
          /\ me.pc # "idle" => me.high = Len(o)
          /\ me.pc \in Steps \ {"idle", "token"} => me.expected = c
          /\ me.pc \in {"read", "retire", "reread", "evaluate", "record"} => me.epoch = EpochOf(c)
          /\ me.pc = "finish" => me.read = c

Counters == clock \in Time /\ jumps \in 0 .. MaxJumps /\ calls \in 0 .. MaxCalls

Inv ==
    /\ TypeOK
    /\ Tidy(ckpt)
    /\ \A p \in Procs : Sound(proc[p], obs, ckpt)

\* Only a row that is consistent was left by earlier runs.
TidySeeds == \A s \in Seeds : Tidy(s.ckpt)

LEMMA LedgerLength == ASSUME NEW o \in Ledger PROVE Len(o) \in Nat
BY DEF Ledger

\* A registry stays sound over a ledger with the same rows.
LEMMA SoundOnReading ==
    ASSUME NEW me, NEW o, NEW o2, NEW c, Sound(me, o, c), Len(o2) = Len(o),
           Rows(o2, 0) = Rows(o, 0)
    PROVE  Sound(me, o2, c)
BY DEF Sound

\* A registry that was told that others moved the row or the evidence relies on neither.
LEMMA SoundWhenTouched ==
    ASSUME NEW me \in Registry, NEW o \in Ledger, NEW o2 \in Ledger, NEW c, NEW c2,
           Sound(me, o, c), Len(o2) > Len(o) \/ o2 = o
    PROVE  LET m == [me EXCEPT !.touched = @ \/ (TRUE /\ me.pc # "idle")]
           IN m \in Registry /\ Sound(m, o2, c2)
<1> DEFINE m == [me EXCEPT !.touched = @ \/ (TRUE /\ me.pc # "idle")]
<1>1. m \in Registry
  BY DEF Registry
<1>2. /\ m.high = me.high /\ m.pc = me.pc /\ m.decision = me.decision /\ m.used = me.used
      /\ m.conflict = me.conflict /\ (m.touched <=> me.touched \/ me.pc # "idle")
      /\ me.high \in Nat /\ Len(o) \in Nat /\ Len(o2) \in Nat
  BY LedgerLength DEF Registry
<1> HIDE DEF m
<1>3. Sound(m, o2, c2)
  BY <1>2 DEF Sound
<1> QED BY <1>1, <1>3 DEF m

\* A step of one registry that leaves the row and the rows of the ledger alone.
LEMMA OwnStep ==
    ASSUME Inv, Counters', NEW p \in Procs, NEW m \in Registry,
           proc' = [proc EXCEPT ![p] = m], ckpt' = ckpt,
           obs' \in Ledger, Len(obs') = Len(obs), Rows(obs', 0) = Rows(obs, 0),
           Sound(m, obs', ckpt)
    PROVE  Inv'
<1>1. TypeOK'
  BY DEF Inv, TypeOK, Counters, Ledger
<1>2. ASSUME NEW q \in Procs PROVE Sound(proc[q], obs, ckpt)'
  <2>1. CASE q = p
    BY <2>1 DEF Inv, TypeOK
  <2>2. CASE q # p
    <3>1. proc'[q] = proc[q] /\ Sound(proc[q], obs, ckpt)
      BY <2>2 DEF Inv, TypeOK
    <3>2. Sound(proc[q], obs', ckpt)
      BY <3>1, SoundOnReading
    <3> QED BY <3>1, <3>2
  <2> QED BY <2>1, <2>2
<1> QED BY <1>1, <1>2 DEF Inv

\* A step of one registry that writes the row and leaves the ledger alone.
LEMMA RowStep ==
    ASSUME Inv, Counters', NEW p \in Procs, NEW m \in Registry,
           proc' = [Touch(Procs \ {p}) EXCEPT ![p] = m],
           ckpt' \in CkptRow, Tidy(ckpt'), obs' = obs, Sound(m, obs, ckpt')
    PROVE  Inv'
<1>1. ASSUME NEW q \in Procs
      PROVE  proc'[q] \in Registry /\ Sound(proc'[q], obs, ckpt')
  <2>1. CASE q = p
    BY <2>1 DEF Touch
  <2>2. CASE q # p
    <3>1. proc'[q] = [proc[q] EXCEPT !.touched = @ \/ (TRUE /\ proc[q].pc # "idle")]
      BY <2>2 DEF Touch
    <3>2. proc[q] \in Registry /\ Sound(proc[q], obs, ckpt) /\ obs \in Ledger
      BY DEF Inv, TypeOK, Ledger
    <3> QED BY <3>1, <3>2, SoundWhenTouched
  <2> QED BY <2>1, <2>2
<1>2. proc' \in [Procs -> Registry]
  <2>1. proc' = [q \in Procs |-> proc'[q]]
    BY DEF Touch
  <2> QED BY <1>1, <2>1
<1>3. TypeOK'
  BY <1>2 DEF Inv, TypeOK, Counters
<1> QED BY <1>1, <1>3 DEF Inv

LEMMA InitInv == TidySeeds /\ Init => Inv
<1> SUFFICES ASSUME TidySeeds, Init PROVE Inv
  OBVIOUS
<1>1. PICK s \in Seeds : obs = s.obs /\ ckpt = s.ckpt
  BY DEF Init
<1>2. ckpt \in CkptRow /\ Tidy(ckpt) /\ obs \in Ledger /\ Len(obs) <= MaxObs
  BY <1>1, SeedsAssumption DEF TidySeeds, Ledger, Time
<1>3. Between("none", 0, 0) \in Registry
  BY BetweenType DEF Regimes
<1>4. TypeOK
  BY <1>2, <1>3, LimitsAssumption DEF Init, TypeOK, Time, Ledger
<1>5. Sound(Between("none", 0, 0), obs, ckpt)
  BY <1>2, LedgerLength DEF Sound, Between
<1> QED BY <1>2, <1>4, <1>5 DEF Inv, Init

LEMMA KeepsEnter ==
    ASSUME Inv, NEW p \in Procs, Enter(p)
    PROVE  Inv'
<1> DEFINE me == proc[p]
<1>1. me \in Registry /\ Sound(me, obs, ckpt) /\ obs \in Ledger /\ ckpt \in CkptRow /\ Tidy(ckpt)
  BY DEF Inv, TypeOK, Ledger
<1>2. Canonical(ckpt) = ckpt
  BY <1>1, CanonicalType
<1>3. Len(obs) \in Nat /\ clock \in Nat
  BY <1>1, LedgerLength, LimitsAssumption DEF Inv, TypeOK, Time
<1> DEFINE m == [me EXCEPT !.pc = "token", !.high = Len(obs)]
<1>4. proc' = [proc EXCEPT ![p] = m] /\ me.pc = "idle" /\ ckpt' = ckpt /\ obs' = obs
  BY <1>1, <1>2 DEF Enter, Inv, TypeOK, Registry
<1>5. m \in Registry
  BY <1>1, <1>3 DEF Registry, Steps
<1>6. Sound(m, obs, ckpt)
  BY <1>1, <1>3, <1>4 DEF Sound, Registry, Steps
<1>7. Counters'
  BY LimitsAssumption DEF Counters, Inv, TypeOK, Enter
<1> HIDE DEF m
<1> QED BY <1>1, <1>4, <1>5, <1>6, <1>7, OwnStep

LEMMA KeepsReadToken ==
    ASSUME Inv, NEW p \in Procs, ReadToken(p)
    PROVE  Inv'
<1> DEFINE me == proc[p]
<1>1. me \in Registry /\ Sound(me, obs, ckpt) /\ obs \in Ledger /\ ckpt \in CkptRow /\ Tidy(ckpt)
  BY DEF Inv, TypeOK, Ledger
<1>2. Canonical(ckpt) = ckpt
  BY <1>1, CanonicalType
<1>3. Len(obs) \in Nat /\ clock \in Nat
  BY <1>1, LedgerLength, LimitsAssumption DEF Inv, TypeOK, Time
<1> DEFINE m == [me EXCEPT !.pc = "read", !.epoch = EpochOf(ckpt), !.expected = ckpt]
<1>4. proc' = [proc EXCEPT ![p] = m] /\ me.pc = "token" /\ ckpt' = ckpt /\ obs' = obs
  BY <1>1, <1>2 DEF ReadToken, Inv, TypeOK, Registry
<1>5. m \in Registry
  <2>1. EpochOf(ckpt) \in Nat \X Nat
    BY <1>1 DEF EpochOf, CkptRow
  <2> QED BY <1>1, <2>1 DEF Registry, Steps
<1>6. Sound(m, obs, ckpt)
  BY <1>1, <1>3, <1>4 DEF Sound, Registry, Steps
<1>7. Counters'
  BY DEF Counters, Inv, TypeOK, ReadToken
<1> HIDE DEF m
<1> QED BY <1>1, <1>4, <1>5, <1>6, <1>7, OwnStep

LEMMA KeepsReread ==
    ASSUME Inv, NEW p \in Procs, Reread(p)
    PROVE  Inv'
<1> DEFINE me == proc[p]
<1>1. me \in Registry /\ Sound(me, obs, ckpt) /\ obs \in Ledger /\ ckpt \in CkptRow /\ Tidy(ckpt)
  BY DEF Inv, TypeOK, Ledger
<1>2. Canonical(ckpt) = ckpt
  BY <1>1, CanonicalType
<1>3. Len(obs) \in Nat /\ clock \in Nat
  BY <1>1, LedgerLength, LimitsAssumption DEF Inv, TypeOK, Time
<1> DEFINE m == [me EXCEPT !.pc = "evaluate", !.read = ckpt]
<1>4. proc' = [proc EXCEPT ![p] = m] /\ me.pc = "reread" /\ ckpt' = ckpt /\ obs' = obs
  BY <1>1, <1>2 DEF Reread, Inv, TypeOK, Registry
<1>5. m \in Registry
  BY <1>1, <1>3 DEF Registry, Steps
<1>6. Sound(m, obs, ckpt)
  BY <1>1, <1>3, <1>4 DEF Sound, Registry, Steps
<1>7. Counters'
  BY DEF Counters, Inv, TypeOK, Reread
<1> HIDE DEF m
<1> QED BY <1>1, <1>4, <1>5, <1>6, <1>7, OwnStep

LEMMA KeepsRecheck ==
    ASSUME Inv, NEW p \in Procs, Recheck(p)
    PROVE  Inv'
<1> DEFINE me == proc[p]
<1>1. me \in Registry /\ Sound(me, obs, ckpt) /\ obs \in Ledger /\ ckpt \in CkptRow /\ Tidy(ckpt)
  BY DEF Inv, TypeOK, Ledger
<1>2. Canonical(ckpt) = ckpt
  BY <1>1, CanonicalType
<1>3. Len(obs) \in Nat /\ clock \in Nat
  BY <1>1, LedgerLength, LimitsAssumption DEF Inv, TypeOK, Time
<1> DEFINE m == [me EXCEPT !.pc = "finish", !.read = ckpt]
<1>4. proc' = [proc EXCEPT ![p] = m] /\ me.pc = "recheck" /\ ckpt' = ckpt /\ obs' = obs
  BY <1>1, <1>2 DEF Recheck, Inv, TypeOK, Registry
<1>5. m \in Registry
  BY <1>1, <1>3 DEF Registry, Steps
<1>6. Sound(m, obs, ckpt)
  BY <1>1, <1>3, <1>4 DEF Sound, Registry, Steps
<1>7. Counters'
  BY DEF Counters, Inv, TypeOK, Recheck
<1> HIDE DEF m
<1> QED BY <1>1, <1>4, <1>5, <1>6, <1>7, OwnStep

LEMMA KeepsReadCheckpoint ==
    ASSUME Inv, NEW p \in Procs, ReadCheckpoint(p)
    PROVE  Inv'
<1> DEFINE me == proc[p]
<1>1. me \in Registry /\ Sound(me, obs, ckpt) /\ obs \in Ledger /\ ckpt \in CkptRow /\ Tidy(ckpt)
  BY DEF Inv, TypeOK, Ledger
<1>2. Canonical(ckpt) = ckpt
  BY <1>1, CanonicalType
<1>3. Len(obs) \in Nat /\ clock \in Nat
  BY <1>1, LedgerLength, LimitsAssumption DEF Inv, TypeOK, Time
<1>4. PICK pc \in {"retire", "evaluate"} :
        proc' = [proc EXCEPT ![p] = [me EXCEPT !.pc = pc, !.read = ckpt, !.decision.now = clock]]
  BY <1>1, <1>2 DEF ReadCheckpoint, Inv, TypeOK, Registry
<1> DEFINE d == [me.decision EXCEPT !.now = clock]
           m == [me EXCEPT !.pc = pc, !.read = ckpt, !.decision = d]
<1>5. proc' = [proc EXCEPT ![p] = m]
  BY <1>4
<1>6. me.pc = "read" /\ ckpt' = ckpt /\ obs' = obs
  BY DEF ReadCheckpoint
<1>7. d \in Decision
  BY <1>1, <1>3 DEF Registry, Decision
<1> HIDE DEF d
<1>8. m \in Registry
  BY <1>1, <1>7, Zenon DEF Registry, Steps
<1>9. Sound(m, obs, ckpt)
  BY <1>1, <1>3, <1>6 DEF Sound, Registry, Steps
<1>10. Counters'
  BY DEF Counters, Inv, TypeOK, ReadCheckpoint
<1> HIDE DEF m
<1> QED BY <1>1, <1>5, <1>6, <1>8, <1>9, <1>10, OwnStep

LEMMA KeepsFinish ==
    ASSUME Inv, NEW p \in Procs, Finish(p)
    PROVE  Inv'
<1> DEFINE me == proc[p]
<1>1. me \in Registry /\ Sound(me, obs, ckpt) /\ obs \in Ledger /\ ckpt \in CkptRow /\ Tidy(ckpt)
  BY DEF Inv, TypeOK, Ledger
<1>2. Canonical(ckpt) = ckpt
  BY <1>1, CanonicalType
<1>3. Len(obs) \in Nat /\ clock \in Nat
  BY <1>1, LedgerLength, LimitsAssumption DEF Inv, TypeOK, Time
<1> DEFINE m == IF Conflicted(me) THEN Between("fallback", 0, me.refreshed)
                ELSE Between(me.regime, me.pending, me.refreshed)
<1>4. proc' = [proc EXCEPT ![p] = m] /\ ckpt' = ckpt /\ obs' = obs
  BY DEF Finish
<1>5. /\ me.regime \in Regimes /\ me.pending \in Nat /\ me.refreshed \in Nat
      /\ "fallback" \in Regimes /\ 0 \in Nat
  BY <1>1 DEF Registry, Regimes
<1>6. m \in Registry
  BY <1>5, BetweenType
<1>7. Sound(m, obs, ckpt)
  BY <1>3 DEF Sound, Between
<1>8. Counters'
  BY DEF Counters, Inv, TypeOK, Finish
<1> HIDE DEF m
<1> QED BY <1>1, <1>4, <1>6, <1>7, <1>8, OwnStep

LEMMA KeepsFork ==
    ASSUME Inv, NEW p \in Procs, Fork(p)
    PROVE  Inv'
<1> DEFINE me == proc[p]
<1>1. me \in Registry /\ Sound(me, obs, ckpt) /\ obs \in Ledger /\ ckpt \in CkptRow /\ Tidy(ckpt)
  BY DEF Inv, TypeOK, Ledger
<1>2. Canonical(ckpt) = ckpt
  BY <1>1, CanonicalType
<1>3. Len(obs) \in Nat /\ clock \in Nat
  BY <1>1, LedgerLength, LimitsAssumption DEF Inv, TypeOK, Time
<1> DEFINE m == Between("none", 0, 0)
<1>4. proc' = [proc EXCEPT ![p] = m] /\ ckpt' = ckpt /\ obs' = obs
  BY DEF Fork
<1>5. "none" \in Regimes /\ 0 \in Nat
  BY DEF Regimes
<1>6. m \in Registry
  BY <1>5, BetweenType
<1>7. Sound(m, obs, ckpt)
  BY <1>3 DEF Sound, Between
<1>8. Counters'
  BY DEF Counters, Inv, TypeOK, Fork
<1> HIDE DEF m
<1> QED BY <1>1, <1>4, <1>6, <1>7, <1>8, OwnStep

LEMMA KeepsEvaluate ==
    ASSUME Inv, NEW p \in Procs, Evaluate(p)
    PROVE  Inv'
<1> DEFINE me == proc[p]
<1>1. me \in Registry /\ Sound(me, obs, ckpt) /\ obs \in Ledger /\ ckpt \in CkptRow /\ Tidy(ckpt)
  BY DEF Inv, TypeOK, Ledger
<1>2. Canonical(ckpt) = ckpt
  BY <1>1, CanonicalType
<1>3. Len(obs) \in Nat /\ clock \in Nat
  BY <1>1, LedgerLength, LimitsAssumption DEF Inv, TypeOK, Time
<1> DEFINE o == Reading
<1>4. o \in Ledger /\ Len(o) = Len(obs) /\ Rows(o, 0) = Rows(obs, 0)
  BY <1>1, ReadingKeepsRows DEF Inv, TypeOK
<1>5. me.read.started \in Nat
  BY <1>1 DEF Registry, CkptRow
<1>6. PICK regime \in {"weighted", "fallback"}, change \in Nat, b \in Nat :
        proc' = [proc EXCEPT ![p] = Decided(me, o, regime, Rows(o, b), change)]
  <2>1. CASE \E enter, stay \in BOOLEAN :
               proc' = [proc EXCEPT ![p] = Decided(me, o, Chosen(Previous(me, o), enter, stay),
                                                   Rows(o, me.read.started), 0)]
    <3>1. PICK enter \in BOOLEAN, stay \in BOOLEAN :
             proc' = [proc EXCEPT ![p] = Decided(me, o, Chosen(Previous(me, o), enter, stay),
                                                 Rows(o, me.read.started), 0)]
      BY <2>1
    <3>2. Chosen(Previous(me, o), enter, stay) \in {"weighted", "fallback"}
      BY DEF Chosen
    <3> QED BY <3>1, <3>2, <1>5
  <2>2. CASE \E change \in Changes(o, me.read.started), regime \in {"weighted", "fallback"} :
               proc' = [proc EXCEPT ![p] = Decided(me, o, regime, Rows(o, change), change)]
    <3>1. PICK change \in Changes(o, me.read.started), regime \in {"weighted", "fallback"} :
             proc' = [proc EXCEPT ![p] = Decided(me, o, regime, Rows(o, change), change)]
      BY <2>2
    <3>2. PICK i \in Rows(o, me.read.started) : change = o[i].at
      BY <3>1 DEF Changes
    <3>3. i \in DOMAIN o
      BY <3>2, <1>4, <1>5, RowsInLedger
    <3>4. change \in Nat
      BY <3>2, <3>3, <1>4, LedgerTimes
    <3> QED BY <3>1, <3>4
  <2> QED BY <2>1, <2>2 DEF Evaluate
<1> HIDE DEF o, me
<1> DEFINE m == Decided(me, o, regime, Rows(o, b), change)
<1>7. /\ m \in Registry /\ m.pc \in {"record", "recheck"} /\ m.high = me.high
      /\ m.epoch = me.epoch /\ m.expected = me.expected /\ m.conflict = me.conflict
      /\ m.touched = me.touched /\ \A r \in m.used : r.id \in Rows(o, 0)
      /\ (m.pc = "record" => m.decision.started <= m.decision.version.updated)
  <2>1. m = Decided(me, o, regime, Rows(o, b), change)
    OBVIOUS
  <2> HIDE DEF m
  <2>2. me \in Registry /\ o \in Ledger
    BY <1>1, <1>4
  <2>3. regime \in {"weighted", "fallback"} /\ change \in Nat /\ b \in Nat
    BY <1>6
  <2> QED BY <2>1, <2>2, <2>3, DecidedType
<1>8. me.pc = "evaluate" /\ ckpt' = ckpt /\ obs' = o
  BY DEF Evaluate, o, me
<1>9. Counters'
  BY DEF Counters, Inv, TypeOK, Evaluate
<1> HIDE DEF m
<1>10. Sound(m, o, ckpt)
  BY <1>1, <1>4, <1>7, <1>8 DEF Sound, Steps
<1>11. proc' = [proc EXCEPT ![p] = m]
  BY <1>6 DEF m
<1> QED BY <1>4, <1>7, <1>8, <1>9, <1>10, <1>11, OwnStep

LEMMA KeepsRetire ==
    ASSUME Inv, NEW p \in Procs, Retire(p)
    PROVE  Inv'
<1> DEFINE me == proc[p]
<1>1. me \in Registry /\ Sound(me, obs, ckpt) /\ obs \in Ledger /\ ckpt \in CkptRow /\ Tidy(ckpt)
  BY DEF Inv, TypeOK, Ledger
<1>2. Canonical(ckpt) = ckpt
  BY <1>1, CanonicalType
<1>3. Len(obs) \in Nat /\ clock \in Nat
  BY <1>1, LedgerLength, LimitsAssumption DEF Inv, TypeOK, Time
<1> DEFINE now == me.decision.now
           row == [ckpt EXCEPT !.regime = "fallback", !.decision = now, !.expires = now]
<1>4. now \in Nat /\ me.pc = "retire" /\ obs' = obs
  BY <1>1 DEF Retire, Registry, Decision
<1>5. Counters'
  BY DEF Counters, Inv, TypeOK, Retire
<1>6. CASE Retirable(ckpt, me.read, now) /\ ckpt' = row
           /\ proc' = [Touch(Procs \ {p}) EXCEPT ![p] = [Authorized(me, row) EXCEPT !.pc = "reread"]]
  <2> DEFINE m == [Authorized(me, row) EXCEPT !.pc = "reread"]
  <2>1. row \in CkptRow /\ Tidy(row) /\ EpochOf(row) = EpochOf(ckpt)
    <3> HIDE DEF now
    <3>1. row \in CkptRow
      BY <1>1, <1>4 DEF CkptRow, Regimes
    <3>2. /\ row.regime = "fallback" /\ row.decision = now /\ row.expires = now
          /\ row.started = ckpt.started /\ row.updated = ckpt.updated /\ row.epoch = ckpt.epoch
      BY <1>1 DEF CkptRow
    <3> HIDE DEF row
    <3>3. /\ ckpt.started \in Nat /\ ckpt.updated \in Nat /\ ckpt.decision \in Nat
          /\ ckpt.expires \in Nat
      BY <1>1 DEF CkptRow
    <3>4. Tidy(row)
      BY <1>1, <1>4, <1>6, <3>2, <3>3 DEF Tidy, Retirable
    <3> QED BY <3>1, <3>2, <3>4 DEF EpochOf
  <2> HIDE DEF row
  <2>2. Canonical(row) = row
    BY <2>1, CanonicalType
  <2>3. m = [me EXCEPT !.expected = row, !.pc = "reread"]
    BY <2>2 DEF Authorized
  <2>4. m \in Registry
    BY <1>1, <2>1, <2>3 DEF Registry, Steps
  <2>5. Sound(m, obs, row)
    BY <1>1, <1>4, <2>1, <2>3 DEF Sound, Registry, Steps
  <2>6. proc' = [Touch(Procs \ {p}) EXCEPT ![p] = m] /\ ckpt' = row
    BY <1>6
  <2> HIDE DEF m, me
  <2> QED BY <1>4, <1>5, <2>1, <2>4, <2>5, <2>6, RowStep
<1>7. CASE /\ ~Retirable(ckpt, me.read, now) /\ ckpt' = ckpt
           /\ proc' = [proc EXCEPT ![p].pc = "reread",
                          ![p].conflict = @ \/ Canonical(ckpt) # proc[p].expected]
  <2> DEFINE conflict == me.conflict \/ ckpt # me.expected
             m == [me EXCEPT !.pc = "reread", !.conflict = conflict]
  <2>1. proc' = [proc EXCEPT ![p] = m]
    BY <1>1, <1>2, <1>7 DEF Inv, TypeOK, Registry
  <2>2. conflict \in BOOLEAN
    BY <1>1 DEF Registry
  <2>3. ~me.touched => ~conflict
    BY <1>1, <1>4 DEF Sound, Steps
  <2> HIDE DEF conflict
  <2>4. m \in Registry
    BY <1>1, <2>2 DEF Registry, Steps
  <2>5. Sound(m, obs, ckpt)
    BY <1>1, <1>4, <2>3 DEF Sound, Registry, Steps
  <2> HIDE DEF m
  <2> QED BY <1>1, <1>4, <1>5, <1>7, <2>1, <2>4, <2>5, OwnStep
<1> QED BY <1>6, <1>7 DEF Retire

\* What recording a decision does to the row.
LEMMA RecordedRow ==
    ASSUME Inv, NEW p \in Procs, proc[p].pc = "record"
    PROVE  LET new == Proposed(ckpt, proc[p].decision)
               row == IF Supersedes(new, ckpt) THEN new ELSE ckpt
           IN /\ row \in CkptRow /\ Tidy(row)
              /\ \/ row.epoch = ckpt.epoch /\ row.started = ckpt.started
                 \/ row.epoch = ckpt.epoch + 1 /\ row.started > ckpt.started
<1> DEFINE d == proc[p].decision
<1>1. ckpt \in CkptRow /\ Tidy(ckpt) /\ d \in Decision /\ d.started <= d.version.updated
  BY DEF Inv, TypeOK, Registry, Sound
<1> HIDE DEF d
<1>2. Proposed(ckpt, d) \in CkptRow
  BY <1>1, ProposedType
<1>3. CASE Supersedes(Proposed(ckpt, d), ckpt)
  BY <1>1, <1>2, <1>3, ProposedIsTidy DEF d
<1>4. CASE ~Supersedes(Proposed(ckpt, d), ckpt)
  BY <1>1, <1>4 DEF d
<1> QED BY <1>3, <1>4

LEMMA KeepsRecord ==
    ASSUME Inv, NEW p \in Procs, Record(p)
    PROVE  Inv'
<1> DEFINE me == proc[p]
<1>1. me \in Registry /\ Sound(me, obs, ckpt) /\ obs \in Ledger /\ ckpt \in CkptRow /\ Tidy(ckpt)
  BY DEF Inv, TypeOK, Ledger
<1>2. Canonical(ckpt) = ckpt
  BY <1>1, CanonicalType
<1>3. Len(obs) \in Nat /\ clock \in Nat
  BY <1>1, LedgerLength, LimitsAssumption DEF Inv, TypeOK, Time
<1> DEFINE new == Proposed(ckpt, me.decision)
           row == IF Supersedes(new, ckpt) THEN new ELSE ckpt
           Kept(c) == IF c.started >= me.pending THEN 0 ELSE me.pending
<1>4. me.pc = "record" /\ obs' = obs /\ me.pending \in Nat /\ me.refreshed \in Nat
  BY <1>1 DEF Record, Registry
<1>5. Counters'
  BY DEF Counters, Inv, TypeOK, Record
<1>6. row \in CkptRow /\ Tidy(row)
  BY <1>4, RecordedRow
<1>7. Canonical(row) = row /\ row.decision \in Nat /\ ckpt.decision \in Nat
      /\ Kept(row) \in Nat /\ Kept(ckpt) \in Nat
  <2> HIDE DEF row
  <2>1. Canonical(row) = row
    BY <1>6, CanonicalType
  <2>2. row.decision \in Nat /\ ckpt.decision \in Nat
    BY <1>1, <1>6 DEF CkptRow
  <2> QED BY <2>1, <2>2, <1>4
<1>8. CASE /\ Recordable(me) /\ ckpt' = row
           /\ proc' = [(IF row # ckpt THEN Touch(Procs \ {p}) ELSE proc) EXCEPT
                          ![p] = [Authorized(me, row) EXCEPT
                                    !.pc = "recheck", !.pending = Kept(row),
                                    !.opened = row.epoch # ckpt.epoch,
                                    !.refreshed = row.decision, !.decision = NoDecision]]
  <2> DEFINE kept == Kept(row)
             opened == row.epoch # ckpt.epoch
             m == [me EXCEPT !.expected = row, !.pc = "recheck", !.pending = kept,
                             !.opened = opened, !.refreshed = row.decision,
                             !.decision = NoDecision]
  <2>1. proc' = [(IF row # ckpt THEN Touch(Procs \ {p}) ELSE proc) EXCEPT ![p] = m]
    BY <1>7, <1>8 DEF Authorized
  <2> HIDE DEF row, kept, opened
  <2>2. kept \in Nat /\ opened \in BOOLEAN
    BY <1>7 DEF kept, opened
  <2>3. m \in Registry
    BY <1>1, <1>6, <1>7, <2>2, NoRowType DEF Registry, Steps
  <2>4. Sound(m, obs, row)
    BY <1>1, <1>4 DEF Sound, Registry, Steps
  <2> HIDE DEF m
  <2>5. CASE row # ckpt
    BY <1>4, <1>5, <1>6, <1>8, <2>1, <2>3, <2>4, <2>5, RowStep
  <2>6. CASE row = ckpt
    BY <1>1, <1>4, <1>5, <1>8, <2>1, <2>3, <2>4, <2>6, OwnStep
  <2> QED BY <2>5, <2>6
<1>9. CASE /\ ~Recordable(me) /\ ckpt' = ckpt
           /\ proc' = [proc EXCEPT
                          ![p].pc = "recheck", ![p].pending = Kept(ckpt), ![p].conflict = TRUE,
                          ![p].refreshed = IF ckpt = NoRow THEN @ ELSE ckpt.decision,
                          ![p].decision = NoDecision]
  <2> DEFINE kept == Kept(ckpt)
             refreshed == IF ckpt = NoRow THEN me.refreshed ELSE ckpt.decision
             m == [me EXCEPT !.pc = "recheck", !.pending = kept, !.conflict = TRUE,
                             !.refreshed = refreshed, !.decision = NoDecision]
  <2>1. proc' = [proc EXCEPT ![p] = m]
    BY <1>1, <1>9 DEF Inv, TypeOK, Registry
  <2>2. kept \in Nat /\ refreshed \in Nat
    BY <1>4, <1>7
  <2> HIDE DEF kept, refreshed
  <2>3. m \in Registry
    BY <1>1, <2>2, NoRowType DEF Registry, Steps
  <2>4. me.touched
    BY <1>1, <1>2, <1>4, <1>9 DEF Sound, Recordable, Steps
  <2>5. Sound(m, obs, ckpt)
    BY <1>1, <1>4, <2>4 DEF Sound, Registry, Steps
  <2> HIDE DEF m
  <2> QED BY <1>1, <1>4, <1>5, <1>9, <2>1, <2>3, <2>5, OwnStep
<1> QED BY <1>8, <1>9 DEF Record

LEMMA KeepsObserve ==
    ASSUME Inv, NEW c \in Configs, Observe(c)
    PROVE  Inv'
<1> DEFINE x == [config |-> c, at |-> clock]
           X == [config : Configs, at : Time]
<1>1. obs \in Seq(X) /\ x \in X /\ Len(obs) < MaxObs /\ obs' = Append(obs, x)
  BY DEF Inv, TypeOK, Observe
<1> HIDE DEF x, X
<1>2. obs' \in Seq(X) /\ Len(obs') = Len(obs) + 1 /\ Len(obs) \in Nat
  BY <1>1
<1>3. obs \in Ledger /\ obs' \in Ledger
  BY <1>1, <1>2 DEF Ledger, X
<1>4. ASSUME NEW q \in Procs
      PROVE  proc'[q] \in Registry /\ Sound(proc'[q], obs', ckpt)
  <2>1. proc'[q] = [proc[q] EXCEPT !.touched = @ \/ (TRUE /\ proc[q].pc # "idle")]
    BY DEF Observe, Touch
  <2>2. proc[q] \in Registry /\ Sound(proc[q], obs, ckpt)
    BY DEF Inv, TypeOK
  <2> QED BY <1>2, <1>3, <2>1, <2>2, SoundWhenTouched
<1>5. proc' \in [Procs -> Registry]
  <2>1. proc' = [q \in Procs |-> proc'[q]]
    BY DEF Observe, Touch
  <2> QED BY <1>4, <2>1
<1>6. Len(obs') <= MaxObs
  BY <1>1, <1>2, LimitsAssumption
<1>7. TypeOK'
  BY <1>3, <1>5, <1>6 DEF Inv, TypeOK, Observe, Ledger
<1> QED BY <1>4, <1>7 DEF Inv, Observe

LEMMA KeepsClock ==
    ASSUME Inv, Tick \/ JumpBack \/ UNCHANGED vars
    PROVE  Inv'
<1>1. UNCHANGED <<obs, ckpt, proc>>
  BY DEF Tick, JumpBack, vars
<1>2. TypeOK'
  BY <1>1, LimitsAssumption DEF Inv, TypeOK, Tick, JumpBack, vars, Time
<1> QED BY <1>1, <1>2 DEF Inv

LEMMA NextInv == Inv /\ [Next]_vars => Inv'
<1> SUFFICES ASSUME Inv, [Next]_vars PROVE Inv'
  OBVIOUS
<1>1. ASSUME NEW p \in Procs, Step(p) PROVE Inv'
  BY <1>1, KeepsEnter, KeepsReadToken, KeepsReadCheckpoint, KeepsRetire, KeepsReread,
     KeepsEvaluate, KeepsRecord, KeepsRecheck, KeepsFinish, KeepsFork DEF Step
<1>2. ASSUME NEW c \in Configs, Observe(c) PROVE Inv'
  BY <1>2, KeepsObserve
<1> QED BY <1>1, <1>2, KeepsClock DEF Next

\* Every behaviour that starts from consistent rows keeps the invariant.
THEOREM RoutingInvariant == TidySeeds /\ Spec => []Inv
<1>1. TidySeeds /\ Init => Inv
  BY InitInv
<1>2. Inv /\ [Next]_vars => Inv'
  BY NextInv
<1> QED BY <1>1, <1>2, PTL DEF Spec

\* Only a retirement or a record writes the row, and a record alone moves its boundary.
LEMMA BoundaryStep ==
    ASSUME Inv, [Next]_vars
    PROVE  \/ ckpt'.epoch = ckpt.epoch /\ ckpt'.started = ckpt.started
           \/ ckpt'.epoch = ckpt.epoch + 1 /\ ckpt'.started > ckpt.started
<1>1. CASE ckpt' = ckpt
  BY <1>1
<1>2. CASE ckpt' # ckpt
  <2>1. PICK p \in Procs : Retire(p) \/ Record(p)
    BY <1>2 DEF Next, Step, vars, Enter, ReadToken, ReadCheckpoint, Reread, Evaluate, Recheck,
           Finish, Fork, Observe, Tick, JumpBack
  <2>2. ckpt \in CkptRow
    BY DEF Inv, TypeOK
  <2>3. CASE Retire(p)
    BY <2>2, <2>3 DEF Retire, CkptRow
  <2>4. CASE Record(p)
    <3> DEFINE new == Proposed(ckpt, proc[p].decision)
               row == IF Supersedes(new, ckpt) THEN new ELSE ckpt
    <3>1. proc[p].pc = "record" /\ ckpt' = row
      BY <1>2, <2>4 DEF Record
    <3> QED BY <3>1, RecordedRow
  <2> QED BY <2>1, <2>3, <2>4
<1> QED BY <1>1, <1>2

-----------------------------------------------------------------------------
(* The boundary of a decision.                                              *)

\* What a registry me may rely on about the boundary of the epoch over the row c: it only moves
\* forward from the one that was expected, and what the decision uses is no older than that,
\* unless it opened an epoch itself.
Bounded(me, c) ==
    /\ me.pc \notin {"recheck", "finish"} => ~me.opened
    /\ me.pc \in {"read", "retire", "reread", "evaluate"} => me.expected.started <= c.started
    /\ me.pc = "evaluate" => me.expected.started <= me.read.started
    /\ me.pc \in {"record", "recheck", "finish"} /\ ~me.opened =>
          \A r \in me.used : r.at >= me.expected.started

EpochInv == \A p \in Procs : Bounded(proc[p], ckpt)

LEMMA BoundedStays ==
    ASSUME NEW me \in Registry, NEW m, NEW c \in CkptRow, NEW c2 \in CkptRow, Bounded(me, c),
           c.started <= c2.started,
           m = me \/ \E b : m = [me EXCEPT !.touched = b]
    PROVE  Bounded(m, c2)
<1>1. /\ m.pc = me.pc /\ m.opened = me.opened /\ m.expected = me.expected /\ m.read = me.read
      /\ m.used = me.used
  BY DEF Registry
<1>2. me.expected.started \in Nat /\ c.started \in Nat /\ c2.started \in Nat
  BY DEF Registry, CkptRow
<1> QED BY <1>1, <1>2 DEF Bounded

\* The rows a decision uses are those since some time that is not before its boundary.
LEMMA EvaluateIsBounded ==
    ASSUME Inv, NEW p \in Procs, Bounded(proc[p], ckpt), Evaluate(p)
    PROVE  Bounded(proc'[p], ckpt')
<1> DEFINE me == proc[p]
           o  == Reading
<1>1. me \in Registry /\ me.pc = "evaluate" /\ obs \in Ledger
  BY DEF Inv, TypeOK, Ledger, Evaluate
<1>2. o \in Ledger
  BY <1>1, ReadingKeepsRows DEF Inv, TypeOK
<1>3. me.read.started \in Nat /\ me.expected.started \in Nat
  BY <1>1 DEF Registry, CkptRow
<1>4. PICK regime \in {"weighted", "fallback"}, change \in Nat, b \in Nat :
        /\ proc' = [proc EXCEPT ![p] = Decided(me, o, regime, Rows(o, b), change)]
        /\ b >= me.read.started
  <2>1. CASE \E enter, stay \in BOOLEAN :
               proc' = [proc EXCEPT ![p] = Decided(me, o, Chosen(Previous(me, o), enter, stay),
                                                   Rows(o, me.read.started), 0)]
    <3>1. PICK enter \in BOOLEAN, stay \in BOOLEAN :
             proc' = [proc EXCEPT ![p] = Decided(me, o, Chosen(Previous(me, o), enter, stay),
                                                 Rows(o, me.read.started), 0)]
      BY <2>1
    <3>2. Chosen(Previous(me, o), enter, stay) \in {"weighted", "fallback"}
      BY DEF Chosen
    <3>3. me.read.started >= me.read.started
      BY <1>3
    <3> HIDE DEF o, me
    <3> QED BY <3>1, <3>2, <3>3, <1>3
  <2>2. CASE \E change \in Changes(o, me.read.started), regime \in {"weighted", "fallback"} :
               proc' = [proc EXCEPT ![p] = Decided(me, o, regime, Rows(o, change), change)]
    <3>1. PICK change \in Changes(o, me.read.started), regime \in {"weighted", "fallback"} :
             proc' = [proc EXCEPT ![p] = Decided(me, o, regime, Rows(o, change), change)]
      BY <2>2
    <3>2. PICK i \in Rows(o, me.read.started) : change = o[i].at
      BY <3>1 DEF Changes
    <3>3. i \in DOMAIN o /\ o[i].at >= me.read.started
      BY <3>2 DEF Rows
    <3>4. change \in Nat
      BY <3>2, <3>3, <1>2, LedgerTimes
    <3>5. change >= me.read.started
      BY <3>2, <3>3
    <3> HIDE DEF o, me
    <3> QED BY <3>1, <3>4, <3>5
  <2> QED BY <2>1, <2>2 DEF Evaluate
<1>5. \A i \in Rows(o, b) : o[i].at >= b /\ o[i].at \in Nat
  BY <1>2, LedgerTimes DEF Rows
<1> HIDE DEF o, me
<1> DEFINE m == Decided(me, o, regime, Rows(o, b), change)
<1>6. /\ m.pc \in {"record", "recheck"} /\ m.opened = me.opened /\ m.expected = me.expected
      /\ m.used \in {{}, {[id |-> i, at |-> o[i].at] : i \in Rows(o, b)}}
  BY <1>1 DEF Decided, Registry
<1>7. \A r \in m.used : r.at >= me.expected.started
  <2>1. me.expected.started <= me.read.started
    BY <1>1 DEF Bounded, me
  <2>2. \A r \in {[id |-> i, at |-> o[i].at] : i \in Rows(o, b)} : r.at >= b /\ r.at \in Nat
    BY <1>5
  <2> HIDE DEF m
  <2> QED BY <1>3, <1>4, <1>6, <2>1, <2>2
<1>8. ~me.opened
  BY <1>1 DEF Bounded, me
<1> HIDE DEF m
<1>9. proc'[p] = m
  BY <1>4 DEF m, Inv, TypeOK
<1> QED BY <1>6, <1>7, <1>8, <1>9 DEF Bounded

\* A record that goes through leaves the boundary that was expected, or opens an epoch.
LEMMA RecordIsBounded ==
    ASSUME Inv, NEW p \in Procs, Bounded(proc[p], ckpt), Record(p)
    PROVE  Bounded(proc'[p], ckpt')
<1> DEFINE me  == proc[p]
           new == Proposed(ckpt, me.decision)
           row == IF Supersedes(new, ckpt) THEN new ELSE ckpt
           kept == IF row.started >= me.pending THEN 0 ELSE me.pending
           opened == row.epoch # ckpt.epoch
<1>1. me \in Registry /\ ckpt \in CkptRow /\ Canonical(ckpt) = ckpt /\ me.pc = "record"
  BY CanonicalType DEF Inv, TypeOK, Record
<1>2. /\ row \in CkptRow /\ Tidy(row)
      /\ \/ row.epoch = ckpt.epoch /\ row.started = ckpt.started
         \/ row.epoch = ckpt.epoch + 1 /\ row.started > ckpt.started
  BY <1>1, RecordedRow
<1> HIDE DEF row
<1>3. Canonical(row) = row
  BY <1>2, CanonicalType
<1>4. ~me.opened /\ \A r \in me.used : r.at >= me.expected.started
  BY <1>1 DEF Bounded
<1>5. CASE /\ Canonical(ckpt) = me.expected
           /\ proc'[p] = [Authorized(me, row) EXCEPT
                            !.pc = "recheck", !.pending = kept, !.opened = opened,
                            !.refreshed = row.decision, !.decision = NoDecision]
  <2> DEFINE m == [me EXCEPT !.expected = row, !.pc = "recheck", !.pending = kept,
                             !.opened = opened, !.refreshed = row.decision,
                             !.decision = NoDecision]
  <2>1. ckpt = me.expected /\ proc'[p] = m
    BY <1>1, <1>3, <1>5 DEF Authorized
  <2>2. ~opened => row.started = ckpt.started
    BY <1>1, <1>2 DEF CkptRow, opened
  <2> HIDE DEF kept, opened, me
  <2>3. m.pc = "recheck" /\ m.used = me.used /\ m.expected = row /\ m.opened = opened
    BY <1>1 DEF Registry
  <2> HIDE DEF m
  <2> QED BY <1>4, <2>1, <2>2, <2>3 DEF Bounded
<1>6. CASE \E later, refreshed :
             proc'[p] = [me EXCEPT !.pc = "recheck", !.pending = later, !.conflict = TRUE,
                                   !.refreshed = refreshed, !.decision = NoDecision]
  <2>1. PICK later, refreshed :
             proc'[p] = [me EXCEPT !.pc = "recheck", !.pending = later, !.conflict = TRUE,
                                   !.refreshed = refreshed, !.decision = NoDecision]
    BY <1>6
  <2>2. /\ proc'[p].pc = "recheck" /\ proc'[p].used = me.used /\ proc'[p].expected = me.expected
        /\ proc'[p].opened = me.opened
    BY <1>1, <2>1 DEF Registry
  <2> QED BY <1>4, <2>2 DEF Bounded
<1>7. proc \in [Procs -> Registry]
  BY DEF Inv, TypeOK
<1>8. CASE Recordable(me)
  <2>1. proc'[p] = [Authorized(me, row) EXCEPT
                      !.pc = "recheck", !.pending = kept, !.opened = opened,
                      !.refreshed = row.decision, !.decision = NoDecision]
    BY <1>7, <1>8 DEF Record, Touch, row
  <2> QED BY <1>5, <1>8, <2>1 DEF Recordable
<1>9. CASE ~Recordable(me)
  <2>1. proc'[p] = [me EXCEPT !.pc = "recheck",
                              !.pending = IF ckpt.started >= me.pending THEN 0 ELSE me.pending,
                              !.conflict = TRUE,
                              !.refreshed = IF ckpt = NoRow THEN me.refreshed ELSE ckpt.decision,
                              !.decision = NoDecision]
    BY <1>1, <1>7, <1>9 DEF Record, Registry
  <2> HIDE DEF me
  <2> QED BY <1>6, <2>1
<1> QED BY <1>8, <1>9

LEMMA EpochStep == Inv /\ EpochInv /\ [Next]_vars => EpochInv'
<1> SUFFICES ASSUME Inv, EpochInv, [Next]_vars, NEW q \in Procs PROVE Bounded(proc[q], ckpt)'
  BY DEF EpochInv
<1>1. Inv'
  BY NextInv
<1>2. /\ ckpt \in CkptRow /\ ckpt' \in CkptRow /\ Canonical(ckpt) = ckpt
      /\ proc \in [Procs -> Registry] /\ proc[q] \in Registry /\ Bounded(proc[q], ckpt)
  BY <1>1, CanonicalType DEF Inv, TypeOK, EpochInv
<1>3. ckpt.started <= ckpt'.started /\ ckpt.started \in Nat
  BY <1>2, BoundaryStep DEF CkptRow
<1>4. CASE proc'[q] = proc[q] \/ \E b : proc'[q] = [proc[q] EXCEPT !.touched = b]
  BY <1>2, <1>3, <1>4, BoundedStays
<1>5. CASE Step(q)
  <2> DEFINE me == proc[q]
             m  == proc'[q]
  <2>1. CASE Enter(q) \/ ReadToken(q)
    <3>1. \/ me.pc = "idle" /\ m = [me EXCEPT !.pc = "token", !.high = Len(obs)]
          \/ me.pc = "token" /\ m = [me EXCEPT !.pc = "read", !.epoch = EpochOf(ckpt), !.expected = ckpt]
      BY <1>2, <2>1 DEF Enter, ReadToken, Registry
    <3>2. /\ m.opened = me.opened /\ ckpt' = ckpt
          /\ \/ me.pc = "idle" /\ m.pc = "token"
             \/ me.pc = "token" /\ m.pc = "read" /\ m.expected = ckpt
      BY <1>2, <2>1, <3>1 DEF Enter, ReadToken, Registry
    <3> QED BY <1>2, <1>3, <3>2 DEF Bounded
  <2>2. CASE ReadCheckpoint(q)
    <3>1. PICK pc \in {"retire", "evaluate"} :
            m = [me EXCEPT !.pc = pc, !.read = ckpt, !.decision = [@ EXCEPT !.now = clock]]
      BY <1>2, <2>2 DEF ReadCheckpoint, Registry
    <3>2. me.pc = "read" /\ ckpt' = ckpt
      BY <2>2 DEF ReadCheckpoint
    <3>3. /\ m.opened = me.opened /\ m.read = ckpt /\ m.expected = me.expected /\ m.pc = pc
      <4> DEFINE d == [me.decision EXCEPT !.now = clock]
      <4>1. m = [me EXCEPT !.pc = pc, !.read = ckpt, !.decision = d]
        BY <3>1
      <4> HIDE DEF d, me, m
      <4>2. me \in Registry
        BY <1>2 DEF me
      <4> QED BY <4>1, <4>2 DEF Registry
    <3> QED BY <1>2, <1>3, <3>2, <3>3 DEF Bounded
  <2>3. CASE Reread(q)
    <3>1. /\ m = [me EXCEPT !.pc = "evaluate", !.read = ckpt]
          /\ me.pc = "reread" /\ ckpt' = ckpt
      BY <1>2, <2>3 DEF Reread
    <3>2. /\ m.opened = me.opened /\ m.read = ckpt /\ m.expected = me.expected
          /\ m.pc = "evaluate"
      BY <1>2, <3>1 DEF Registry
    <3> QED BY <1>2, <1>3, <3>1, <3>2 DEF Bounded
  <2>6. CASE Recheck(q)
    <3>1. /\ m = [me EXCEPT !.pc = "finish", !.read = ckpt]
          /\ me.pc = "recheck" /\ ckpt' = ckpt
      BY <1>2, <2>6 DEF Recheck
    <3>2. /\ m.opened = me.opened /\ m.used = me.used /\ m.expected = me.expected
          /\ m.pc = "finish"
      BY <1>2, <3>1 DEF Registry
    <3> QED BY <1>2, <1>3, <3>1, <3>2 DEF Bounded
  <2>4. CASE Retire(q)
    <3>1. /\ me.pc = "retire"
          /\ \/ m = [Authorized(me, ckpt') EXCEPT !.pc = "reread"]
             \/ \E c : m = [me EXCEPT !.pc = "reread", !.conflict = c]
      BY <1>2, <2>4 DEF Retire, Touch, Registry
    <3>2. /\ m.pc = "reread" /\ m.opened = me.opened
          /\ m.expected = me.expected \/ m.expected = Canonical(ckpt')
      BY <1>2, <3>1 DEF Authorized, Registry
    <3>3. Canonical(ckpt') = ckpt'
      BY <1>1, <1>2, CanonicalType DEF Inv
    <3>4. me.expected.started \in Nat /\ ckpt'.started \in Nat
      BY <1>2 DEF Registry, CkptRow
    <3>5. me.expected.started <= ckpt.started /\ ~me.opened
      BY <1>2, <3>1 DEF Bounded
    <3>6. m.expected.started <= ckpt'.started
      BY <1>3, <3>2, <3>3, <3>4, <3>5
    <3> QED BY <3>2, <3>5, <3>6 DEF Bounded
  <2>5. CASE Finish(q) \/ Fork(q)
    BY <1>2, <2>5 DEF Bounded, Finish, Fork, Between
  <2>7. CASE Evaluate(q)
    BY <1>2, <2>7, EvaluateIsBounded
  <2>8. CASE Record(q)
    BY <1>2, <2>8, RecordIsBounded
  <2> QED BY <1>5, <2>1, <2>2, <2>3, <2>4, <2>5, <2>6, <2>7, <2>8 DEF Step
<1>6. ASSUME NEW p \in Procs, p # q, Step(p)
      PROVE  proc'[q] = proc[q] \/ \E b : proc'[q] = [proc[q] EXCEPT !.touched = b]
  BY <1>2, <1>6 DEF Step, Enter, ReadToken, ReadCheckpoint, Retire, Reread, Evaluate, Record,
     Recheck, Finish, Fork, Touch
<1>7. (\E c \in Configs : Observe(c)) \/ Tick \/ JumpBack \/ UNCHANGED vars
        => proc'[q] = proc[q] \/ \E b : proc'[q] = [proc[q] EXCEPT !.touched = b]
  BY <1>2 DEF Observe, Tick, JumpBack, vars, Touch
<1> QED BY <1>4, <1>5, <1>6, <1>7 DEF Next

-----------------------------------------------------------------------------
(* Theorems.                                                                *)

\* Every value a process keeps or writes between the reads of a decision is one the code's
\* tables and registries can hold.
THEOREM RoutingTypes == TidySeeds /\ Spec => []TypeOK
<1>1. Inv => TypeOK
  BY DEF Inv
<1> QED BY <1>1, RoutingInvariant, PTL

\* However the clock is set back, the checkpoint row never gets an epoch that starts after the
\* evidence it was opened on, nor evidence newer than its decision.
THEOREM RoutingEpochHasEvidence == TidySeeds /\ Spec => []EpochHasEvidence
<1>1. Inv => EpochHasEvidence
  BY DEF Inv, Tidy, EpochHasEvidence
<1> QED BY <1>1, RoutingInvariant, PTL

\* Whatever processes and expiries interleave, the epoch counter moves exactly with the
\* boundary, by one and forward.
THEOREM RoutingEpochsAreCounted == TidySeeds /\ Spec => EpochsAreCounted
<1>1. Inv /\ [Next]_vars => [\/ ckpt'.epoch = ckpt.epoch /\ ckpt'.started = ckpt.started
                             \/ ckpt'.epoch = ckpt.epoch + 1 /\ ckpt'.started > ckpt.started]_ckpt
  BY BoundaryStep
<1> QED BY <1>1, RoutingInvariant, PTL DEF Spec, EpochsAreCounted

\* A validated decision steers by no row from before the epoch it was checked against, whatever
\* epochs other processes opened meanwhile, unless it opened that epoch itself.
THEOREM RoutingRowsBelongToTheEpoch == TidySeeds /\ Spec => []UsedRowsBelongToTheEpoch
<1>1. TidySeeds /\ Init => EpochInv
  BY DEF Init, EpochInv, Bounded, Between
<1>2. EpochInv => UsedRowsBelongToTheEpoch
  BY DEF EpochInv, Bounded, UsedRowsBelongToTheEpoch, Validated, Conflicted
<1> QED BY <1>1, <1>2, EpochStep, RoutingInvariant, PTL DEF Spec

\* A decision that is validated after its reads, its writes and its evaluation still steers by
\* the latest row of each config, however many observations raced with it.
THEOREM RoutingOnCurrentEvidence == TidySeeds /\ Spec => []DecisionsRestOnCurrentEvidence
<1>1. Inv => DecisionsRestOnCurrentEvidence
  BY DEF Inv, Sound, DecisionsRestOnCurrentEvidence, Validated, Conflicted
<1> QED BY <1>1, RoutingInvariant, PTL

\* Neither its own retirement of an expired regime nor its own record makes a decision refuse
\* itself: a refused one was raced by another process.
THEOREM RoutingConflictsAreReal == TidySeeds /\ Spec => []ConflictsAreReal
<1>1. Inv => ConflictsAreReal
  BY DEF Inv, Sound, ConflictsAreReal, Conflicted, Steps
<1> QED BY <1>1, RoutingInvariant, PTL
=============================================================================
