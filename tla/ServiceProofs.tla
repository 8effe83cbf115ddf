----------------------------- MODULE ServiceProofs -----------------------------
(***************************************************************************)
(* Proofs about the services around the runs, each for every value of its   *)
(* constants:                                                               *)
(*   - the registry of an online experiment and its routes, for any         *)
(*     deliveries, stages, clients and readers, whatever the statistics say *)
(*     (OnlineExperiment, ExperimentControl);                               *)
(*   - conversations, their attachments, the memory of their context and    *)
(*     the rate limit, for any scenario, workers and limits (Conversations  *)
(*     and the modules it extends).                                         *)
(* The two systems share no variable; their proofs share LeastExists.       *)
(***************************************************************************)
EXTENDS ExperimentControl, Conversations, FiniteSetTheorems, SequenceTheorems,
        WellFoundedInduction, TLAPS

\* A non-empty set of naturals has a least element.
LEMMA LeastExists ==
    ASSUME NEW S \in SUBSET Nat, S # {}
    PROVE  \E t \in S : \A u \in S : t <= u
<1> DEFINE R == OpToRel(<, Nat)
<1> HIDE DEF R
<1>1. IsWellFoundedOn(R, Nat)
  BY NatLessThanWellFounded DEF R
<1>2. PICK t \in S : \A u \in S : ~(<<u, t>> \in R)
  BY <1>1, WFMin
<1>3. \A u \in S : ~(u < t)
  BY <1>2 DEF OpToRel, R
<1> QED BY <1>3


-----------------------------------------------------------------------------
(* The registry of an online experiment.                                    *)

\* Two records of the same assignment.
Same(o, p) == o.unit = p.unit /\ o.seq = p.seq /\ o.epoch = p.epoch /\ o.arm = p.arm

\* p says all that o says.
Covers(p, o) == Same(o, p) /\ \A f \in Fields : o.values[f] \in {Missing, p.values[f]}

\* A set of observations that can be one table's evidence.
Coherent(S) == S \subseteq Observation /\ \A o, p \in S : Agree(o, p)

-----------------------------------------------------------------------------
(* Merging.                                                                 *)

\* What is known of a field is a value that some observation of the unit carries,
\* or missing when none does.
LEMMA ValueKnown ==
    ASSUME NEW S, NEW u, NEW f
    PROVE  \/ /\ Value(S, u, f) = Missing
              /\ \A o \in S : o.unit = u => o.values[f] = Missing
           \/ \E o \in S : o.unit = u /\ o.values[f] = Value(S, u, f) /\ o.values[f] # Missing
<1> DEFINE carried == {o.values[f] : o \in {p \in S : p.unit = u}} \ {Missing}
<1>1. CASE carried = {}
  BY <1>1 DEF Value
<1>2. CASE carried # {}
  <2>1. Value(S, u, f) \in carried
    BY <1>2 DEF Value
  <2> QED BY <2>1
<1> QED BY <1>1, <1>2

\* A merged row has the assignment of an observation and covers all of its unit.
LEMMA MergedRow ==
    ASSUME NEW S, Coherent(S), NEW o \in S
    PROVE  LET q == [o EXCEPT !.values = [f \in Fields |-> Value(S, o.unit, f)]] IN
           /\ q \in Merged(S)
           /\ q \in Observation
           /\ \A p \in S : p.unit = o.unit => Covers(q, p)
<1> DEFINE q == [o EXCEPT !.values = [f \in Fields |-> Value(S, o.unit, f)]]
<1>1. o \in Observation
  BY DEF Coherent
<1>2. q \in Merged(S)
  BY DEF Merged
<1>3. \A f \in Fields : Value(S, o.unit, f) \in {0, 1, Missing}
  <2> TAKE f \in Fields
  <2> QED BY ValueKnown DEF Coherent, Observation
<1>4. q \in Observation
  BY <1>1, <1>3 DEF Observation
<1>5. ASSUME NEW p \in S, p.unit = o.unit
      PROVE  Covers(q, p)
  <2>1. Agree(p, o) /\ p \in Observation
    BY DEF Coherent
  <2>2. Same(p, q)
    BY <1>1, <1>5, <2>1 DEF Same, Agree, Observation
  <2>3. ASSUME NEW f \in Fields, p.values[f] # Missing
        PROVE  p.values[f] = q.values[f]
    <3>1. q.values[f] = Value(S, o.unit, f)
      BY <1>1 DEF Observation
    <3>2. PICK r \in S : r.unit = o.unit /\ r.values[f] = Value(S, o.unit, f)
                         /\ r.values[f] # Missing
      BY <1>5, <2>3, ValueKnown
    <3>3. Agree(p, r)
      BY DEF Coherent
    <3> QED BY <1>5, <2>3, <3>1, <3>2, <3>3 DEF Agree
  <2> QED BY <2>2, <2>3 DEF Covers
<1> QED BY <1>2, <1>4, <1>5

\* Every merged row is the row of some observation.
LEMMA MergedOrigin ==
    ASSUME NEW S, NEW q \in Merged(S)
    PROVE  \E o \in S : q = [o EXCEPT !.values = [f \in Fields |-> Value(S, o.unit, f)]]
BY DEF Merged

\* The merged table has one row per unit and per sequence, of the same units.
LEMMA MergedTable ==
    ASSUME NEW S, Coherent(S)
    PROVE  /\ Coherent(Merged(S))
           /\ \A q, r \in Merged(S) : q.unit = r.unit \/ q.seq = r.seq => q = r
           /\ \A q \in Merged(S) : \E o \in S : Same(q, o)
           /\ \A o \in S : \E q \in Merged(S) : Covers(q, o)
<1>1. ASSUME NEW q \in Merged(S)
      PROVE  /\ q \in Observation
             /\ \E o \in S : Same(q, o) /\ q.values = [f \in Fields |-> Value(S, o.unit, f)]
  <2>1. PICK o \in S : q = [o EXCEPT !.values = [f \in Fields |-> Value(S, o.unit, f)]]
    BY MergedOrigin
  <2>2. o \in Observation
    BY DEF Coherent
  <2>3. q \in Observation
    BY <2>1, MergedRow
  <2> QED BY <2>1, <2>2, <2>3 DEF Same, Observation
<1>2. ASSUME NEW q \in Merged(S), NEW r \in Merged(S), q.unit = r.unit \/ q.seq = r.seq
      PROVE  q = r
  <2>1. PICK o \in S : Same(q, o) /\ q.values = [f \in Fields |-> Value(S, o.unit, f)]
    BY <1>1
  <2>2. PICK p \in S : Same(r, p) /\ r.values = [f \in Fields |-> Value(S, p.unit, f)]
    BY <1>1
  <2>3. Agree(o, p)
    BY DEF Coherent
  <2>4. Same(o, p)
    BY <1>2, <2>1, <2>2, <2>3 DEF Same, Agree
  <2>5. q \in Observation /\ r \in Observation
    BY <1>1
  <2> QED BY <2>1, <2>2, <2>4, <2>5 DEF Same, Observation
<1>3. \A q, r \in Merged(S) : Agree(q, r)
  BY <1>2 DEF Agree
<1>4. \A o \in S : \E q \in Merged(S) : Covers(q, o)
  BY MergedRow
<1> QED BY <1>1, <1>2, <1>3, <1>4 DEF Coherent

-----------------------------------------------------------------------------
(* The inductive invariant.                                                 *)

\* Nothing exists before the experiment is created, and an epoch ever after.
Started ==
    /\ status = "none" => version = 0 /\ obs = {} /\ epochs = <<>>
    /\ status # "none" => version > 0 /\ Len(epochs) > 0

\* No client is ahead of the registry.
ReadsBehind == \A c \in Clients : reads[c].version <= version

RegistryInv == /\ TypeOK /\ Started /\ HistoryIsEvaluable
        /\ VersionIdentifiesEvidence /\ ReadsBehind

\* The stored rows agree with each other.
LEMMA StoredCoherent == RegistryInv => Coherent(obs)
BY DEF RegistryInv, TypeOK, HistoryIsEvaluable, Coherent, Agree

\* The current epoch is one of the epochs, and is the last.
LEMMA CurrentKnown ==
    ASSUME RegistryInv, status # "none"
    PROVE  /\ Len(epochs) \in DOMAIN epochs
           /\ Current \in EpochSet
           /\ \A k \in DOMAIN epochs : k <= Len(epochs) /\ (epochs[k] = Current => k = Len(epochs))
<1>1. epochs \in Seq(EpochIds) /\ Len(epochs) > 0
  BY DEF RegistryInv, TypeOK, Started
<1>2. Len(epochs) \in DOMAIN epochs /\ \A k \in DOMAIN epochs : k <= Len(epochs)
  BY <1>1
<1> QED BY <1>2 DEF RegistryInv, HistoryIsEvaluable, Current, EpochSet

\* What an accepted batch leaves behind: one table, whose rows are the stored rows
\* or new units of the current epoch behind all earlier epochs; nothing is lost.
LEMMA IngestEffect ==
    ASSUME RegistryInv, NEW B \in Batches, Ingest(B)
    PROVE  /\ Coherent(obs')
           /\ \A q, r \in obs' : q.unit = r.unit \/ q.seq = r.seq => q = r
           /\ \A q \in obs' :
                 \/ \E p \in obs : Same(q, p)
                 \/ /\ status = "running" /\ q.epoch = Current
                    /\ \A p \in obs \ In(Current) : p.seq < q.seq
           /\ \A o \in obs : \E q \in obs' : Covers(q, o)
<1>1. B \subseteq Observation
  BY DeliveriesAssumption DEF Deliveries
<1>2. Coherent(obs \cup B)
  BY <1>1 DEF Ingest, Accepts, Coherent, RegistryInv, TypeOK
<1>3. obs' = Merged(obs \cup B)
  BY DEF Ingest
<1>4. ASSUME NEW q \in obs'
      PROVE  \/ \E p \in obs : Same(q, p)
             \/ /\ status = "running" /\ q.epoch = Current
                /\ \A p \in obs \ In(Current) : p.seq < q.seq
  <2>1. PICK x \in obs \cup B : Same(q, x)
    BY <1>2, <1>3, MergedTable
  <2>2. CASE x \in New(B)
    BY <2>1, <2>2 DEF Ingest, Accepts, Same
  <2>3. CASE x \notin New(B)
    <3>1. PICK p \in obs : p.unit = x.unit
      BY <2>3 DEF New, UnitsOf
    <3>2. Agree(p, x)
      BY <1>2 DEF Coherent
    <3> QED BY <2>1, <3>1, <3>2 DEF Agree, Same
  <2> QED BY <2>2, <2>3
<1> QED BY <1>2, <1>3, <1>4, MergedTable

\* The invariant holds at the beginning.
LEMMA RegistryInitInv == RegistryInit => RegistryInv
BY DEF RegistryInit, RegistryInv, TypeOK, Started, HistoryIsEvaluable, VersionIdentifiesEvidence,
       ReadsBehind, NoRead, Snapshot, Statuses, EpochSet, In

\* Creating the experiment.
LEMMA CreateInv == ASSUME RegistryInv, NEW e \in EpochIds, CreateExperiment(e) PROVE RegistryInv'
<1>1. epochs' = <<e>> /\ obs' = {} /\ version' = 1 /\ status' = "running" /\ reads' = reads
      /\ version = 0
  BY DEF CreateExperiment, RegistryInv, Started
<1>2. epochs' \in Seq(EpochIds) /\ Len(epochs') = 1 /\ DOMAIN epochs' = {1}
  BY <1>1
<1>3. TypeOK' /\ Started'
  BY <1>1, <1>2 DEF RegistryInv, TypeOK, Started, Statuses
<1>4. HistoryIsEvaluable'
  BY <1>1, <1>2 DEF HistoryIsEvaluable, EpochSet, In
<1>5. \A c \in Clients : reads[c].version \in Nat /\ reads[c].version <= 0
  BY <1>1 DEF RegistryInv, TypeOK, ReadsBehind, Snapshot
<1>6. VersionIdentifiesEvidence' /\ ReadsBehind'
  BY <1>1, <1>5 DEF VersionIdentifiesEvidence, ReadsBehind
<1> QED BY <1>3, <1>4, <1>6 DEF RegistryInv

\* Ingesting a batch.
LEMMA IngestInv == ASSUME RegistryInv, NEW B \in Batches, Ingest(B) PROVE RegistryInv'
<1> USE DEF RegistryInv
<1>1. UNCHANGED <<status, epochs, reads>> /\ status # "none"
  BY DEF Ingest
<1>2. version' = IF obs' # obs THEN version + 1 ELSE version
  BY DEF Ingest
<1>3. TypeOK'
  BY <1>1, <1>2, IngestEffect DEF TypeOK, Coherent
<1>4. Started'
  BY <1>1, <1>2 DEF Started, TypeOK
<1>5. HistoryIsEvaluable'
  <2>1. \A o, p \in obs' : o.unit = p.unit \/ o.seq = p.seq => o = p
    BY IngestEffect
  <2>2. \A o \in obs' : o.epoch \in EpochSet
    <3> TAKE q \in obs'
    <3>1. CASE \E p \in obs : Same(q, p)
      BY <3>1 DEF HistoryIsEvaluable, Same
    <3>2. CASE q.epoch = Current
      BY <1>1, <3>2, CurrentKnown
    <3> QED BY <3>1, <3>2, IngestEffect
  <2>3. ASSUME NEW i \in DOMAIN epochs, NEW j \in DOMAIN epochs,
               NEW o \in obs', NEW p \in obs',
               o.epoch = epochs[i], p.epoch = epochs[j], o.seq < p.seq
        PROVE  i <= j
    <3>1. /\ i \in Nat /\ j \in Nat /\ Len(epochs) \in Nat
          /\ i <= Len(epochs) /\ j <= Len(epochs)
      BY <1>1, CurrentKnown DEF TypeOK
    <3>2. o.seq \in Nat /\ p.seq \in Nat
      BY <1>3 DEF TypeOK, Observation
    <3>3. CASE p.epoch = Current
      BY <1>1, <2>3, <3>1, <3>3, CurrentKnown
    <3>4. CASE p.epoch # Current
      <4>1. PICK p0 \in obs : Same(p, p0)
        BY <3>4, IngestEffect
      <4>2. p0 \in obs \ In(Current)
        BY <3>4, <4>1 DEF In, Same
      <4>3. PICK o0 \in obs : Same(o, o0)
        <5>1. ~ (p0.seq < o.seq)
          BY <2>3, <3>2, <4>1 DEF Same
        <5> QED BY <4>2, <5>1, IngestEffect
      <4>4. o0 \in In(epochs[i]) /\ p0 \in In(epochs[j]) /\ o0.seq < p0.seq
        BY <2>3, <4>1, <4>3 DEF In, Same
      <4> QED BY <4>4 DEF HistoryIsEvaluable
    <3> QED BY <3>3, <3>4
  <2>4. \A i, j \in DOMAIN epochs : epochs[i] = epochs[j] => i = j
    BY DEF HistoryIsEvaluable
  <2> QED BY <1>1, <2>1, <2>2, <2>3, <2>4 DEF HistoryIsEvaluable, EpochSet, In
<1>6. VersionIdentifiesEvidence' /\ ReadsBehind'
  <2>1. CASE obs' = obs
    BY <1>1, <1>2, <2>1 DEF VersionIdentifiesEvidence, ReadsBehind
  <2>2. CASE obs' # obs
    <3>1. \A c \in Clients : reads[c].version \in Nat /\ reads[c].version <= version
      BY DEF TypeOK, ReadsBehind, Snapshot
    <3>2. version \in Nat /\ version' = version + 1
      BY <1>2, <2>2 DEF TypeOK
    <3> QED BY <1>1, <3>1, <3>2 DEF VersionIdentifiesEvidence, ReadsBehind
  <2> QED BY <2>1, <2>2
<1> QED BY <1>3, <1>4, <1>5, <1>6

\* Reading an evaluation.
LEMMA EvaluateInv == ASSUME RegistryInv, NEW c \in Clients, Evaluate(c) PROVE RegistryInv'
<1> DEFINE now == [version |-> version, status |-> status, epochs |-> epochs, obs |-> obs]
<1>1. UNCHANGED <<status, version, epochs, obs>> /\ reads' = [reads EXCEPT ![c] = now]
  BY DEF Evaluate
<1>2. now \in Snapshot
  BY DEF RegistryInv, TypeOK, Snapshot
<1>3. TypeOK'
  BY <1>1, <1>2 DEF RegistryInv, TypeOK
<1>4. \A d \in Clients : reads'[d] = IF d = c THEN now ELSE reads[d]
  BY <1>1 DEF RegistryInv, TypeOK
<1>5. VersionIdentifiesEvidence' /\ ReadsBehind'
  BY <1>1, <1>4 DEF RegistryInv, TypeOK, VersionIdentifiesEvidence, ReadsBehind
<1>6. Started' /\ HistoryIsEvaluable'
  BY <1>1 DEF RegistryInv, Started, HistoryIsEvaluable, EpochSet, In
<1> QED BY <1>3, <1>5, <1>6 DEF RegistryInv

\* A transition takes a new version, so every earlier read is behind it.
LEMMA FenceMoves ==
    ASSUME RegistryInv, version' = version + 1, reads' = reads
    PROVE  VersionIdentifiesEvidence' /\ ReadsBehind'
<1>1. \A c \in Clients : reads[c].version \in Nat /\ reads[c].version <= version
  BY DEF RegistryInv, TypeOK, ReadsBehind, Snapshot
<1>2. version \in Nat
  BY DEF RegistryInv, TypeOK
<1> QED BY <1>1, <1>2 DEF VersionIdentifiesEvidence, ReadsBehind

\* Advancing the ramp.
LEMMA AdvanceInv ==
    ASSUME RegistryInv, NEW c \in Clients, NEW e \in EpochIds, Advance(c, e) PROVE RegistryInv'
<1>1. /\ epochs' = Append(epochs, e) /\ e \notin EpochSet /\ version' = version + 1
      /\ UNCHANGED <<status, obs, reads>> /\ status # "none"
  BY DEF Advance, Transitionable
<1>2. epochs \in Seq(EpochIds) /\ Len(epochs) \in Nat /\ version \in Nat
  BY DEF RegistryInv, TypeOK
<1>3. /\ epochs' \in Seq(EpochIds) /\ Len(epochs') = Len(epochs) + 1
      /\ DOMAIN epochs' = DOMAIN epochs \cup {Len(epochs) + 1}
      /\ \A k \in DOMAIN epochs : epochs'[k] = epochs[k] /\ k <= Len(epochs) /\ k \in Nat
      /\ epochs'[Len(epochs) + 1] = e
  BY <1>1, <1>2
<1>4. TypeOK' /\ Started'
  BY <1>1, <1>2, <1>3 DEF RegistryInv, TypeOK, Started
<1>5. \A o \in obs : o.epoch # e /\ o.epoch \in EpochSet
  BY <1>1 DEF RegistryInv, HistoryIsEvaluable
<1>6. EpochSet \subseteq EpochSet'
  BY <1>3 DEF EpochSet
<1>7. HistoryIsEvaluable'
  <2>1. ASSUME NEW i \in DOMAIN epochs', NEW j \in DOMAIN epochs'
        PROVE  epochs'[i] = epochs'[j] => i = j
    BY <1>1, <1>3 DEF RegistryInv, HistoryIsEvaluable, EpochSet
  <2>2. ASSUME NEW i \in DOMAIN epochs', NEW j \in DOMAIN epochs',
               NEW o \in obs, NEW p \in obs,
               o.epoch = epochs'[i], p.epoch = epochs'[j], o.seq < p.seq
        PROVE  i <= j
    <3>1. i \in DOMAIN epochs /\ j \in DOMAIN epochs
      BY <1>3, <1>5, <2>2
    <3> QED BY <1>3, <2>2, <3>1 DEF RegistryInv, HistoryIsEvaluable, In
  <2>3. \A o \in obs : o.epoch \in EpochSet'
    BY <1>5, <1>6
  <2>4. \A o, p \in obs : o.unit = p.unit \/ o.seq = p.seq => o = p
    BY DEF RegistryInv, HistoryIsEvaluable
  <2>5. obs' = obs
    BY <1>1
  <2> QED BY <2>1, <2>2, <2>3, <2>4, <2>5 DEF HistoryIsEvaluable, In
<1>8. VersionIdentifiesEvidence' /\ ReadsBehind'
  BY <1>1, FenceMoves
<1> QED BY <1>4, <1>7, <1>8 DEF RegistryInv

\* Marking a rollback or a promotion review.
LEMMA MarkInv ==
    ASSUME RegistryInv, NEW c \in Clients, MarkRollback(c) \/ MarkPromotion(c) PROVE RegistryInv'
<1>1. /\ version' = version + 1 /\ UNCHANGED <<epochs, obs, reads>> /\ status # "none"
      /\ status' \in {"rollback_required", "promotion_review"}
  BY DEF MarkRollback, MarkPromotion, Transitionable
<1>2. TypeOK' /\ Started'
  BY <1>1 DEF RegistryInv, TypeOK, Started, Statuses
<1>3. HistoryIsEvaluable'
  BY <1>1 DEF RegistryInv, HistoryIsEvaluable, EpochSet, In
<1>4. VersionIdentifiesEvidence' /\ ReadsBehind'
  BY <1>1, FenceMoves
<1> QED BY <1>2, <1>3, <1>4 DEF RegistryInv

\* Every step preserves the invariant.
LEMMA RegistryNextInv == ASSUME RegistryInv, [RegistryNext]_registryVars PROVE RegistryInv'
<1>1. CASE UNCHANGED registryVars
  BY <1>1 DEF registryVars, RegistryInv, TypeOK, Started, HistoryIsEvaluable, EpochSet, In,
              VersionIdentifiesEvidence, ReadsBehind
<1>2. CASE RegistryNext
  BY <1>2, CreateInv, IngestInv, EvaluateInv, AdvanceInv, MarkInv DEF RegistryNext
<1> QED BY <1>1, <1>2

\* The invariant holds in every reachable state.
LEMMA RegistryHolds == RegistrySpec => []RegistryInv
BY RegistryInitInv, RegistryNextInv, PTL DEF RegistrySpec

-----------------------------------------------------------------------------
(* Results.                                                                 *)

\* The variables keep their types: versions only count up, and what is stored is
\* made of observations that were delivered.
THEOREM ExperimentTypeCorrect == RegistrySpec => []TypeOK
BY RegistryHolds, PTL DEF RegistryInv

\* What ingestion and ramp transitions accept can always be evaluated.
THEOREM HistoryStaysEvaluable == RegistrySpec => []HistoryIsEvaluable
BY RegistryHolds, PTL DEF RegistryInv

\* Equal versions mean equal evidence: the compare-and-set of apply_recommendation
\* has no ABA problem.
THEOREM VersionsFence == RegistrySpec => []VersionIdentifiesEvidence
BY RegistryHolds, PTL DEF RegistryInv

\* Transitions are decided on the evidence their client has read.
THEOREM TransitionsAreFenced == RegistrySpec => TransitionsUseReadEvidence
<1>1. ASSUME RegistryInv, [RegistryNext]_registryVars
      PROVE  [status # "none" /\ <<status, epochs>>' # <<status, epochs>> =>
                 \E c \in Clients : reads[c].obs = obs /\ reads[c].epochs = epochs]_registryVars
  <2>1. ASSUME NEW c \in Clients, status = "running", reads[c].version = version
        PROVE  reads[c].obs = obs /\ reads[c].epochs = epochs
    BY <1>1, <2>1 DEF RegistryInv, VersionIdentifiesEvidence
  <2>2. \/ status = "none" \/ UNCHANGED <<status, epochs>>
        \/ \E c \in Clients : status = "running" /\ reads[c].version = version
    BY <1>1 DEF RegistryNext, registryVars, CreateExperiment, Ingest, Evaluate, Advance, MarkRollback,
                MarkPromotion, Transitionable
  <2> QED BY <2>1, <2>2
<1> QED BY <1>1, RegistryHolds, PTL DEF RegistrySpec, TransitionsUseReadEvidence

\* Evidence is never lost, reassigned or rewritten.
THEOREM EvidenceIsKept == RegistrySpec => EvidenceOnlyGrows
<1>1. ASSUME RegistryInv, [RegistryNext]_registryVars
      PROVE  [\A o \in obs : \E p \in obs' :
                 /\ [p EXCEPT !.values = o.values] = o
                 /\ \A f \in Fields : o.values[f] \in {Missing, p.values[f]}]_registryVars
  <2>1. ASSUME NEW o \in obs
        PROVE  \E p \in obs' : p \in Observation /\ Covers(p, o)
    <3>1. CASE obs' = obs
      BY <1>1, <3>1 DEF RegistryInv, TypeOK, Covers, Same
    <3>2. CASE \E B \in Batches : Ingest(B)
      BY <1>1, <3>2, IngestEffect DEF Coherent
    <3>3. status = "none" => obs = {}
      BY <1>1 DEF RegistryInv, Started
    <3> QED BY <1>1, <3>1, <3>2, <3>3 DEF RegistryNext, registryVars, CreateExperiment, Evaluate, Advance,
               MarkRollback, MarkPromotion
  <2>2. ASSUME NEW o \in obs, NEW p \in Observation, Covers(p, o)
        PROVE  /\ [p EXCEPT !.values = o.values] = o
               /\ \A f \in Fields : o.values[f] \in {Missing, p.values[f]}
    BY <1>1, <2>2 DEF Covers, Same, Observation, RegistryInv, TypeOK
  <2> QED BY <2>1, <2>2
<1> QED BY <1>1, RegistryHolds, PTL DEF RegistrySpec, EvidenceOnlyGrows

\* A stopped or promoted experiment takes no new unit and no further transition.
THEOREM StoppedStays == RegistrySpec => StoppedIsFinal
<1>1. ASSUME RegistryInv, [RegistryNext]_registryVars
      PROVE  [status \notin {"none", "running"} =>
                 /\ status' = status /\ epochs' = epochs
                 /\ UnitsOf(obs)' = UnitsOf(obs)]_registryVars
  <2> SUFFICES ASSUME status \notin {"none", "running"}
               PROVE  status' = status /\ epochs' = epochs /\ UnitsOf(obs)' = UnitsOf(obs)
    OBVIOUS
  <2>1. \/ UNCHANGED <<status, epochs, obs>>
        \/ UNCHANGED <<status, epochs>> /\ \E B \in Batches : Ingest(B)
    BY <1>1 DEF RegistryNext, registryVars, CreateExperiment, Ingest, Evaluate, Advance, MarkRollback,
                MarkPromotion, Transitionable
  <2>2. ASSUME NEW B \in Batches, Ingest(B)
        PROVE  {o.unit : o \in obs'} = {o.unit : o \in obs}
    <3>1. \A q \in obs' : \E p \in obs : q.unit = p.unit
      BY <1>1, <2>2, IngestEffect DEF Same
    <3>2. \A o \in obs : \E q \in obs' : q.unit = o.unit
      BY <1>1, <2>2, IngestEffect DEF Covers, Same
    <3> QED BY <3>1, <3>2
  <2> QED BY <2>1, <2>2 DEF UnitsOf
<1> QED BY <1>1, RegistryHolds, PTL DEF RegistrySpec, StoppedIsFinal

\* An observation that is recorded is accepted again and adds nothing, at any later
\* time: a collector may repeat a call whose answer it lost.
THEOREM RetriesAdd == RegistrySpec => []RetriesAreHarmless
<1>1. ASSUME RegistryInv, NEW o \in Deliveries, Recorded(o)
      PROVE  Accepts({o}) /\ Merged(obs \cup {o}) = obs
  <2> DEFINE S == obs \cup {o}
  <2>1. o \in Observation
    BY DeliveriesAssumption
  <2>2. PICK p \in obs : [p EXCEPT !.values = o.values] = o
                         /\ \A f \in Fields : o.values[f] \in {Missing, p.values[f]}
    BY <1>1 DEF Recorded
  <2>3. p \in Observation /\ Same(p, o)
    BY <1>1, <2>2 DEF RegistryInv, TypeOK, Same, Observation
  <2>4. \A q \in obs : q.unit = o.unit \/ q.seq = o.seq => q = p
    BY <1>1, <2>3 DEF RegistryInv, HistoryIsEvaluable, Same
  <2>5. Agree(o, o)
    BY DEF Agree
  <2>6. \A q \in obs : Agree(q, o) /\ Agree(o, q)
    BY <2>2, <2>3, <2>4 DEF Agree, Same
  <2>7. \A q, r \in obs : Agree(q, r)
    BY <1>1, StoredCoherent DEF Coherent
  <2>8. Coherent(S)
    BY <1>1, <2>1, <2>5, <2>6, <2>7 DEF Coherent, RegistryInv, TypeOK
  <2>9. New({o}) = {}
    BY <2>3 DEF New, UnitsOf, Same
  <2>10. Accepts({o})
    BY <2>8, <2>9 DEF Accepts, Coherent
  <2>11. ASSUME NEW q \in obs
         PROVE  [q EXCEPT !.values = [f \in Fields |-> Value(S, q.unit, f)]] = q
    <3>1. q \in Observation
      BY <1>1 DEF RegistryInv, TypeOK
    <3>2. ASSUME NEW f \in Fields
          PROVE  Value(S, q.unit, f) = q.values[f]
      <4>1. CASE Value(S, q.unit, f) = Missing /\ \A r \in S : r.unit = q.unit => r.values[f] = Missing
        BY <4>1
      <4>2. CASE \E r \in S : r.unit = q.unit /\ r.values[f] = Value(S, q.unit, f)
                              /\ r.values[f] # Missing
        <5>1. PICK r \in S : r.unit = q.unit /\ r.values[f] = Value(S, q.unit, f)
                             /\ r.values[f] # Missing
          BY <4>2
        <5>2. CASE r \in obs
          BY <1>1, <5>1, <5>2 DEF RegistryInv, HistoryIsEvaluable
        <5>3. CASE r = o
          BY <2>2, <2>4, <5>1, <5>3
        <5> QED BY <5>2, <5>3
      <4> QED BY <4>1, <4>2, ValueKnown
    <3> QED BY <3>1, <3>2 DEF Observation
  <2>12. [o EXCEPT !.values = [f \in Fields |-> Value(S, o.unit, f)]] = p
    <3>1. o.unit = p.unit
      BY <2>3 DEF Same
    <3>2. [f \in Fields |-> Value(S, o.unit, f)] = p.values
      <4>1. [p EXCEPT !.values = [f \in Fields |-> Value(S, p.unit, f)]] = p
        BY <2>11
      <4> QED BY <2>3, <3>1, <4>1 DEF Observation
    <3> QED BY <2>1, <2>3, <3>2 DEF Same, Observation
  <2>13. Merged(S) = obs
    BY <2>11, <2>12 DEF Merged
  <2> QED BY <2>10, <2>13
<1>2. RegistryInv => RetriesAreHarmless
  BY <1>1 DEF RetriesAreHarmless
<1> QED BY <1>2, RegistryHolds, PTL

-----------------------------------------------------------------------------
(* The event log and the reads of the routes.                               *)

Events == [version : Nat, type : EventTypes, inserted : Int]
Rows   == [version : Nat, status : Statuses, current : EpochIds]

LogInv ==
    /\ log \in Seq(Events) /\ Len(log) = version
    /\ \A k \in 1 .. version : log[k].version = k
    /\ StageAt(version) = Len(epochs) /\ Len(epochs) <= Stages
    /\ InsertedAt(version) = Cardinality(UnitsOf(obs))
    /\ Happened(version, {"rollback_marked"}) # {} <=> status = "rollback_required"
    /\ IsFiniteSet(obs)

\* What the row says was so at its version, and es holds the epoch it names.
True(row, es) ==
    /\ row.version \in 1 .. version
    /\ StageAt(row.version) \in DOMAIN es /\ es[StageAt(row.version)] = row.current
    /\ row.status = "rollback_required" <=> Happened(row.version, {"rollback_marked"}) # {}
    /\ InsertedAt(row.version) \in 0 .. Cardinality(UnitsOf(obs))
OneEach(es) == \A k, l \in DOMAIN es : es[k] = es[l] => k = l

ReadersInv ==
    /\ requests \in [Readers -> {Idle} \cup [step : {"row"}, row : Rows]
                                    \cup [step : {"epochs"}, row : Rows, epochs : Seq(EpochIds)]]
    /\ \A r \in Readers :
          /\ requests[r].step = "row" => True(requests[r].row, epochs)
          /\ requests[r].step = "epochs" => /\ True(requests[r].row, requests[r].epochs)
                                            /\ OneEach(requests[r].epochs)

ControlInv == RegistryInv /\ LogInv /\ ReadersInv /\ AnswersMatchTheirVersion

-----------------------------------------------------------------------------
(* Running totals.                                                          *)

Runs(l, v, f) == f = [k \in 0 .. v |-> IF k = 0 THEN 0 ELSE f[k - 1] + l[k].inserted]

LEMMA RunsExtend ==
    ASSUME NEW l, NEW v \in Nat, NEW f, Runs(l, v, f)
    PROVE  Runs(l, v + 1, [k \in 0 .. v + 1 |-> IF k = v + 1 THEN f[v] + l[v + 1].inserted ELSE f[k]])
<1> DEFINE g == [k \in 0 .. v + 1 |-> IF k = v + 1 THEN f[v] + l[v + 1].inserted ELSE f[k]]
<1>1. \A k \in 0 .. v : f[k] = IF k = 0 THEN 0 ELSE f[k - 1] + l[k].inserted
  BY DEF Runs
<1>2. ASSUME NEW k \in 0 .. v + 1
      PROVE  g[k] = IF k = 0 THEN 0 ELSE g[k - 1] + l[k].inserted
  <2>1. CASE k = 0
    BY <1>1, <2>1
  <2>2. CASE k \in 1 .. v
    <3>1. k - 1 \in 0 .. v /\ k \in 0 .. v /\ k # 0 /\ k # v + 1 /\ k - 1 # v + 1
      BY <2>2
    <3>2. g[k] = f[k] /\ g[k - 1] = f[k - 1]
      BY <3>1
    <3> QED BY <1>1, <3>1, <3>2
  <2>3. CASE k = v + 1
    <3>1. k - 1 = v /\ v \in 0 .. v + 1 /\ v # v + 1 /\ k # 0
      BY <2>3
    <3>2. g[k - 1] = f[v] /\ g[k] = f[v] + l[v + 1].inserted
      BY <2>3, <3>1
    <3> QED BY <2>3, <3>1, <3>2
  <2> QED BY <2>1, <2>2, <2>3
<1>3. g = [k \in 0 .. v + 1 |-> g[k]]
  OBVIOUS
<1> HIDE DEF g
<1>4. g = [k \in 0 .. v + 1 |-> IF k = 0 THEN 0 ELSE g[k - 1] + l[k].inserted]
  BY <1>2, <1>3
<1> QED BY <1>4 DEF Runs, g

LEMMA RunsExists ==
    ASSUME NEW l, NEW v \in Nat PROVE \E f : Runs(l, v, f)
<1> DEFINE bad == {n \in Nat : ~\E f : Runs(l, n, f)}
<1> SUFFICES ASSUME bad # {} PROVE FALSE
  OBVIOUS
<1>1. PICK t \in bad : \A u \in bad : t <= u
  <2>1. bad \in SUBSET Nat
    OBVIOUS
  <2> HIDE DEF bad
  <2> QED BY <2>1, LeastExists
<1>2. CASE t = 0
  <2> DEFINE f == [k \in 0 .. 0 |-> 0]
  <2>1. f = [k \in 0 .. 0 |-> IF k = 0 THEN 0 ELSE f[k - 1] + l[k].inserted]
    OBVIOUS
  <2>2. Runs(l, 0, f)
    BY <2>1 DEF Runs
  <2> QED BY <1>2, <2>2
<1>3. CASE t # 0
  <2>1. t - 1 \in Nat /\ t - 1 \notin bad /\ t = (t - 1) + 1
    BY <1>1, <1>3
  <2>2. PICK f : Runs(l, t - 1, f)
    BY <2>1
  <2>3. \E g : Runs(l, (t - 1) + 1, g)
    BY <2>1, <2>2, RunsExtend
  <2> QED BY <2>1, <2>3
<1> QED BY <1>2, <1>3

LEMMA RunsUnique ==
    ASSUME NEW l, NEW v \in Nat, NEW f, Runs(l, v, f), NEW g, Runs(l, v, g)
    PROVE  f[v] = g[v]
<1> DEFINE bad == {n \in 0 .. v : f[n] # g[n]}
<1> SUFFICES ASSUME bad # {} PROVE FALSE
  BY SMT
<1>1. PICK t \in bad : \A u \in bad : t <= u
  <2>1. bad \in SUBSET Nat
    OBVIOUS
  <2> HIDE DEF bad
  <2> QED BY <2>1, LeastExists
<1>2. \A k \in 0 .. v : /\ f[k] = IF k = 0 THEN 0 ELSE f[k - 1] + l[k].inserted
                        /\ g[k] = IF k = 0 THEN 0 ELSE g[k - 1] + l[k].inserted
  BY DEF Runs
<1>3. t \in 0 .. v /\ f[t] # g[t]
  OBVIOUS
<1>4. t # 0 => f[t - 1] = g[t - 1]
  <2> HAVE t # 0
  <2>1. t - 1 \in 0 .. v /\ t - 1 \notin bad
    BY <1>1, <1>3
  <2> QED BY <2>1
<1> HIDE DEF bad
<1> QED BY <1>2, <1>3, <1>4

LEMMA InsertedIs ==
    ASSUME NEW l, NEW v \in Nat, NEW f, Runs(l, v, f) PROVE Inserted(l, v) = f[v]
<1> DEFINE g == CHOOSE g : g = [k \in 0 .. v |-> IF k = 0 THEN 0 ELSE g[k - 1] + l[k].inserted]
<1>1. g = [k \in 0 .. v |-> IF k = 0 THEN 0 ELSE g[k - 1] + l[k].inserted]
  <2>1. \E h : h = [k \in 0 .. v |-> IF k = 0 THEN 0 ELSE h[k - 1] + l[k].inserted]
    BY DEF Runs
  <2> QED BY <2>1
<1>2. Inserted(l, v) = g[v]
  BY DEF Inserted
<1> HIDE DEF g
<1>3. Runs(l, v, g)
  BY <1>1 DEF Runs
<1> QED BY <1>2, <1>3, RunsUnique

\* What is appended does not change the totals before it.
LEMMA InsertedSteps ==
    ASSUME NEW l, NEW n, NEW v \in Nat, \A k \in 1 .. v : l[k] = n[k]
    PROVE  /\ Inserted(n, v) = Inserted(l, v)
           /\ Inserted(n, v + 1) = Inserted(l, v) + n[v + 1].inserted
<1>1. PICK f : Runs(l, v, f)
  BY RunsExists
<1>2. Runs(n, v, f)
  <2>1. \A k \in 0 .. v : f[k] = IF k = 0 THEN 0 ELSE f[k - 1] + l[k].inserted
    BY <1>1 DEF Runs
  <2>2. ASSUME NEW k \in 0 .. v
        PROVE  f[k] = IF k = 0 THEN 0 ELSE f[k - 1] + n[k].inserted
    <3>1. CASE k = 0
      BY <2>1, <3>1
    <3>2. CASE k # 0
      <4>1. k \in 1 .. v
        BY <3>2
      <4> QED BY <2>1, <4>1
    <3> QED BY <3>1, <3>2
  <2>3. f = [k \in 0 .. v |-> f[k]]
    BY <1>1 DEF Runs
  <2> QED BY <2>2, <2>3 DEF Runs
<1>3. Inserted(l, v) = f[v] /\ Inserted(n, v) = f[v]
  BY <1>1, <1>2, InsertedIs
<1> DEFINE g == [k \in 0 .. v + 1 |-> IF k = v + 1 THEN f[v] + n[v + 1].inserted ELSE f[k]]
<1>4. Inserted(n, v + 1) = g[v + 1]
  <2>1. Runs(n, v + 1, g)
    BY <1>2, RunsExtend
  <2> HIDE DEF g
  <2> QED BY <2>1, InsertedIs
<1>5. g[v + 1] = f[v] + n[v + 1].inserted
  OBVIOUS
<1> QED BY <1>3, <1>4, <1>5

LEMMA InsertedNone == ASSUME NEW l PROVE Inserted(l, 0) = 0
<1>1. PICK f : Runs(l, 0, f)
  BY RunsExists
<1>2. f[0] = 0
  BY <1>1 DEF Runs
<1> QED BY <1>1, <1>2, InsertedIs

-----------------------------------------------------------------------------
(* Steps of the log.                                                        *)

LEMMA UnitsFinite ==
    ASSUME NEW S, IsFiniteSet(S) PROVE IsFiniteSet(UnitsOf(S)) /\ Cardinality(UnitsOf(S)) \in Nat
<1> DEFINE f == [o \in S |-> o.unit]
<1>1. f \in Surjection(S, UnitsOf(S))
  BY DEF Surjection, UnitsOf
<1> HIDE DEF f
<1> QED BY <1>1, FS_Surjection, FS_CardinalityType

LEMMA MergedFinite ==
    ASSUME NEW S, IsFiniteSet(S) PROVE IsFiniteSet(Merged(S))
<1> DEFINE f == [o \in S |-> [o EXCEPT !.values = [g \in Fields |-> Value(S, o.unit, g)]]]
<1>1. f \in Surjection(S, Merged(S))
  BY DEF Surjection, Merged
<1> HIDE DEF f
<1> QED BY <1>1, FS_Surjection

LogGrows ==
    /\ version' >= version /\ \A k \in 1 .. version : log'[k] = log[k]
    /\ Cardinality(UnitsOf(obs)') >= Cardinality(UnitsOf(obs))
    /\ \A k \in DOMAIN epochs : k \in DOMAIN epochs' /\ epochs'[k] = epochs[k]

LEMMA HappenedStays ==
    ASSUME version \in Nat, LogGrows, NEW v \in 0 .. version, NEW types
    PROVE  Happened(v, types)' = Happened(v, types)
<1>1. \A k \in 1 .. v : log'[k] = log[k]
  BY DEF LogGrows
<1> QED BY <1>1 DEF Happened

LEMMA InsertedStays ==
    ASSUME version \in Nat, LogGrows, NEW v \in 0 .. version
    PROVE  InsertedAt(v)' = InsertedAt(v)
<1>1. PICK l, n : l = log /\ n = log'
  OBVIOUS
<1>2. v \in Nat /\ \A k \in 1 .. v : l[k] = n[k]
  BY <1>1 DEF LogGrows
<1>3. Inserted(n, v) = Inserted(l, v)
  BY <1>2, InsertedSteps
<1>4. InsertedAt(v) = Inserted(l, v) /\ InsertedAt(v)' = Inserted(n, v)
  BY <1>1 DEF InsertedAt
<1> QED BY <1>3, <1>4

\* A transaction logs its event with its version.
LEMMA LogStep ==
    ASSUME RegistryInv, RegistryInv', LogInv, NEW type \in EventTypes, Logged(type),
           IsFiniteSet(obs'), Len(epochs') <= Stages, UnitsOf(obs) \subseteq UnitsOf(obs)',
           \A k \in DOMAIN epochs : k \in DOMAIN epochs' /\ epochs'[k] = epochs[k],
           \/ version' = version /\ UNCHANGED <<status, epochs, obs>>
           \/ /\ version' = version + 1
              /\ Len(epochs') = Len(epochs)
                    + (IF type \in {"experiment_created", "ramp_advanced"} THEN 1 ELSE 0)
              /\ status' = "rollback_required" <=> status = "rollback_required" \/ type = "rollback_marked"
    PROVE  LogInv' /\ LogGrows
<1>0. /\ version \in Nat /\ version' \in Nat /\ Len(epochs) \in Nat
      /\ log \in Seq(Events) /\ Len(log) = version
      /\ \A k \in 1 .. version : log[k].version = k
      /\ StageAt(version) = Len(epochs)
      /\ InsertedAt(version) = Cardinality(UnitsOf(obs))
      /\ Happened(version, {"rollback_marked"}) # {} <=> status = "rollback_required"
      /\ IsFiniteSet(obs)
  <2>1. epochs \in Seq(EpochIds) /\ version \in Nat /\ version' \in Nat
    BY DEF RegistryInv, TypeOK
  <2>2. Len(epochs) \in Nat
    BY <2>1
  <2> QED BY <2>1, <2>2 DEF LogInv
<1>1. /\ Cardinality(UnitsOf(obs)) \in Nat /\ Cardinality(UnitsOf(obs)') \in Nat
      /\ Cardinality(UnitsOf(obs)') >= Cardinality(UnitsOf(obs))
  <2>1. IsFiniteSet(UnitsOf(obs)) /\ IsFiniteSet(UnitsOf(obs'))
    BY <1>0, UnitsFinite
  <2>2. UnitsOf(obs)' = UnitsOf(obs')
    BY DEF UnitsOf
  <2> QED BY <2>1, <2>2, FS_Subset, FS_CardinalityType
<1>2. CASE version' = version /\ UNCHANGED <<status, epochs, obs>>
  <2>1. log' = log
    BY <1>2 DEF Logged
  <2> QED BY <1>0, <1>1, <1>2, <2>1 DEF LogInv, LogGrows, StageAt, InsertedAt, Happened, UnitsOf
<1>3. CASE /\ version' = version + 1
           /\ Len(epochs') = Len(epochs)
                 + (IF type \in {"experiment_created", "ramp_advanced"} THEN 1 ELSE 0)
           /\ status' = "rollback_required" <=> status = "rollback_required" \/ type = "rollback_marked"
  <2> DEFINE ev == [version |-> version', type |-> type,
                    inserted |-> Cardinality(UnitsOf(obs)') - Cardinality(UnitsOf(obs))]
  <2>1. log' = Append(log, ev) /\ ev \in Events
    BY <1>0, <1>1, <1>3 DEF Logged, Events
  <2>2. /\ ev.version = version' /\ ev.type = type
        /\ ev.inserted = Cardinality(UnitsOf(obs)') - Cardinality(UnitsOf(obs))
    OBVIOUS
  <2> HIDE DEF ev
  <2>3. /\ log' \in Seq(Events) /\ Len(log') = version + 1 /\ log'[version + 1] = ev
        /\ \A k \in 1 .. version : log'[k] = log[k]
    BY <1>0, <2>1
  <2>4. LogGrows
    BY <1>0, <1>1, <1>3, <2>3 DEF LogGrows
  <2>5. \A k \in 1 .. version' : log'[k].version = k
    <3> TAKE k \in 1 .. version'
    <3>1. k \in 1 .. version \/ k = version + 1
      BY <1>0, <1>3
    <3> QED BY <1>0, <1>3, <2>2, <2>3, <3>1
  <2>6. ASSUME NEW types
        PROVE  Happened(version, types)'
                  = IF type \in types THEN Happened(version, types) \cup {version + 1}
                    ELSE Happened(version, types)
    <3>1. 1 .. version' = (1 .. version) \cup {version + 1}
      BY <1>0, <1>3
    <3> QED BY <2>2, <2>3, <3>1 DEF Happened
  <2>7. StageAt(version)' = Len(epochs')
    <3> DEFINE types == {"experiment_created", "ramp_advanced"}
               H == Happened(version, types)
    <3>1. H \in SUBSET (1 .. version) /\ version + 1 \notin H /\ Cardinality(H) = Len(epochs)
      BY <1>0 DEF Happened, StageAt
    <3>2. IsFiniteSet(H)
      <4>1. IsFiniteSet(1 .. version)
        BY <1>0, FS_Interval
      <4> HIDE DEF H
      <4> QED BY <3>1, <4>1, FS_Subset
    <3>3. Cardinality(H \cup {version + 1}) = Len(epochs) + 1
      <4> HIDE DEF H
      <4> QED BY <3>1, <3>2, FS_AddElement
    <3>4. StageAt(version)' = Cardinality(Happened(version, types)')
      BY DEF StageAt
    <3>5. Happened(version, types)' = IF type \in types THEN H \cup {version + 1} ELSE H
      BY <2>6
    <3>6. Len(epochs') = Len(epochs) + (IF type \in types THEN 1 ELSE 0)
      BY <1>3
    <3> HIDE DEF types, H
    <3>7. CASE type \in types
      BY <1>0, <3>3, <3>4, <3>5, <3>6, <3>7
    <3>8. CASE type \notin types
      BY <1>0, <3>1, <3>4, <3>5, <3>6, <3>8
    <3> QED BY <3>7, <3>8
  <2>8. InsertedAt(version)' = Cardinality(UnitsOf(obs)')
    <3>0. PICK v \in Nat : v = version
      BY <1>0
    <3>1. PICK l, n : l = log /\ n = log'
      OBVIOUS
    <3>2. \A k \in 1 .. v : l[k] = n[k]
      BY <2>3, <3>0, <3>1
    <3>3. Inserted(n, v + 1) = Inserted(l, v) + n[v + 1].inserted
      BY <3>2, InsertedSteps
    <3>4. InsertedAt(version)' = Inserted(n, v + 1) /\ InsertedAt(version) = Inserted(l, v)
      BY <1>3, <3>0, <3>1 DEF InsertedAt
    <3>5. n[v + 1].inserted = Cardinality(UnitsOf(obs)') - Cardinality(UnitsOf(obs))
      BY <2>2, <2>3, <3>0, <3>1
    <3>6. PICK b, a \in Nat : b = Cardinality(UnitsOf(obs)) /\ a = Cardinality(UnitsOf(obs)')
      BY <1>1
    <3>7. Inserted(l, v) = b /\ n[v + 1].inserted = a - b
      BY <1>0, <3>4, <3>5, <3>6
    <3>8. Inserted(n, v + 1) = a
      BY <3>3, <3>7
    <3> QED BY <3>4, <3>6, <3>8
  <2>9. Happened(version, {"rollback_marked"})' # {} <=> status' = "rollback_required"
    BY <1>0, <1>3, <2>6
  <2> QED BY <1>3, <2>3, <2>4, <2>5, <2>7, <2>8, <2>9 DEF LogInv
<1> QED BY <1>2, <1>3

LEMMA CreateLogs ==
    ASSUME RegistryInv, LogInv, NEW e \in EpochIds, PostExperiment(e)
    PROVE  LogInv' /\ LogGrows
<1>1. /\ status = "none" /\ status' = "running" /\ version' = 1 /\ epochs' = <<e>> /\ obs' = obs
      /\ Logged("experiment_created") /\ CreateExperiment(e)
  BY DEF PostExperiment, CreateExperiment
<1>2. version = 0 /\ epochs = <<>> /\ Len(epochs) = 0 /\ Len(epochs') = 1 /\ DOMAIN epochs = {}
  BY <1>1 DEF RegistryInv, Started
<1>3. RegistryInv'
  BY <1>1, CreateInv
<1>4. Len(epochs') <= Stages /\ IsFiniteSet(obs') /\ UnitsOf(obs) \subseteq UnitsOf(obs)'
  BY <1>1, <1>2, StagesAssumption DEF LogInv, UnitsOf
<1>5. /\ version' = version + 1
      /\ Len(epochs') = Len(epochs)
            + (IF "experiment_created" \in {"experiment_created", "ramp_advanced"} THEN 1 ELSE 0)
      /\ status' = "rollback_required" <=> status = "rollback_required" \/ "experiment_created" = "rollback_marked"
  BY <1>1, <1>2
<1>6. "experiment_created" \in EventTypes
  BY DEF EventTypes
<1> QED BY <1>1, <1>2, <1>3, <1>4, <1>5, <1>6, LogStep

LEMMA IngestLogs ==
    ASSUME RegistryInv, LogInv, NEW B \in Batches, PostObservations(B)
    PROVE  LogInv' /\ LogGrows
<1>1. /\ UNCHANGED <<status, epochs, reads>> /\ obs' = Merged(obs \cup B) /\ Ingest(B)
      /\ version' = IF obs' # obs THEN version + 1 ELSE version
      /\ Logged("observations_ingested")
  BY DEF PostObservations, Ingest
<1>2. RegistryInv'
  BY <1>1, IngestInv
<1>3. IsFiniteSet(obs')
  <2>1. IsFiniteSet(obs \cup B)
    BY DeliveriesAssumption, FS_Union DEF LogInv
  <2> QED BY <1>1, <2>1, MergedFinite
<1>4. UnitsOf(obs) \subseteq UnitsOf(obs)'
  <2>1. \A o \in obs : \E q \in obs' : q.unit = o.unit
    BY <1>1, IngestEffect DEF Covers, Same
  <2> QED BY <2>1 DEF UnitsOf
<1>5. epochs \in Seq(EpochIds) /\ Len(epochs) \in Nat /\ Len(epochs') <= Stages
  <2>1. epochs \in Seq(EpochIds)
    BY DEF RegistryInv, TypeOK
  <2> QED BY <1>1, <2>1 DEF LogInv
<1>6. \/ version' = version /\ UNCHANGED <<status, epochs, obs>>
      \/ /\ version' = version + 1
         /\ Len(epochs') = Len(epochs)
               + (IF "observations_ingested" \in {"experiment_created", "ramp_advanced"} THEN 1 ELSE 0)
         /\ status' = "rollback_required"
               <=> status = "rollback_required" \/ "observations_ingested" = "rollback_marked"
  BY <1>1, <1>5
<1>7. "observations_ingested" \in EventTypes
  BY DEF EventTypes
<1> QED BY <1>1, <1>2, <1>3, <1>4, <1>5, <1>6, <1>7, LogStep

LEMMA AdvanceLogs ==
    ASSUME RegistryInv, LogInv, NEW c \in Clients, NEW e \in EpochIds, Advance(c, e),
           Logged("ramp_advanced")
    PROVE  LogInv' /\ LogGrows
<1>1. /\ epochs' = Append(epochs, e) /\ version' = version + 1 /\ UNCHANGED <<status, obs>>
      /\ Recommended = "advance_ramp" /\ epochs \in Seq(EpochIds) /\ Len(epochs) \in Nat
  <2>1. epochs \in Seq(EpochIds)
    BY DEF RegistryInv, TypeOK
  <2>2. Len(epochs) \in Nat
    BY <2>1
  <2> QED BY <2>1, <2>2 DEF Advance, Transitionable
<1>2. RegistryInv'
  BY AdvanceInv
<1>3. Len(epochs) < Stages
  <2> SUFFICES ASSUME ~(Len(epochs) < Stages) PROVE Recommended # "advance_ramp"
    BY <1>1
  <2> QED BY DEF Recommended
<1>4. /\ Len(epochs') = Len(epochs) + 1
      /\ \A k \in DOMAIN epochs : k \in DOMAIN epochs' /\ epochs'[k] = epochs[k]
  BY <1>1
<1>5. Len(epochs') <= Stages /\ IsFiniteSet(obs') /\ UnitsOf(obs) \subseteq UnitsOf(obs)'
  BY <1>1, <1>3, <1>4, StagesAssumption DEF LogInv, UnitsOf
<1>6. /\ Len(epochs') = Len(epochs)
            + (IF "ramp_advanced" \in {"experiment_created", "ramp_advanced"} THEN 1 ELSE 0)
      /\ status' = "rollback_required" <=> status = "rollback_required" \/ "ramp_advanced" = "rollback_marked"
  BY <1>1, <1>4
<1>7. "ramp_advanced" \in EventTypes
  BY DEF EventTypes
<1> QED BY <1>1, <1>2, <1>4, <1>5, <1>6, <1>7, LogStep

LEMMA MarkLogs ==
    ASSUME RegistryInv, LogInv, NEW c \in Clients,
           \/ MarkRollback(c) /\ Logged("rollback_marked")
           \/ MarkPromotion(c) /\ Logged("promotion_review_marked")
    PROVE  LogInv' /\ LogGrows
<1>1. /\ version' = version + 1 /\ UNCHANGED <<epochs, obs>> /\ status = "running"
      /\ epochs \in Seq(EpochIds) /\ Len(epochs) \in Nat
  <2>1. epochs \in Seq(EpochIds)
    BY DEF RegistryInv, TypeOK
  <2>2. Len(epochs) \in Nat
    BY <2>1
  <2> QED BY <2>1, <2>2 DEF MarkRollback, MarkPromotion, Transitionable
<1>2. RegistryInv'
  BY MarkInv
<1>3. Len(epochs') <= Stages /\ IsFiniteSet(obs') /\ UnitsOf(obs) \subseteq UnitsOf(obs)'
  BY <1>1 DEF LogInv, UnitsOf
<1>4. CASE MarkRollback(c) /\ Logged("rollback_marked")
  <2>1. /\ Len(epochs') = Len(epochs)
              + (IF "rollback_marked" \in {"experiment_created", "ramp_advanced"} THEN 1 ELSE 0)
        /\ status' = "rollback_required" <=> status = "rollback_required" \/ "rollback_marked" = "rollback_marked"
    BY <1>1, <1>4 DEF MarkRollback
  <2>2. "rollback_marked" \in EventTypes
    BY DEF EventTypes
  <2> QED BY <1>1, <1>2, <1>3, <1>4, <2>1, <2>2, LogStep
<1>5. CASE MarkPromotion(c) /\ Logged("promotion_review_marked")
  <2>1. /\ Len(epochs') = Len(epochs)
              + (IF "promotion_review_marked" \in {"experiment_created", "ramp_advanced"} THEN 1 ELSE 0)
        /\ status' = "rollback_required"
              <=> status = "rollback_required" \/ "promotion_review_marked" = "rollback_marked"
    BY <1>1, <1>5 DEF MarkPromotion
  <2>2. "promotion_review_marked" \in EventTypes
    BY DEF EventTypes
  <2> QED BY <1>1, <1>2, <1>3, <1>5, <2>1, <2>2, LogStep
<1> QED BY <1>4, <1>5

-----------------------------------------------------------------------------
(* The readers and their answers.                                           *)

\* What was true at a version stays so: the log and the epochs only grow.
LEMMA TrueStays ==
    ASSUME version \in Nat, version' \in Nat, LogGrows, NEW row, NEW es, NEW ds, True(row, es),
           Cardinality(UnitsOf(obs)) \in Nat, Cardinality(UnitsOf(obs)') \in Nat,
           \A k \in DOMAIN es : k \in DOMAIN ds /\ ds[k] = es[k]
    PROVE  True(row, ds)'
<1>0. PICK v : v = row.version
  OBVIOUS
<1>1. /\ v \in 1 .. version /\ StageAt(v) \in DOMAIN es /\ es[StageAt(v)] = row.current
      /\ row.status = "rollback_required" <=> Happened(v, {"rollback_marked"}) # {}
      /\ InsertedAt(v) \in 0 .. Cardinality(UnitsOf(obs))
  BY <1>0 DEF True
<1>2. v \in 0 .. version /\ v \in 1 .. version'
  BY <1>1 DEF LogGrows
<1>3. /\ Happened(v, {"experiment_created", "ramp_advanced"})'
            = Happened(v, {"experiment_created", "ramp_advanced"})
      /\ Happened(v, {"rollback_marked"})' = Happened(v, {"rollback_marked"})
  BY <1>2, HappenedStays
<1>4. StageAt(v)' = StageAt(v)
  BY <1>3 DEF StageAt
<1>5. InsertedAt(v)' = InsertedAt(v)
  BY <1>2, InsertedStays
<1>6. StageAt(v)' \in DOMAIN ds /\ ds[StageAt(v)'] = row.current
  BY <1>1, <1>4
<1>7. InsertedAt(v)' \in 0 .. Cardinality(UnitsOf(obs)')
  BY <1>1, <1>5 DEF LogGrows
<1>8. row.status = "rollback_required" <=> Happened(v, {"rollback_marked"})' # {}
  BY <1>1, <1>3
<1> QED BY <1>0, <1>2, <1>6, <1>7, <1>8 DEF True

\* What every state says of the registry and its log.
LEMMA LogFacts ==
    ASSUME RegistryInv, LogInv
    PROVE  /\ version \in Nat /\ epochs \in Seq(EpochIds) /\ Len(epochs) \in Nat
           /\ Cardinality(UnitsOf(obs)) \in Nat /\ OneEach(epochs)
<1>1. version \in Nat /\ epochs \in Seq(EpochIds)
  BY DEF RegistryInv, TypeOK
<1>2. Len(epochs) \in Nat
  BY <1>1
<1>3. Cardinality(UnitsOf(obs)) \in Nat
  BY UnitsFinite DEF LogInv
<1>4. OneEach(epochs)
  BY DEF RegistryInv, HistoryIsEvaluable, OneEach
<1> QED BY <1>1, <1>2, <1>3, <1>4

\* A transaction leaves every reader with reads that were true at their version.
LEMMA ReadersStay ==
    ASSUME RegistryInv, RegistryInv', LogInv, LogInv', LogGrows, ReadersInv, requests' = requests
    PROVE  ReadersInv'
<1>1. /\ version \in Nat /\ version' \in Nat
      /\ Cardinality(UnitsOf(obs)) \in Nat /\ Cardinality(UnitsOf(obs)') \in Nat
  <2>1. version' \in Nat
    BY DEF RegistryInv, TypeOK
  <2>2. Cardinality(UnitsOf(obs)') \in Nat
    <3>1. IsFiniteSet(obs')
      BY DEF LogInv
    <3>2. UnitsOf(obs)' = UnitsOf(obs')
      BY DEF UnitsOf
    <3> QED BY <3>1, <3>2, UnitsFinite
  <2> QED BY <2>1, <2>2, LogFacts
<1>2. ASSUME NEW r \in Readers, requests[r].step = "row"
      PROVE  True(requests[r].row, epochs)'
  <2>1. PICK q, es, ds : q = requests[r].row /\ es = epochs /\ ds = epochs'
    OBVIOUS
  <2>2. True(q, es)
    BY <1>2, <2>1 DEF ReadersInv
  <2>3. \A k \in DOMAIN es : k \in DOMAIN ds /\ ds[k] = es[k]
    BY <2>1 DEF LogGrows
  <2>4. True(q, ds)'
    BY <1>1, <2>2, <2>3, TrueStays
  <2> QED BY <2>1, <2>4 DEF True
<1>3. ASSUME NEW r \in Readers, requests[r].step = "epochs"
      PROVE  True(requests[r].row, requests[r].epochs)'
  <2>1. PICK q, es : q = requests[r].row /\ es = requests[r].epochs
    OBVIOUS
  <2>2. True(q, es)
    BY <1>3, <2>1 DEF ReadersInv
  <2>3. True(q, es)'
    BY <1>1, <2>2, TrueStays
  <2> QED BY <2>1, <2>3 DEF True
<1> QED BY <1>2, <1>3 DEF ReadersInv

\* The same for a step that leaves registry and log alone.
LEMMA LogSame ==
    ASSUME RegistryInv, LogInv, UNCHANGED <<status, version, epochs, obs, log>>
    PROVE  LogInv' /\ LogGrows
<1>1. \A v, types : Happened(v, types)' = Happened(v, types)
  BY DEF Happened
<1>2. UnitsOf(obs)' = UnitsOf(obs) /\ StageAt(version)' = StageAt(version)
      /\ InsertedAt(version)' = InsertedAt(version)
  BY <1>1 DEF UnitsOf, StageAt, InsertedAt
<1>3. LogGrows
  BY <1>2, LogFacts DEF LogGrows
<1> QED BY <1>1, <1>2, <1>3 DEF LogInv

\* The first SELECT reads a row that is true now, the second the epochs as they are.
LEMMA ReadingStays ==
    ASSUME RegistryInv, LogInv, ReadersInv, UNCHANGED <<status, version, epochs, obs, log>>,
           NEW r \in Readers, ReadRow(r) \/ ReadEpochs(r) \/ ReadCount(r)
    PROVE  ReadersInv'
<1> DEFINE Wanted(q) == /\ q \in {Idle} \cup [step : {"row"}, row : Rows]
                                 \cup [step : {"epochs"}, row : Rows, epochs : Seq(EpochIds)]
                        /\ q.step = "row" => True(q.row, epochs)
                        /\ q.step = "epochs" => True(q.row, q.epochs) /\ OneEach(q.epochs)
<1>1. \A s \in Readers : Wanted(requests[s])
  BY DEF ReadersInv
<1>2. PICK q : Wanted(q) /\ requests' = [requests EXCEPT ![r] = q]
  <2>1. CASE ReadRow(r)
    <3>1. status # "none" /\ requests' = [requests EXCEPT ![r] = [step |-> "row", row |-> Row]]
      BY <2>1 DEF ReadRow
    <3>2. /\ Row \in Rows /\ Row.version = version /\ Row.status = status /\ Row.current = Current
          /\ Current = epochs[Len(epochs)] /\ Len(epochs) \in DOMAIN epochs /\ version > 0
      <4>1. Len(epochs) > 0 /\ version > 0 /\ version \in Nat /\ epochs \in Seq(EpochIds)
            /\ status \in Statuses
        BY <3>1 DEF RegistryInv, Started, TypeOK
      <4>2. Len(epochs) \in DOMAIN epochs /\ epochs[Len(epochs)] \in EpochIds
        BY <4>1
      <4> QED BY <4>1, <4>2 DEF Row, Rows, Current
    <3>3. True(Row, epochs)
      BY <3>2, LogFacts DEF LogInv, True
    <3>4. PICK w : w = Row
      OBVIOUS
    <3>5. Wanted([step |-> "row", row |-> w])
      BY <3>2, <3>3, <3>4
    <3> QED BY <3>1, <3>4, <3>5
  <2>2. CASE ReadEpochs(r)
    <3>1. requests[r].step = "row"
          /\ requests' = [requests EXCEPT ![r] =
                [step |-> "epochs", row |-> requests[r].row, epochs |-> epochs]]
      BY <2>2 DEF ReadEpochs
    <3>2. PICK w, es : w = requests[r].row /\ es = epochs
      OBVIOUS
    <3>3. w \in Rows /\ True(w, es) /\ OneEach(es) /\ es \in Seq(EpochIds)
      <4>1. requests[r] \in [step : {"row"}, row : Rows]
        BY <1>1, <3>1 DEF Idle
      <4> QED BY <1>1, <3>1, <3>2, <4>1, LogFacts
    <3>4. Wanted([step |-> "epochs", row |-> w, epochs |-> es])
      BY <3>3
    <3> QED BY <3>1, <3>2, <3>4
  <2>3. CASE ReadCount(r)
    <3>1. requests' = [requests EXCEPT ![r] = Idle]
      BY <2>3 DEF ReadCount
    <3>2. Wanted(Idle)
      BY DEF Idle
    <3> QED BY <3>1, <3>2
  <2> QED BY <2>1, <2>2, <2>3
<1>3. requests \in [Readers -> {Idle} \cup [step : {"row"}, row : Rows]
                         \cup [step : {"epochs"}, row : Rows, epochs : Seq(EpochIds)]]
  BY DEF ReadersInv
<1>4. \A s \in Readers : Wanted(requests'[s])
  <2> HIDE DEF Wanted
  <2>1. \A s \in Readers : requests'[s] = IF s = r THEN q ELSE requests[s]
    BY <1>2, <1>3
  <2> QED BY <1>1, <1>2, <2>1
<1>5. requests' \in [Readers -> {Idle} \cup [step : {"row"}, row : Rows]
                          \cup [step : {"epochs"}, row : Rows, epochs : Seq(EpochIds)]]
  BY <1>2, <1>3
<1>6. ASSUME NEW s \in Readers
      PROVE  /\ requests'[s].step = "row" => True(requests[s].row, epochs)'
             /\ requests'[s].step = "epochs" => /\ True(requests[s].row, requests[s].epochs)'
                                                /\ OneEach(requests'[s].epochs)
  <2>1. PICK w, es, now : w = requests'[s].row /\ es = requests'[s].epochs /\ now = epochs'
    OBVIOUS
  <2>2. /\ requests'[s].step = "row" => True(w, now)
        /\ requests'[s].step = "epochs" => True(w, es) /\ OneEach(es)
    BY <1>4, <2>1
  <2>3. True(w, now)' = True(w, now) /\ True(w, es)' = True(w, es)
    BY DEF True, StageAt, Happened, InsertedAt, UnitsOf
  <2>4. True(w, now)' => True(requests[s].row, epochs)'
    BY <2>1 DEF True
  <2>5. True(w, es)' => True(requests[s].row, requests[s].epochs)'
    BY <2>1 DEF True
  <2> QED BY <2>1, <2>2, <2>3, <2>4, <2>5
<1> QED BY <1>5, <1>6 DEF ReadersInv

\* Reads that were true at their version, of distinct epochs, give the stage of the version
\* and its fraction.
LEMMA StageIsFound ==
    ASSUME NEW q, True(q.row, q.epochs), OneEach(q.epochs)
    PROVE  /\ StageOf(q) = {StageAt(q.row.version)}
           /\ Directed(q) = {FractionAt(q.row.version)}
           /\ InsertedAt(q.row.version) <= Cardinality(UnitsOf(obs))
<1>1. PICK s, es, row : s = StageAt(q.row.version) /\ es = q.epochs /\ row = q.row
  OBVIOUS
<1>2. /\ s \in DOMAIN es /\ es[s] = row.current
      /\ row.status = "rollback_required" <=> Happened(row.version, {"rollback_marked"}) # {}
      /\ InsertedAt(row.version) \in 0 .. Cardinality(UnitsOf(obs))
  BY <1>1 DEF True
<1>3. \A k \in DOMAIN es : es[k] = row.current => k = s
  BY <1>1, <1>2 DEF OneEach
<1>4. StageOf(q) = {s}
  BY <1>1, <1>2, <1>3 DEF StageOf
<1>5. Directed(q) = {IF row.status = "rollback_required" THEN Frac(0, 1) ELSE Fraction[s]}
  BY <1>1, <1>4 DEF Directed
<1>6. FractionAt(row.version) = IF row.status = "rollback_required" THEN Frac(0, 1) ELSE Fraction[s]
  BY <1>1, <1>2 DEF FractionAt
<1>7. InsertedAt(row.version) <= Cardinality(UnitsOf(obs))
  BY <1>2
<1> QED BY <1>1, <1>4, <1>5, <1>6, <1>7

\* get_experiment and traffic_directive: the answer is what was true at the version it bears.
LEMMA CountAnswers ==
    ASSUME RegistryInv, LogInv, ReadersInv, NEW r \in Readers, ReadCount(r),
           UNCHANGED <<status, version, epochs, obs, log>>
    PROVE  AnswersMatchTheirVersion'
<1>1. /\ requests[r].step = "epochs"
      /\ answer' = [kind |-> "experiment", row |-> requests[r].row, epochs |-> requests[r].epochs,
                    count |-> Cardinality(UnitsOf(obs))]
  BY DEF ReadCount
<1>2. PICK q : q = answer'
  OBVIOUS
<1>3. /\ q.kind = "experiment" /\ q.row = requests[r].row /\ q.epochs = requests[r].epochs
      /\ q.count = Cardinality(UnitsOf(obs))
  BY <1>1, <1>2
<1>4. True(q.row, q.epochs) /\ OneEach(q.epochs)
  BY <1>1, <1>3 DEF ReadersInv
<1>5. /\ StageOf(q) = {StageAt(q.row.version)}
      /\ Directed(q) = {FractionAt(q.row.version)}
      /\ InsertedAt(q.row.version) <= q.count
  BY <1>3, <1>4, StageIsFound
<1>6. PICK v : v = q.row.version
  OBVIOUS
<1>7. /\ StageAt(v)' = StageAt(v) /\ FractionAt(v)' = FractionAt(v)
      /\ InsertedAt(v)' = InsertedAt(v)
  BY DEF StageAt, FractionAt, Happened, InsertedAt
<1>8. /\ StageOf(answer)' = StageOf(q) /\ Directed(answer)' = Directed(q)
      /\ StageAt(answer.row.version)' = StageAt(v)' /\ FractionAt(answer.row.version)' = FractionAt(v)'
      /\ InsertedAt(answer.row.version)' = InsertedAt(v)'
  <2>1. StageOf(answer)' = StageOf(q)
    BY <1>2 DEF StageOf
  <2>2. Directed(answer)' = Directed(q)
    BY <1>2, <2>1 DEF Directed
  <2>3. StageAt(answer.row.version)' = StageAt(v)'
    BY <1>2, <1>6 DEF StageAt, Happened
  <2>4. FractionAt(answer.row.version)' = FractionAt(v)'
    BY <1>2, <1>6, <2>3 DEF FractionAt, Happened
  <2>5. InsertedAt(answer.row.version)' = InsertedAt(v)'
    BY <1>2, <1>6 DEF InsertedAt
  <2> QED BY <2>1, <2>2, <2>3, <2>4, <2>5
<1>9. answer'.kind = "experiment" /\ answer'.count = q.count
  BY <1>2, <1>3
<1> QED BY <1>5, <1>6, <1>7, <1>8, <1>9 DEF AnswersMatchTheirVersion

\* The listing counts in the statement that reads the row.
LEMMA ListAnswers ==
    ASSUME RegistryInv, LogInv, ListExperiments, UNCHANGED <<status, version, epochs, obs, log>>
    PROVE  AnswersMatchTheirVersion'
<1>1. answer' = [kind |-> "list", row |-> Row, count |-> Cardinality(UnitsOf(obs))]
  BY DEF ListExperiments
<1>2. Row.version = version
  BY DEF Row
<1>3. answer'.kind = "list" /\ answer'.count = Cardinality(UnitsOf(obs)) /\ answer'.row.version = version
  BY <1>1, <1>2
<1>4. InsertedAt(answer.row.version)' = InsertedAt(version)
  BY <1>3 DEF InsertedAt
<1>5. InsertedAt(version) = Cardinality(UnitsOf(obs))
  BY DEF LogInv
<1> QED BY <1>3, <1>4, <1>5 DEF AnswersMatchTheirVersion

\* A page is the end of the log, whose versions have no gap.
LEMMA EventAnswers ==
    ASSUME RegistryInv, LogInv, GetEvents, UNCHANGED <<status, version, epochs, obs, log>>
    PROVE  AnswersMatchTheirVersion'
<1> DEFINE m == IF Len(log) > PageLimit THEN Len(log) - PageLimit + 1 ELSE 1
<1>1. answer' = [kind |-> "events", page |-> SubSeq(log, m, Len(log))]
  BY DEF GetEvents
<1>2. /\ log \in Seq(Events) /\ Len(log) = version /\ version \in Nat /\ version' = version
      /\ \A k \in 1 .. version : log[k].version = k
  BY LogFacts DEF LogInv
<1>3. m \in 1 .. version + 1
  BY <1>2, PageAssumption
<1> HIDE DEF m
<1>4. PICK p : p = SubSeq(log, m, Len(log))
  OBVIOUS
<1>5. /\ Len(p) = version - m + 1 /\ DOMAIN p = 1 .. Len(p)
      /\ \A k \in 1 .. Len(p) : p[k] = log[m + k - 1]
  BY <1>2, <1>3, <1>4
<1>6. ASSUME NEW k \in DOMAIN p
      PROVE  p[k].version = version - Len(p) + k
  <2>0. k \in 1 .. (version - m + 1) /\ m \in Nat /\ m >= 1 /\ version \in Nat
    BY <1>2, <1>3, <1>5
  <2>1. m + k - 1 \in 1 .. version /\ m + k - 1 = version - (version - m + 1) + k
    BY <2>0
  <2> QED BY <1>2, <1>5, <2>0, <2>1
<1>7. answer'.kind = "events" /\ answer'.page = p
  BY <1>1, <1>4
<1> QED BY <1>2, <1>6, <1>7 DEF AnswersMatchTheirVersion

\* The stored history is one evaluate_online_experiment accepts.
LEMMA EvaluationAnswers ==
    ASSUME RegistryInv, LogInv, NEW c \in Clients, GetEvaluation(c)
    PROVE  AnswersMatchTheirVersion'
<1>1. Evaluable
  <2>1. /\ \A o, p \in obs : o.unit = p.unit \/ o.seq = p.seq => o = p
        /\ \A k, l \in DOMAIN epochs : epochs[k] = epochs[l] => k = l
    BY DEF RegistryInv, HistoryIsEvaluable
  <2>2. Len(epochs) <= Stages
    BY DEF LogInv
  <2>3. \A o \in obs : o.epoch \in EpochSet /\ o.arm \in Arms
    BY DEF RegistryInv, TypeOK, HistoryIsEvaluable, Observation
  <2>4. \A o, p \in obs : o.seq < p.seq =>
          \A k, l \in DOMAIN epochs : o.epoch = epochs[k] /\ p.epoch = epochs[l] => k <= l
    BY DEF RegistryInv, HistoryIsEvaluable, In
  <2> QED BY <2>1, <2>2, <2>3, <2>4 DEF Evaluable
<1>2. Recommended # "refused"
  BY DEF Recommended
<1>3. PICK action : action # "refused" /\ answer' = [kind |-> "evaluation", action |-> action]
  BY <1>1, <1>2 DEF GetEvaluation
<1>4. answer'.kind = "evaluation" /\ answer'.action # "refused"
  BY <1>3
<1> QED BY <1>4 DEF AnswersMatchTheirVersion

LEMMA SilentAnswers ==
    ASSUME answer' = Silent PROVE AnswersMatchTheirVersion'
BY DEF Silent, AnswersMatchTheirVersion

-----------------------------------------------------------------------------
(* The routes.                                                              *)

LEMMA ControlInitInv == ControlInit => ControlInv
<1> SUFFICES ASSUME ControlInit PROVE ControlInv
  OBVIOUS
<1>1. /\ status = "none" /\ version = 0 /\ epochs = <<>> /\ obs = {} /\ log = <<>>
      /\ requests = [r \in Readers |-> Idle] /\ answer = Silent
  BY DEF ControlInit, RegistryInit
<1>2. \A types : Happened(version, types) = {}
  BY <1>1 DEF Happened
<1>3. StageAt(version) = 0 /\ InsertedAt(version) = 0 /\ Cardinality(UnitsOf(obs)) = 0
  BY <1>1, <1>2, InsertedNone, FS_EmptySet DEF StageAt, InsertedAt, UnitsOf
<1>4. LogInv
  BY <1>1, <1>2, <1>3, FS_EmptySet, StagesAssumption DEF LogInv
<1>5. ReadersInv
  BY <1>1 DEF ReadersInv, Idle
<1>6. AnswersMatchTheirVersion
  BY <1>1 DEF Silent, AnswersMatchTheirVersion
<1> QED BY <1>4, <1>5, <1>6, RegistryInitInv DEF ControlInv, ControlInit

LEMMA ControlStep == ASSUME ControlInv, [ControlNext]_controlVars PROVE ControlInv'
<1>0. RegistryInv /\ LogInv /\ ReadersInv /\ AnswersMatchTheirVersion
  BY DEF ControlInv
<1>1. CASE UNCHANGED controlVars
  <2>1. UNCHANGED <<status, version, epochs, obs, reads, log, requests, answer>>
    BY <1>1 DEF controlVars, registryVars
  <2>2. RegistryInv'
    BY <1>0, <2>1, RegistryNextInv DEF registryVars
  <2>3. LogInv' /\ LogGrows
    BY <1>0, <2>1, LogSame
  <2>4. ReadersInv'
    BY <1>0, <2>1, <2>2, <2>3, ReadersStay
  <2>5. AnswersMatchTheirVersion'
    <3>1. PICK q : q = answer /\ q = answer'
      BY <2>1
    <3>2. StageOf(answer)' = StageOf(q) /\ Directed(answer)' = Directed(q)
      <4>1. StageOf(answer)' = StageOf(q)
        BY <3>1 DEF StageOf
      <4> QED BY <3>1, <4>1 DEF Directed
    <3>3. PICK v : v = q.row.version
      OBVIOUS
    <3>4. /\ StageAt(v)' = StageAt(v) /\ FractionAt(v)' = FractionAt(v)
          /\ InsertedAt(v)' = InsertedAt(v)
      BY <2>1 DEF StageAt, FractionAt, Happened, InsertedAt
    <3>5. /\ StageAt(answer.row.version)' = StageAt(v)'
          /\ FractionAt(answer.row.version)' = FractionAt(v)'
          /\ InsertedAt(answer.row.version)' = InsertedAt(v)'
      <4>1. StageAt(answer.row.version)' = StageAt(v)'
        BY <3>1, <3>3 DEF StageAt, Happened
      <4>2. FractionAt(answer.row.version)' = FractionAt(v)'
        BY <3>1, <3>3, <4>1 DEF FractionAt, Happened
      <4>3. InsertedAt(answer.row.version)' = InsertedAt(v)'
        BY <3>1, <3>3 DEF InsertedAt
      <4> QED BY <4>1, <4>2, <4>3
    <3>6. /\ q.kind = "experiment" =>
                /\ StageOf(q) = {StageAt(v)} /\ Directed(q) = {FractionAt(v)}
                /\ q.count >= InsertedAt(v)
          /\ q.kind = "list" => q.count = InsertedAt(v)
          /\ q.kind = "evaluation" => q.action # "refused"
          /\ q.kind = "events" =>
                \A k \in DOMAIN q.page : q.page[k].version = version - Len(q.page) + k
      BY <1>0, <3>1, <3>3 DEF AnswersMatchTheirVersion
    <3> QED BY <2>1, <3>1, <3>2, <3>4, <3>5, <3>6 DEF AnswersMatchTheirVersion
  <2> QED BY <2>2, <2>3, <2>4, <2>5 DEF ControlInv
<1>2. CASE /\ \/ \E e \in EpochIds : PostExperiment(e)
              \/ \E B \in Batches : PostObservations(B)
              \/ \E c \in Clients : PostRecommendation(c)
           /\ answer' = Silent /\ UNCHANGED requests
  <2>1. RegistryInv'
    BY <1>0, <1>2, CreateInv, IngestInv, AdvanceInv, MarkInv
       DEF PostExperiment, PostObservations, PostRecommendation
  <2>2. LogInv' /\ LogGrows
    BY <1>0, <1>2, CreateLogs, IngestLogs, AdvanceLogs, MarkLogs DEF PostRecommendation
  <2>3. ReadersInv'
    BY <1>0, <1>2, <2>1, <2>2, ReadersStay
  <2> QED BY <1>2, <2>1, <2>2, <2>3, SilentAnswers DEF ControlInv
<1>3. ASSUME NEW c \in Clients, GetEvaluation(c), UNCHANGED <<log, requests>>
      PROVE  ControlInv'
  <2>1. Evaluate(c) /\ UNCHANGED <<status, version, epochs, obs, log, requests>>
    BY <1>3 DEF GetEvaluation, Evaluate
  <2>2. RegistryInv'
    BY <1>0, <2>1, EvaluateInv
  <2>3. LogInv' /\ LogGrows
    BY <1>0, <2>1, LogSame
  <2>4. ReadersInv'
    BY <1>0, <2>1, <2>2, <2>3, ReadersStay
  <2> QED BY <1>0, <1>3, <2>2, <2>3, <2>4, EvaluationAnswers DEF ControlInv
<1>4. ASSUME NEW r \in Readers, ReadRow(r) \/ ReadEpochs(r) \/ ReadCount(r),
             UNCHANGED <<registryVars, log>>
      PROVE  ControlInv'
  <2>1. UNCHANGED <<status, version, epochs, obs, reads, log>>
    BY <1>4 DEF registryVars
  <2>2. RegistryInv'
    BY <1>0, <1>4, RegistryNextInv
  <2>3. LogInv' /\ ReadersInv'
    BY <1>0, <1>4, <2>1, LogSame, ReadingStays
  <2>4. CASE ReadRow(r) \/ ReadEpochs(r)
    BY <2>2, <2>3, <2>4, SilentAnswers DEF ReadRow, ReadEpochs, ControlInv
  <2>5. CASE ReadCount(r)
    BY <1>0, <2>1, <2>2, <2>3, <2>5, CountAnswers DEF ControlInv
  <2> QED BY <1>4, <2>4, <2>5
<1>5. CASE (ListExperiments \/ GetEvents) /\ UNCHANGED <<registryVars, log, requests>>
  <2>1. UNCHANGED <<status, version, epochs, obs, reads, log, requests>>
    BY <1>5 DEF registryVars
  <2>2. RegistryInv'
    BY <1>0, <1>5, RegistryNextInv
  <2>3. LogInv' /\ LogGrows
    BY <1>0, <2>1, LogSame
  <2>4. ReadersInv'
    BY <1>0, <2>1, <2>2, <2>3, ReadersStay
  <2> QED BY <1>0, <1>5, <2>1, <2>2, <2>3, <2>4, ListAnswers, EventAnswers DEF ControlInv
<1> QED BY <1>1, <1>2, <1>3, <1>4, <1>5 DEF ControlNext

\* The invariant holds in every reachable state.
LEMMA ControlHolds == ControlSpec => []ControlInv
BY ControlInitInv, ControlStep, PTL DEF ControlSpec

\* What a dashboard or a traffic controller is told was so at the version the answer bears,
\* though transitions and deliveries commit between its SELECTs.
THEOREM AnswersAreTrue == ControlSpec => []AnswersMatchTheirVersion
BY ControlHolds, PTL DEF ControlInv

\* The routes add nothing to the registry: what is proved of the registry holds of it under
\* its routes, whatever the readers do.
THEOREM RoutesKeepRegistry == ControlSpec => RegistrySpec
<1>1. ControlInit => RegistryInit
  BY DEF ControlInit
<1>2. ASSUME [ControlNext]_controlVars PROVE [RegistryNext]_registryVars
  <2>1. CASE UNCHANGED controlVars
    BY <2>1 DEF controlVars
  <2>2. CASE \/ \E e \in EpochIds : PostExperiment(e)
             \/ \E B \in Batches : PostObservations(B)
             \/ \E c \in Clients : PostRecommendation(c)
    BY <2>2 DEF PostExperiment, PostObservations, PostRecommendation, RegistryNext
  <2>3. CASE \E c \in Clients : GetEvaluation(c)
    BY <2>3 DEF GetEvaluation, RegistryNext
  <2>4. CASE UNCHANGED registryVars
    BY <2>4
  <2> QED BY <1>2, <2>1, <2>2, <2>3, <2>4 DEF ControlNext
<1> QED BY <1>1, <1>2, PTL DEF ControlSpec, RegistrySpec

\* Under the routes, what is stored can always be evaluated, a version names its evidence, and
\* a transition acts on the evidence its client has read.
THEOREM RoutesKeepEvidence ==
    ControlSpec => /\ [](HistoryIsEvaluable /\ VersionIdentifiesEvidence /\ RetriesAreHarmless)
                   /\ TransitionsUseReadEvidence /\ EvidenceOnlyGrows /\ StoppedIsFinal
<1> QED BY RoutesKeepRegistry, HistoryStaysEvaluable, VersionsFence, RetriesAdd, TransitionsAreFenced,
           EvidenceIsKept, StoppedStays, PTL
-----------------------------------------------------------------------------
(* Conversations: the inductive invariant.                                  *)

Places == {"idle", "scan", "refs", "sweep", "unlink", "total", "payload", "meta"}
Numbers == 0 .. MaxAttachments
Jobs == [at : Places, new : Numbers, records : SUBSET Attachments, stale : SUBSET Attachments,
         refs : SUBSET Attachments, victim : Numbers, quota : BOOLEAN, total : Int]

FileTypes ==
    /\ uploaded \in Numbers
    /\ {payload, meta, old, known, referenced, late} \subseteq SUBSET Attachments
    /\ job \in [Workers -> Jobs]
    /\ \A w \in Workers : job[w].at \in {"payload", "meta"} => job[w].new # None

\* The uploads that measured the directory and have not written their payload yet count
\* as if they had: each of them found room when it measured.
Writers == {w \in Workers : job[w].at = "payload"}
StorageInv ==
    Cardinality(payload) + Cardinality(Writers) <= MaxStored + Cardinality(Workers) - 1

\* No collection still holds what is referenced, unless it could when it was named.
ReferenceInv ==
    /\ \A b \in referenced \ late : ~Doomed(b)
    /\ \A w \in Workers :
          /\ job[w].at \in {"refs", "sweep", "unlink"} => job[w].stale \subseteq job[w].records
          /\ job[w].at = "unlink" => job[w].victim \notin job[w].refs

Observations == [source : Attachments, text : Findings, revision : Nat, at : Nat]
Sayings == [source : Nat, text : Questions, at : Nat]
Candidates == [kind : {"user", "seen", "current"}, source : Nat, text : Questions \cup Findings,
               at : Nat, stale : BOOLEAN]

\* Observations of different attachments, each made in some perception.
Perception(r) == \E k \in Nat : r.at = (k + 1) * MaxAttachments + r.source
Dated(rows) ==
    /\ rows \subseteq Observations
    /\ \A r \in rows : Perception(r)
    /\ \A r, o \in rows : r.source = o.source => r = o

Tasks == [at : {"idle", "accept", "pool", "perceive", "run", "remember", "answer", "publish"},
          number : Nat, text : Questions \cup {""}, names : SUBSET Attachments, revision : Nat,
          said : SUBSET Sayings, items : SUBSET Observations, records : SUBSET Observations,
          context : SUBSET Candidates]

Turns == [owner : Workers \cup {NoWorker}, revision : Nat, records : SUBSET Observations,
          final : BOOLEAN]

TalkTypes ==
    /\ scenario \in Scenarios /\ revision \in Nat /\ perceived \in Nat
    /\ messages \in Seq([text : Questions, names : SUBSET Attachments])
    /\ turn \in Turns
    /\ task \in [Workers -> Tasks]
    /\ \A w \in Workers : task[w].at # "idle" => task[w].text \in Questions
    /\ turn # NoTurn => messages # <<>>

\* What the table keeps, and how far each attachment came: one whose newest observation is
\* gone was pruned by as many later ones as are kept.
Above(S, y) == {o \in S : o.at > y}
Kept(S, last) ==
    /\ Dated(S) /\ Cardinality(S) <= ItemBudget /\ last \in [Attachments -> Nat]
    /\ \A i \in S : i.at = last[i.source]
    /\ \A b \in Attachments :
          \/ last[b] = 0 \/ \E i \in S : i.source = b
          \/ Cardinality(Above(S, last[b])) >= ItemBudget
ItemInv == Kept(items, latest) /\ Dated(turn.records) /\ \A w \in Workers : Dated(task[w].records)

\* The executor in charge answers the last message, with what was said before it.
ContextOf(w) ==
    /\ task[w].at \in {"pool", "perceive"} /\ InCharge(w) => task[w].number = Len(messages)
    /\ task[w].at = "perceive" => Dated(task[w].items)
    /\ task[w].at = "perceive" /\ InCharge(w) => task[w].said = Remembered(task[w].text, Earlier)
    /\ task[w].at \in {"run", "remember"} => task[w].number <= Len(messages) /\ Grounded(w)
ContextInv == \A w \in Workers : ContextOf(w)

TalkInv == FileTypes /\ StorageInv /\ ReferenceInv /\ TalkTypes /\ ItemInv /\ ContextInv
-----------------------------------------------------------------------------
(* Attachments.                                                             *)

LEMMA FilesFinite ==
    ASSUME FileTypes
    PROVE  /\ \A S \in SUBSET Attachments : IsFiniteSet(S) /\ Cardinality(S) \in Nat
           /\ \A S \in SUBSET Workers : /\ IsFiniteSet(S) /\ Cardinality(S) \in Nat
                                        /\ Cardinality(S) <= Cardinality(Workers)
           /\ MaxStored \in Nat /\ Cardinality(Workers) \in Nat
<1>1. IsFiniteSet(Attachments)
  BY AttachmentAssumption, FS_Interval DEF Attachments
<1>2. IsFiniteSet(Workers)
  BY ConversationAssumption
<1> QED BY <1>1, <1>2, AttachmentAssumption, FS_Subset, FS_CardinalityType

\* A step of a worker that measures, or changes the files outside the payloads, or only
\* takes payloads away, keeps the quota.
LEMMA QuotaStays ==
    ASSUME FileTypes, FileTypes', StorageInv,
           \/ payload' \subseteq payload /\ Writers' \subseteq Writers
           \/ payload' = payload /\ Cardinality(payload) + 1 <= MaxStored
           \/ \E w \in Writers : \E a \in Attachments :
                 payload' = payload \cup {a} /\ Writers' = Writers \ {w}
    PROVE  StorageInv'
<1>1. /\ payload \in SUBSET Attachments /\ payload' \in SUBSET Attachments
      /\ Writers \in SUBSET Workers /\ Writers' \in SUBSET Workers
  BY DEF FileTypes, Writers
<1>2. /\ Cardinality(payload) \in Nat /\ Cardinality(payload') \in Nat
      /\ Cardinality(Writers) \in Nat /\ Cardinality(Writers') \in Nat
      /\ Cardinality(Writers') <= Cardinality(Workers)
      /\ IsFiniteSet(payload) /\ IsFiniteSet(Writers)
      /\ MaxStored \in Nat /\ Cardinality(Workers) \in Nat
  BY <1>1, FilesFinite
<1>3. CASE payload' \subseteq payload /\ Writers' \subseteq Writers
  <2>1. Cardinality(payload') <= Cardinality(payload) /\ Cardinality(Writers') <= Cardinality(Writers)
    BY <1>2, <1>3, FS_Subset
  <2> QED BY <1>2, <2>1 DEF StorageInv
<1>4. CASE payload' = payload /\ Cardinality(payload) + 1 <= MaxStored
  BY <1>2, <1>4 DEF StorageInv
<1>5. ASSUME NEW w \in Writers, NEW a \in Attachments,
             payload' = payload \cup {a}, Writers' = Writers \ {w}
      PROVE  StorageInv'
  <2>1. Cardinality(payload \cup {a}) <= Cardinality(payload) + 1
    <3>1. Cardinality(payload \cup {a}) = IF a \in payload THEN Cardinality(payload)
                                         ELSE Cardinality(payload) + 1
      BY <1>2, FS_AddElement
    <3> QED BY <1>2, <3>1
  <2>2. Cardinality(Writers \ {w}) = Cardinality(Writers) - 1
    BY <1>2, FS_RemoveElement
  <2> QED BY <1>2, <1>5, <2>1, <2>2 DEF StorageInv
<1> QED BY <1>3, <1>4, <1>5

\* Steps after which no collection holds more than it did.
LEMMA ReferencesStay ==
    ASSUME FileTypes, ReferenceInv,
           referenced' = referenced, late \subseteq late',
           \A b \in referenced \ late' : Whole(b) => Whole(b)',
           \A v \in Workers :
              \/ job'[v] = job[v]
              \/ job'[v].at \notin {"refs", "sweep", "unlink"}
              \/ /\ job'[v].at \in {"refs", "sweep", "unlink"}
                 /\ job'[v].stale \subseteq job'[v].records
                 /\ job'[v].at = "unlink" => job'[v].victim \notin job'[v].refs
                 /\ job'[v].at \in {"sweep", "unlink"} =>
                       \A b \in referenced \ late :
                          b \in job'[v].refs \/ b \notin job'[v].records \cup {job'[v].victim}
    PROVE  ReferenceInv'
<1>1. ASSUME NEW b \in referenced' \ late' PROVE ~Doomed(b)'
  <2>1. ~Doomed(b) /\ b \in referenced \ late
    BY DEF ReferenceInv
  <2>2. Whole(b)'
    BY <2>1 DEF Doomed
  <2>3. ASSUME NEW v \in Workers, job'[v].at \in {"sweep", "unlink"}, b \notin job'[v].refs
        PROVE  b \notin job'[v].records \cup {job'[v].victim}
    BY <2>1, <2>3 DEF Doomed
  <2> QED BY <2>2, <2>3 DEF Doomed
<1>2. \A v \in Workers :
         /\ job'[v].at \in {"refs", "sweep", "unlink"} => job'[v].stale \subseteq job'[v].records
         /\ job'[v].at = "unlink" => job'[v].victim \notin job'[v].refs
  BY DEF ReferenceInv
<1> QED BY <1>1, <1>2 DEF ReferenceInv

FileInv == FileTypes /\ StorageInv /\ ReferenceInv

LEMMA JobIs ==
    ASSUME FileTypes, NEW w \in Workers, NEW j, Step(w, j)
    PROVE  \A v \in Workers : job'[v] = IF v = w THEN j ELSE job[v]
BY DEF FileTypes, Step

\* A worker's job is what the step makes of it, and is well formed.
LEMMA JobTypes ==
    ASSUME FileTypes, NEW w \in Workers, NEW j \in Jobs, Step(w, j),
           uploaded' \in Numbers, late' \subseteq Attachments, referenced' = referenced,
           payload' \subseteq Attachments, meta' \subseteq Attachments,
           old' \subseteq Attachments, known' \subseteq Attachments,
           j.at \in {"payload", "meta"} => j.new # None
    PROVE  FileTypes'
<1>1. job' \in [Workers -> Jobs]
  BY DEF FileTypes, Step
<1>2. \A v \in Workers : job'[v] = IF v = w THEN j ELSE job[v]
  BY JobIs
<1> QED BY <1>1, <1>2 DEF FileTypes

LEMMA FreeJob == Free \in Jobs /\ Free.at = "idle" /\ Free.new = None
<1>1. None \in Numbers
  BY AttachmentAssumption DEF None, Numbers
<1> QED BY <1>1 DEF Free, Jobs, Places

LEMMA UploadInv ==
    ASSUME FileInv, NEW w \in Workers, Upload(w), late' = late PROVE FileInv'
<1> DEFINE new == [Free EXCEPT !.new = uploaded + 1]
<1>0. /\ uploaded' = uploaded + 1 /\ UNCHANGED <<payload, meta, old, known, referenced>>
      /\ uploaded < MaxAttachments /\ uploaded \in Nat /\ uploaded' \in Numbers
      /\ uploaded' # None /\ MaxAttachments \in Nat
  BY AttachmentAssumption DEF FileInv, FileTypes, Upload, Numbers, None
<1>1. PICK j \in Jobs : /\ Step(w, j) /\ j.new # None
                        /\ \/ j.at = "scan"
                           \/ j.at = "payload" /\ Cardinality(payload) + 1 <= MaxStored
  <2>1. new \in Jobs /\ new.new = uploaded + 1 /\ new.at = "idle"
    <3>1. new = [Free EXCEPT !.new = uploaded']
      BY <1>0
    <3> QED BY <1>0, <3>1, FreeJob DEF Jobs
  <2>2. /\ [new EXCEPT !.at = "payload"] \in Jobs /\ [new EXCEPT !.at = "scan"] \in Jobs
        /\ [new EXCEPT !.at = "payload"].at = "payload" /\ [new EXCEPT !.at = "scan"].at = "scan"
        /\ [new EXCEPT !.at = "payload"].new = uploaded + 1 /\ [new EXCEPT !.at = "scan"].new = uploaded + 1
    BY <2>1 DEF Jobs, Places
  <2>3. \/ Step(w, [new EXCEPT !.at = "payload"]) /\ Cardinality(payload) + 1 <= MaxStored
        \/ Step(w, [new EXCEPT !.at = "scan"])
    BY DEF Upload
  <2> HIDE DEF new
  <2> QED BY <1>0, <2>2, <2>3
<1>2. \A v \in Workers : job'[v] = IF v = w THEN j ELSE job[v]
  BY <1>1, JobIs DEF FileInv
<1>3. FileTypes'
  BY <1>0, <1>1, JobTypes DEF FileInv, FileTypes
<1>4. StorageInv'
  BY <1>0, <1>1, <1>2, <1>3, QuotaStays DEF FileInv, Writers
<1>5. ReferenceInv'
  BY <1>0, <1>1, <1>2, ReferencesStay DEF FileInv, Whole
<1> QED BY <1>3, <1>4, <1>5 DEF FileInv

\* What could not be read is late from then on; whatever else is whole stays so.
LEMMA ScanInv ==
    ASSUME FileInv, NEW w \in Workers, NEW unreadable \in SUBSET meta, Scan(w, unreadable),
           late' = late \cup unreadable
    PROVE  FileInv'
<1> DEFINE found == meta \ unreadable
           orphans == (payload \cap old) \ found
           total == Cardinality(payload \ orphans)
           listed == [job[w] EXCEPT !.records = found, !.stale = found \cap old, !.total = total]
           j == [listed EXCEPT !.at = IF found \cap old # {} \/ total > MaxStored
                                      THEN "refs" ELSE "total"]
<1>0. /\ payload' = payload \ orphans /\ meta' = found /\ UNCHANGED <<uploaded, old, known, referenced>>
      /\ Step(w, j) /\ job[w].at = "scan"
  BY DEF Scan
<1>1. /\ j \in Jobs /\ j.at \in {"refs", "total"} /\ j.records = found /\ j.stale = found \cap old
  <2>1. total \in Nat
    BY FilesFinite DEF FileInv, FileTypes
  <2>2. job[w] \in Jobs /\ found \in SUBSET Attachments
    BY DEF FileInv, FileTypes
  <2> HIDE DEF total, found
  <2>3. /\ listed \in Jobs /\ listed.records = found /\ listed.stale = found \cap old
    <3>1. total \in Int /\ found \cap old \in SUBSET Attachments
      BY <2>1, <2>2
    <3> QED BY <2>2, <3>1 DEF Jobs
  <2> HIDE DEF listed
  <2> QED BY <2>3 DEF Jobs, Places
<1>2. \A v \in Workers : job'[v] = IF v = w THEN j ELSE job[v]
  BY <1>0, JobIs DEF FileInv
<1>3. FileTypes'
  <2> HIDE DEF j
  <2>1. late' \subseteq Attachments /\ meta' \subseteq Attachments /\ payload' \subseteq Attachments
    BY <1>0 DEF FileInv, FileTypes
  <2> QED BY <1>0, <1>1, <2>1, JobTypes DEF FileInv, FileTypes
<1>4. StorageInv'
  <2> HIDE DEF j
  <2>1. payload' \subseteq payload /\ Writers' \subseteq Writers
    BY <1>0, <1>1, <1>2 DEF Writers
  <2> QED BY <2>1, <1>3, QuotaStays DEF FileInv
<1>5. ReferenceInv'
  <2> HIDE DEF j
  <2>1. \A b \in referenced \ late' : Whole(b) => Whole(b)'
    BY <1>0 DEF Whole
  <2> QED BY <1>0, <1>1, <1>2, <2>1, ReferencesStay DEF FileInv
<1> QED BY <1>3, <1>4, <1>5 DEF FileInv

LEMMA ReadReferencesInv ==
    ASSUME FileInv, NEW w \in Workers, ReadReferences(w), late' = late PROVE FileInv'
<1> DEFINE j == [job[w] EXCEPT !.at = "sweep", !.refs = referenced]
<1>0. /\ UNCHANGED <<uploaded, payload, meta, old, known, referenced>>
      /\ Step(w, j) /\ job[w].at = "refs"
  BY DEF ReadReferences
<1>1. /\ j \in Jobs /\ j.at = "sweep" /\ j.records = job[w].records /\ j.stale = job[w].stale
      /\ j.refs = referenced
  BY DEF FileInv, FileTypes, Jobs, Places
<1> HIDE DEF j
<1>2. \A v \in Workers : job'[v] = IF v = w THEN j ELSE job[v]
  BY <1>0, JobIs DEF FileInv
<1>3. FileTypes'
  BY <1>0, <1>1, JobTypes DEF FileInv, FileTypes
<1>4. StorageInv'
  <2>1. payload' \subseteq payload /\ Writers' \subseteq Writers
    BY <1>0, <1>1, <1>2 DEF Writers
  <2> QED BY <2>1, <1>3, QuotaStays DEF FileInv
<1>5. ReferenceInv'
  <2>1. j.stale \subseteq j.records
    BY <1>0, <1>1 DEF FileInv, ReferenceInv
  <2> QED BY <1>0, <1>1, <1>2, <2>1, ReferencesStay DEF FileInv, Whole
<1> QED BY <1>3, <1>4, <1>5 DEF FileInv

\* What a collection takes was not referenced when it read the references.
LEMMA UnlinkInv ==
    ASSUME FileInv, NEW w \in Workers, Unlink(w), late' = late PROVE FileInv'
<1>0. /\ UNCHANGED <<uploaded, meta, old, known, referenced>> /\ job[w].at = "sweep" /\ job[w] \in Jobs
      /\ job[w].stale \subseteq job[w].records
  BY DEF Unlink, FileInv, FileTypes, ReferenceInv
<1>1. PICK a \in job[w].records \ job[w].refs :
         /\ payload' = payload \ {a}
         /\ Step(w, [job[w] EXCEPT !.at = "unlink", !.victim = a, !.records = @ \ {a},
                              !.stale = @ \ {a},
                              !.total = IF a \in payload THEN @ - 1 ELSE @])
  BY <1>0 DEF Unlink, Expired, Evictable
<1> DEFINE j == [job[w] EXCEPT !.at = "unlink", !.victim = a, !.records = @ \ {a},
                              !.stale = @ \ {a},
                              !.total = IF a \in payload THEN @ - 1 ELSE @]
<1>2. /\ j.at = "unlink" /\ j.records = job[w].records \ {a} /\ j.stale = job[w].stale \ {a}
      /\ j.refs = job[w].refs /\ j.victim = a
  BY <1>0 DEF Jobs
<1>3. j \in Jobs
  <2>1. a \in Numbers
    BY <1>0, AttachmentAssumption DEF Jobs, Attachments, Numbers
  <2>2. job[w].total - 1 \in Int
    BY <1>0 DEF Jobs
  <2> QED BY <1>0, <2>1, <2>2 DEF Jobs, Places
<1>4. Step(w, j)
  BY <1>1
<1> HIDE DEF j
<1>5. \A v \in Workers : job'[v] = IF v = w THEN j ELSE job[v]
  BY <1>4, JobIs DEF FileInv
<1>6. FileTypes'
  BY <1>0, <1>1, <1>2, <1>3, <1>4, JobTypes DEF FileInv, FileTypes
<1>7. StorageInv'
  <2>1. payload' \subseteq payload /\ Writers' \subseteq Writers
    BY <1>1, <1>2, <1>5 DEF Writers
  <2> QED BY <2>1, <1>6, QuotaStays DEF FileInv
<1>8. ReferenceInv'
  <2>1. ASSUME NEW b \in referenced \ late
        PROVE  b # a /\ (b \in j.refs \/ b \notin j.records \cup {j.victim})
    <3>1. b \in job[w].refs \/ b \notin job[w].records
      BY <1>0 DEF FileInv, ReferenceInv, Doomed
    <3> QED BY <1>1, <1>2, <3>1
  <2>2. \A b \in referenced \ late : Whole(b) => Whole(b)'
    BY <1>0, <1>1, <2>1 DEF Whole
  <2> QED BY <1>0, <1>2, <1>5, <2>1, <2>2, ReferencesStay DEF FileInv
<1> QED BY <1>6, <1>7, <1>8 DEF FileInv

LEMMA UnlinkMetaInv ==
    ASSUME FileInv, NEW w \in Workers, UnlinkMeta(w), late' = late PROVE FileInv'
<1> DEFINE j == [job[w] EXCEPT !.at = "sweep", !.victim = None]
<1>0. /\ UNCHANGED <<uploaded, payload, old, known, referenced>> /\ meta' = meta \ {job[w].victim}
      /\ Step(w, j) /\ job[w].at = "unlink"
  BY DEF UnlinkMeta
<1>1. /\ j \in Jobs /\ j.at = "sweep" /\ j.records = job[w].records /\ j.stale = job[w].stale
      /\ j.refs = job[w].refs /\ j.victim = None
  <2>1. job[w] \in Jobs /\ None \in Numbers
    BY AttachmentAssumption DEF FileInv, FileTypes, Numbers, None
  <2> QED BY <2>1 DEF Jobs, Places
<1> HIDE DEF j
<1>2. \A v \in Workers : job'[v] = IF v = w THEN j ELSE job[v]
  BY <1>0, JobIs DEF FileInv
<1>3. FileTypes'
  BY <1>0, <1>1, JobTypes DEF FileInv, FileTypes
<1>4. StorageInv'
  <2>1. payload' \subseteq payload /\ Writers' \subseteq Writers
    BY <1>0, <1>1, <1>2 DEF Writers
  <2> QED BY <2>1, <1>3, QuotaStays DEF FileInv
<1>5. ReferenceInv'
  <2>1. \A b \in referenced \ late : b \in job[w].refs \/ b \notin job[w].records \cup {job[w].victim}
    BY <1>0 DEF FileInv, ReferenceInv, Doomed
  <2>2. \A b \in referenced \ late : b # None
    BY DEF FileInv, FileTypes, Attachments, None
  <2>3. job[w].victim \notin job[w].refs
    BY <1>0 DEF FileInv, ReferenceInv
  <2>4. \A b \in referenced \ late : Whole(b) => Whole(b)'
    BY <1>0, <2>1, <2>3 DEF Whole
  <2>5. j.stale \subseteq j.records
    BY <1>0, <1>1 DEF FileInv, ReferenceInv
  <2> QED BY <1>0, <1>1, <1>2, <2>1, <2>2, <2>4, <2>5, ReferencesStay DEF FileInv
<1> QED BY <1>3, <1>4, <1>5 DEF FileInv

LEMMA SweepDoneInv ==
    ASSUME FileInv, NEW w \in Workers, SweepDone(w), late' = late PROVE FileInv'
<1>0. /\ UNCHANGED <<uploaded, payload, meta, old, known, referenced>>
      /\ job[w].at = "sweep" /\ job[w] \in Jobs
  BY DEF SweepDone, FileInv, FileTypes
<1>1. PICK j \in Jobs : /\ Step(w, j) /\ j.at \in {"sweep", "total"}
                        /\ j.records = job[w].records /\ j.stale = job[w].stale
                        /\ j.refs = job[w].refs /\ j.victim = job[w].victim
  <2> DEFINE done == [job[w] EXCEPT !.at = "total"]
             again == [job[w] EXCEPT !.quota = TRUE]
  <2>1. /\ done \in Jobs /\ done.at = "total" /\ done.records = job[w].records
        /\ done.stale = job[w].stale /\ done.refs = job[w].refs /\ done.victim = job[w].victim
    BY <1>0 DEF Jobs, Places
  <2>2. /\ again \in Jobs /\ again.at = "sweep" /\ again.records = job[w].records
        /\ again.stale = job[w].stale /\ again.refs = job[w].refs /\ again.victim = job[w].victim
    BY <1>0 DEF Jobs, Places
  <2>3. Step(w, done) \/ Step(w, again)
    BY DEF SweepDone
  <2> HIDE DEF done, again
  <2> QED BY <2>1, <2>2, <2>3
<1>2. \A v \in Workers : job'[v] = IF v = w THEN j ELSE job[v]
  BY <1>1, JobIs DEF FileInv
<1>3. FileTypes'
  BY <1>0, <1>1, JobTypes DEF FileInv, FileTypes
<1>4. StorageInv'
  <2>1. payload' \subseteq payload /\ Writers' \subseteq Writers
    BY <1>0, <1>1, <1>2 DEF Writers
  <2> QED BY <2>1, <1>3, QuotaStays DEF FileInv
<1>5. ReferenceInv'
  <2>1. \A b \in referenced \ late : b \in job[w].refs \/ b \notin job[w].records \cup {job[w].victim}
    BY <1>0 DEF FileInv, ReferenceInv, Doomed
  <2>2. j.stale \subseteq j.records
    BY <1>0, <1>1 DEF FileInv, ReferenceInv
  <2>3. \A b \in referenced \ late : Whole(b) => Whole(b)'
    BY <1>0 DEF Whole
  <2> QED BY <1>0, <1>1, <1>2, <2>1, <2>2, <2>3, ReferencesStay DEF FileInv
<1> QED BY <1>3, <1>4, <1>5 DEF FileInv

\* An upload goes on only when the directory has room for it now.
LEMMA MeasureInv ==
    ASSUME FileInv, NEW w \in Workers, Measure(w), late' = late PROVE FileInv'
<1>0. /\ UNCHANGED <<uploaded, payload, meta, old, known, referenced>>
      /\ job[w].at = "total" /\ job[w] \in Jobs
  BY DEF Measure, FileInv, FileTypes
<1>1. PICK j \in Jobs : /\ Step(w, j)
                        /\ \/ j.at = "idle"
                           \/ j.at = "payload" /\ j.new # None /\ Cardinality(payload) + 1 <= MaxStored
  <2>1. [Free EXCEPT !.at = "payload", !.new = job[w].new] \in Jobs
    BY <1>0, FreeJob DEF Jobs, Places
  <2>2. /\ [Free EXCEPT !.at = "payload", !.new = job[w].new].at = "payload"
        /\ [Free EXCEPT !.at = "payload", !.new = job[w].new].new = job[w].new
    BY FreeJob DEF Jobs
  <2> QED BY <2>1, <2>2, FreeJob DEF Measure
<1>2. \A v \in Workers : job'[v] = IF v = w THEN j ELSE job[v]
  BY <1>1, JobIs DEF FileInv
<1>3. FileTypes'
  BY <1>0, <1>1, JobTypes DEF FileInv, FileTypes
<1>4. StorageInv'
  BY <1>0, <1>1, <1>2, <1>3, QuotaStays DEF FileInv, Writers
<1>5. ReferenceInv'
  <2>1. \A b \in referenced \ late : Whole(b) => Whole(b)'
    BY <1>0 DEF Whole
  <2> QED BY <1>0, <1>1, <1>2, <2>1, ReferencesStay DEF FileInv
<1> QED BY <1>3, <1>4, <1>5 DEF FileInv

LEMMA InstallPayloadInv ==
    ASSUME FileInv, NEW w \in Workers, InstallPayload(w), late' = late PROVE FileInv'
<1> DEFINE j == [job[w] EXCEPT !.at = "meta"]
<1>0. /\ UNCHANGED <<uploaded, meta, old, known, referenced>> /\ payload' = payload \cup {job[w].new}
      /\ Step(w, j) /\ job[w].at = "payload" /\ job[w].new \in Attachments /\ job[w] \in Jobs
  BY AttachmentAssumption DEF InstallPayload, FileInv, FileTypes, Jobs, Numbers, Attachments, None
<1>1. j \in Jobs /\ j.at = "meta" /\ j.new # None
  BY <1>0, AttachmentAssumption DEF Jobs, Places, Attachments, None
<1> HIDE DEF j
<1>2. \A v \in Workers : job'[v] = IF v = w THEN j ELSE job[v]
  BY <1>0, JobIs DEF FileInv
<1>3. FileTypes'
  BY <1>0, <1>1, JobTypes DEF FileInv, FileTypes
<1>4. StorageInv'
  <2>1. w \in Writers /\ Writers' = Writers \ {w}
    BY <1>0, <1>1, <1>2 DEF Writers
  <2> QED BY <1>0, <1>3, <2>1, QuotaStays DEF FileInv
<1>5. ReferenceInv'
  <2>1. \A b \in referenced \ late : Whole(b) => Whole(b)'
    BY <1>0 DEF Whole
  <2> QED BY <1>0, <1>1, <1>2, <2>1, ReferencesStay DEF FileInv
<1> QED BY <1>3, <1>4, <1>5 DEF FileInv

LEMMA InstallMetaInv ==
    ASSUME FileInv, NEW w \in Workers, InstallMeta(w), late' = late PROVE FileInv'
<1>0. /\ UNCHANGED <<uploaded, payload, old, referenced>> /\ meta' = meta \cup {job[w].new}
      /\ known' = known \cup {job[w].new}
      /\ Step(w, Free) /\ job[w].at = "meta" /\ job[w].new \in Attachments /\ job[w] \in Jobs
  BY AttachmentAssumption DEF InstallMeta, FileInv, FileTypes, Jobs, Numbers, Attachments, None
<1>2. \A v \in Workers : job'[v] = IF v = w THEN Free ELSE job[v]
  BY <1>0, JobIs DEF FileInv
<1>3. FileTypes'
  BY <1>0, FreeJob, JobTypes DEF FileInv, FileTypes
<1>4. StorageInv'
  <2>1. payload' \subseteq payload /\ Writers' \subseteq Writers
    BY <1>0, <1>2, FreeJob DEF Writers
  <2> QED BY <2>1, <1>3, QuotaStays DEF FileInv
<1>5. ReferenceInv'
  <2>1. \A b \in referenced \ late : Whole(b) => Whole(b)'
    BY <1>0 DEF Whole
  <2> QED BY <1>0, <1>2, <2>1, FreeJob, ReferencesStay DEF FileInv
<1> QED BY <1>3, <1>4, <1>5 DEF FileInv

LEMMA RestartInv ==
    ASSUME FileInv, NEW w \in Workers, Restart(w), late' = late PROVE FileInv'
<1>0. UNCHANGED <<uploaded, payload, meta, old, known, referenced>> /\ Step(w, Starting)
  BY DEF Restart
<1>1. Starting \in Jobs /\ Starting.at = "scan"
  BY FreeJob DEF Starting, Jobs, Places
<1>2. \A v \in Workers : job'[v] = IF v = w THEN Starting ELSE job[v]
  BY <1>0, JobIs DEF FileInv
<1>3. FileTypes'
  BY <1>0, <1>1, JobTypes DEF FileInv, FileTypes
<1>4. StorageInv'
  <2>1. payload' \subseteq payload /\ Writers' \subseteq Writers
    BY <1>0, <1>1, <1>2 DEF Writers
  <2> QED BY <2>1, <1>3, QuotaStays DEF FileInv
<1>5. ReferenceInv'
  <2>1. \A b \in referenced \ late : Whole(b) => Whole(b)'
    BY <1>0 DEF Whole
  <2> QED BY <1>0, <1>1, <1>2, <2>1, ReferencesStay DEF FileInv
<1> QED BY <1>3, <1>4, <1>5 DEF FileInv

\* Steps that leave files and references alone.
LEMMA FilesUntouched ==
    ASSUME FileInv, UNCHANGED fileVars, UNCHANGED <<referenced, late>> PROVE FileInv'
BY DEF FileInv, FileTypes, StorageInv, ReferenceInv, Writers, Doomed, Whole, fileVars

LEMMA FileStepInv ==
    ASSUME FileInv, NEW serving \in SUBSET Workers, FileStep(serving), late' = late
    PROVE  FileInv' /\ UNCHANGED referenced
<1>1. CASE GrowOld
  <2>1. PICK a \in (payload \cup meta) \ old :
           old' = old \cup {a} /\ UNCHANGED <<uploaded, payload, meta, known, job, referenced>>
    BY <1>1 DEF GrowOld
  <2>2. FileTypes'
    BY <2>1 DEF FileInv, FileTypes
  <2>3. StorageInv' /\ ReferenceInv'
    BY <2>1 DEF FileInv, StorageInv, ReferenceInv, Writers, Doomed, Whole
  <2> QED BY <2>1, <2>2, <2>3 DEF FileInv
<1>2. ASSUME NEW w \in Workers,
             \/ Upload(w) \/ Scan(w, {}) \/ ReadReferences(w) \/ Unlink(w) \/ UnlinkMeta(w)
             \/ SweepDone(w) \/ Measure(w) \/ InstallPayload(w) \/ InstallMeta(w)
      PROVE  FileInv' /\ UNCHANGED referenced
  <2>1. UNCHANGED referenced
    BY <1>2 DEF Upload, Scan, ReadReferences, Unlink, UnlinkMeta, SweepDone, Measure,
                InstallPayload, InstallMeta
  <2>2. Scan(w, {}) => FileInv'
    <3>1. {} \in SUBSET meta /\ late' = late \cup {}
      OBVIOUS
    <3> QED BY <3>1, ScanInv
  <2> QED BY <1>2, <2>1, <2>2, UploadInv, ReadReferencesInv, UnlinkInv, UnlinkMetaInv,
             SweepDoneInv, MeasureInv, InstallPayloadInv, InstallMetaInv
<1> QED BY <1>1, <1>2 DEF FileStep

\* A message names attachments: those a collection holds, or that are gone, are late.
LEMMA NamesInv ==
    ASSUME FileInv, UNCHANGED fileVars, NEW names \in SUBSET Attachments,
           referenced' = referenced \cup names,
           late' = late \cup {b \in names : Doomed(b)}
    PROVE  FileInv'
<1>1. \A b : Doomed(b)' = Doomed(b)
  BY DEF fileVars, Doomed, Whole
<1> QED BY <1>1 DEF fileVars, FileInv, FileTypes, StorageInv, ReferenceInv, Writers

-----------------------------------------------------------------------------
(* The rows of observations.                                                *)

LEMMA GreatestIs ==
    ASSUME NEW S \in SUBSET Nat, NEW m \in S, \A y \in S : y <= m
    PROVE  Max(S) = m
<1>1. \E x \in S : \A y \in S : x >= y
  OBVIOUS
<1>2. Max(S) \in S /\ \A y \in S : Max(S) >= y
  BY <1>1 DEF Max
<1>3. Max(S) \in Nat /\ m \in Nat /\ Max(S) >= m /\ Max(S) <= m
  BY <1>2
<1> QED BY <1>3

Stamped(S) == IsFiniteSet(S) /\ \A r \in S : r.at \in Nat

LEMMA AboveFinite ==
    ASSUME NEW S, Stamped(S), NEW y, NEW T \in SUBSET S
    PROVE  /\ Stamped(T) /\ Stamped(Above(S, y)) /\ Cardinality(T) \in Nat
           /\ Cardinality(Above(S, y)) \in Nat
<1>1. Above(S, y) \in SUBSET S
  BY DEF Above
<1> QED BY <1>1, FS_Subset, FS_CardinalityType DEF Stamped

\* A limit is kept where no two rows are of the same time.
LEMMA NewestSize ==
    ASSUME NEW S, Stamped(S), \A r, o \in S : r.at = o.at => r = o, NEW n \in Nat
    PROVE  Cardinality(Newest(S, n)) <= n
<1> DEFINE N == Newest(S, n)
<1>1. N \in SUBSET S /\ \A r \in N : Cardinality(Above(S, r.at)) < n
  BY DEF Newest, Above
<1> HIDE DEF N
<1>2. IsFiniteSet(N) /\ Cardinality(N) \in Nat
  BY <1>1, AboveFinite DEF Stamped
<1>3. CASE N = {}
  BY <1>3, FS_EmptySet DEF N
<1>4. CASE N # {}
  <2> DEFINE times == {r.at : r \in N}
  <2>1. times \in SUBSET Nat /\ times # {}
    BY <1>1, <1>4 DEF Stamped
  <2>2. PICK t \in times : \A u \in times : t <= u
    <3> HIDE DEF times
    <3> QED BY <2>1, LeastExists
  <2>3. PICK m \in N : t = m.at
    BY <2>2
  <2>4. \A r \in N \ {m} : r.at > m.at
    <3> TAKE r \in N \ {m}
    <3>1. m.at <= r.at /\ r.at \in Nat /\ m.at \in Nat
      BY <1>1, <2>2, <2>3 DEF Stamped
    <3>2. r.at # m.at
      BY <1>1
    <3> QED BY <3>1, <3>2
  <2>5. N \ {m} \in SUBSET Above(S, m.at)
    BY <1>1, <2>4 DEF Above
  <2>6. IsFiniteSet(Above(S, m.at)) /\ Cardinality(Above(S, m.at)) \in Nat
    BY AboveFinite DEF Stamped
  <2>7. Cardinality(N \ {m}) <= Cardinality(Above(S, m.at))
    BY <2>5, <2>6, FS_Subset
  <2>8. Cardinality(N \ {m}) = Cardinality(N) - 1
    BY <1>2, FS_RemoveElement
  <2>9. Cardinality(N) <= n
    BY <1>1, <1>2, <2>6, <2>7, <2>8
  <2> QED BY <2>9 DEF N
<1> QED BY <1>3, <1>4

\* If there are as many rows after y as the limit, so there are in what it keeps.
LEMMA NewestFull ==
    ASSUME NEW S, Stamped(S), NEW n \in Nat, NEW y \in Nat, Cardinality(Above(S, y)) >= n
    PROVE  Cardinality(Above(Newest(S, n), y)) >= n
<1> DEFINE N == Newest(S, n)
           left == Above(S, y) \ N
           Rank(r) == Cardinality(Above(S, r.at))
<1>0. Above(S, y) \in SUBSET S
  BY DEF Above
<1>1. N \in SUBSET S /\ \A r \in S : r \in N <=> Rank(r) < n
  BY DEF Newest, Above
<1>2. \A r \in S : r.at \in Nat /\ Rank(r) \in Nat /\ IsFiniteSet(Above(S, r.at))
  BY AboveFinite DEF Stamped
<1>3. /\ Above(N, y) \in SUBSET S /\ IsFiniteSet(Above(N, y)) /\ Cardinality(Above(N, y)) \in Nat
  <2>1. Above(N, y) \in SUBSET S
    BY <1>1 DEF Above
  <2> QED BY <2>1, AboveFinite DEF Stamped
<1> HIDE DEF N
<1>4. CASE left = {}
  <2>1. Above(N, y) = Above(S, y)
    BY <1>0, <1>1, <1>4 DEF Above
  <2> QED BY <2>1 DEF N
<1>5. CASE left # {}
  <2> DEFINE ranks == {Rank(r) : r \in left}
  <2>1. ranks \in SUBSET Nat /\ ranks # {}
    BY <1>0, <1>2, <1>5
  <2>2. PICK t \in ranks : \A u \in ranks : t <= u
    <3> HIDE DEF ranks
    <3> QED BY <2>1, LeastExists
  <2>3. PICK m \in left : t = Rank(m)
    BY <2>2
  <2>4. m \in S /\ m.at > y /\ m.at \in Nat /\ Rank(m) \in Nat /\ Rank(m) >= n
    <3>1. m \in S /\ m.at > y /\ m \notin N
      BY <1>0 DEF Above
    <3> QED BY <1>1, <1>2, <3>1
  <2>5. ASSUME NEW o \in Above(S, m.at) PROVE o \in Above(N, y)
    <3>1. o \in S /\ o.at > m.at /\ o.at \in Nat
      BY <1>2, <2>5 DEF Above
    <3>2. o.at > y /\ o \in Above(S, y)
      BY <2>4, <3>1 DEF Above
    <3>3. o \in N
      <4> SUFFICES ASSUME o \in left PROVE FALSE
        BY <3>2
      <4>1. Rank(m) <= Rank(o)
        BY <2>2, <2>3
      <4>2. Above(S, o.at) \in SUBSET (Above(S, m.at) \ {o})
        <5> SUFFICES ASSUME NEW x \in Above(S, o.at) PROVE x \in Above(S, m.at) /\ x # o
          OBVIOUS
        <5>1. x \in S /\ x.at > o.at /\ x.at \in Nat
          BY <1>2 DEF Above
        <5>2. x.at > m.at /\ x # o
          BY <2>4, <3>1, <5>1
        <5> QED BY <5>1, <5>2 DEF Above
      <4>3. /\ IsFiniteSet(Above(S, m.at) \ {o})
            /\ Cardinality(Above(S, m.at) \ {o}) = Rank(m) - 1
        BY <1>2, <2>4, <2>5, FS_RemoveElement
      <4>4. Rank(o) <= Rank(m) - 1
        <5> HIDE DEF Rank
        <5>1. Cardinality(Above(S, o.at)) <= Cardinality(Above(S, m.at) \ {o})
          BY <4>2, <4>3, FS_Subset
        <5> QED BY <4>3, <5>1 DEF Rank
      <4> QED BY <1>2, <2>4, <3>1, <4>1, <4>4
    <3> QED BY <3>2, <3>3 DEF Above
  <2>6. Cardinality(Above(S, m.at)) <= Cardinality(Above(N, y))
    <3>1. Above(S, m.at) \in SUBSET Above(N, y)
      BY <2>5
    <3> QED BY <1>3, <3>1, FS_Subset
  <2> QED BY <1>3, <2>4, <2>6 DEF N
<1> QED BY <1>4, <1>5

\* The time of an observation tells its attachment.
LEMMA ProductGrows ==
    ASSUME NEW k \in Nat, NEW l \in Nat, k < l, NEW m \in Nat
    PROVE  (k + 1) * m + m <= (l + 1) * m
<1>1. PICK d \in Nat : l = k + 1 + d
  <2>1. l - k - 1 \in Nat /\ l = k + 1 + (l - k - 1)
    OBVIOUS
  <2> QED BY <2>1
<1>2. (l + 1) * m = (k + 1) * m + m + d * m
  BY <1>1
<1>3. d * m \in Nat /\ (k + 1) * m \in Nat
  OBVIOUS
<1> QED BY <1>2, <1>3

LEMMA TimeTells ==
    ASSUME NEW r, NEW o, r.source \in Attachments, o.source \in Attachments,
           Perception(r), Perception(o), r.at = o.at
    PROVE  r.source = o.source
<1>1. PICK k \in Nat : r.at = (k + 1) * MaxAttachments + r.source
  BY DEF Perception
<1>2. PICK l \in Nat : o.at = (l + 1) * MaxAttachments + o.source
  BY DEF Perception
<1>3. /\ MaxAttachments \in Nat /\ r.source \in 1 .. MaxAttachments
      /\ o.source \in 1 .. MaxAttachments
  BY AttachmentAssumption DEF Attachments
<1>4. PICK p \in Nat : p = (k + 1) * MaxAttachments
  BY <1>3
<1>5. PICK q \in Nat : q = (l + 1) * MaxAttachments
  BY <1>3
<1>6. r.at = p + r.source /\ r.at = q + o.source
  BY <1>1, <1>2, <1>4, <1>5
<1>7. CASE k < l
  <2>1. p + MaxAttachments <= q
    BY <1>3, <1>4, <1>5, <1>7, ProductGrows
  <2> QED BY <1>3, <1>6, <2>1
<1>8. CASE l < k
  <2>1. q + MaxAttachments <= p
    BY <1>3, <1>4, <1>5, <1>8, ProductGrows
  <2> QED BY <1>3, <1>6, <2>1
<1>9. CASE k = l
  BY <1>3, <1>4, <1>5, <1>6, <1>9
<1> QED BY <1>7, <1>8, <1>9

LEMMA DatedFinite ==
    ASSUME NEW S, Dated(S)
    PROVE  /\ Stamped(S) /\ Cardinality(S) \in Nat
           /\ \A r, o \in S : r.at = o.at => r = o
<1> DEFINE f == [r \in S |-> r.source]
<1>1. S \subseteq Observations /\ \A r \in S : r.source \in Attachments /\ r.at \in Nat
  BY DEF Dated, Observations
<1>2. f \in Injection(S, Attachments)
  <2>1. f \in [S -> Attachments]
    BY <1>1
  <2>2. \A r, o \in S : f[r] = f[o] => r = o
    BY DEF Dated
  <2> QED BY <2>1, <2>2 DEF Injection, IsInjective
<1>3. IsFiniteSet(Attachments)
  BY AttachmentAssumption, FS_Interval DEF Attachments
<1>4. IsFiniteSet(S)
  <2> HIDE DEF f
  <2> QED BY <1>2, <1>3, FS_Injection
<1>5. \A r, o \in S : r.at = o.at => r = o
  <2> TAKE r, o \in S
  <2> HAVE r.at = o.at
  <2>1. Perception(r) /\ Perception(o)
    BY DEF Dated
  <2>2. r.source = o.source
    BY <1>1, <2>1, TimeTells
  <2> QED BY <2>2 DEF Dated
<1> QED BY <1>1, <1>4, <1>5, FS_CardinalityType DEF Stamped

LEMMA DatedSubset ==
    ASSUME NEW S, Dated(S), NEW T \in SUBSET S PROVE Dated(T)
BY DEF Dated

\* Every attachment keeps an observation, and one that is not older.
LEMMA UpsertEffect ==
    ASSUME NEW S, NEW R, Dated(S), Dated(R)
    PROVE  /\ Dated(Upsert(S, R))
           /\ \A i \in S : \E u \in Upsert(S, R) : u.source = i.source /\ u.at >= i.at
<1>0. /\ S \subseteq Observations /\ R \subseteq Observations
      /\ \A i \in S \cup R : i.at \in Nat /\ Perception(i)
  BY DEF Dated, Observations
<1>1. Upsert(S, R) \subseteq S \cup R
  BY DEF Upsert
<1>2. ASSUME NEW r \in Upsert(S, R), NEW o \in Upsert(S, R), r.source = o.source
      PROVE  r = o
  <2>1. CASE r \in S /\ o \in S
    BY <1>2, <2>1 DEF Dated
  <2>2. CASE r \in R /\ o \in R
    BY <1>2, <2>2 DEF Dated
  <2>3. CASE r \notin S /\ o \notin R
    BY <1>0, <1>1, <1>2, <2>3 DEF Upsert
  <2>4. CASE r \notin R /\ o \notin S
    BY <1>0, <1>1, <1>2, <2>4 DEF Upsert
  <2> QED BY <1>1, <2>1, <2>2, <2>3, <2>4
<1>3. ASSUME NEW i \in S
      PROVE  \E u \in Upsert(S, R) : u.source = i.source /\ u.at >= i.at
  <2>1. CASE \A r \in R : r.source = i.source => i.at > r.at
    BY <1>0, <2>1 DEF Upsert
  <2>2. ASSUME NEW r \in R, r.source = i.source, ~(i.at > r.at)
        PROVE  \E u \in Upsert(S, R) : u.source = i.source /\ u.at >= i.at
    <3>1. i.at \in Nat /\ r.at \in Nat /\ i.at <= r.at
      BY <1>0, <2>2
    <3>2. \A j \in S : j.source = r.source => j = i
      BY <2>2 DEF Dated
    <3>3. r \in Upsert(S, R)
      BY <3>1, <3>2 DEF Upsert
    <3> QED BY <2>2, <3>1, <3>3
  <2> QED BY <2>1, <2>2
<1>4. Dated(Upsert(S, R))
  BY <1>0, <1>1, <1>2 DEF Dated
<1> QED BY <1>3, <1>4

LEMMA UpsertLosesNone ==
    ASSUME NEW S, NEW R, Dated(S), Dated(R), NEW y \in Nat
    PROVE  Cardinality(Above(S, y)) <= Cardinality(Above(Upsert(S, R), y))
<1> DEFINE A == Above(S, y)
           B == Above(Upsert(S, R), y)
           f == [i \in A |-> CHOOSE u \in B : u.source = i.source]
<1>0. /\ \A i \in S : i.at \in Nat
      /\ \A i \in Upsert(S, R) : i.at \in Nat
  BY UpsertEffect DEF Dated, Observations
<1>1. \A i \in A : \E u \in B : u.source = i.source
  <2> TAKE i \in A
  <2>1. i \in S /\ i.at > y
    BY DEF Above
  <2>2. PICK u \in Upsert(S, R) : u.source = i.source /\ u.at >= i.at
    BY <2>1, UpsertEffect
  <2>3. u.at > y
    BY <1>0, <2>1, <2>2
  <2> QED BY <2>2, <2>3 DEF Above
<1>2. IsFiniteSet(B)
  BY UpsertEffect, DatedFinite, AboveFinite DEF Stamped
<1>3. A \in SUBSET S
  BY DEF Above
<1> HIDE DEF A, B
<1>4. \A i \in A : f[i] \in B /\ f[i].source = i.source
  BY <1>1
<1>5. f \in Injection(A, B)
  <2>1. f \in [A -> B]
    BY <1>4
  <2>2. \A i, o \in A : f[i] = f[o] => i = o
    <3> TAKE i, o \in A
    <3> HAVE f[i] = f[o]
    <3>1. i.source = o.source
      BY <1>4
    <3> QED BY <1>3, <3>1 DEF Dated
  <2> QED BY <2>1, <2>2 DEF Injection, IsInjective
<1>6. Cardinality(A) <= Cardinality(B)
  <2> HIDE DEF f
  <2> QED BY <1>2, <1>5, FS_Injection
<1> QED BY <1>6 DEF A, B

LEMMA RememberKeeps ==
    ASSUME NEW S, NEW R, NEW last, Kept(S, last), Dated(R), NEW T, T = Remember(S, R),
           NEW next, next = [b \in Attachments |->
                                Max({last[b]} \cup {r.at : r \in {i \in T : i.source = b}})]
    PROVE  Kept(T, next)
<1> DEFINE U == Upsert(S, R)
<1>0. ItemBudget \in Nat
  BY ContextAssumption
<1>1. Dated(S) /\ Dated(U) /\ Stamped(U) /\ \A r, o \in U : r.at = o.at => r = o
  BY UpsertEffect, DatedFinite DEF Kept
<1>2. T = Newest(U, ItemBudget)
  BY DEF Remember
<1>3. \A i \in S : \E u \in U : u.source = i.source /\ u.at >= i.at
  BY UpsertEffect DEF Kept
<1>4. \A y \in Nat : Cardinality(Above(S, y)) <= Cardinality(Above(U, y))
  BY UpsertLosesNone DEF Kept
<1>5. \A u \in U : u \in S \/ (\A i \in S : i.source = u.source => i.at <= u.at)
  BY DEF Upsert
<1>6. last \in [Attachments -> Nat] /\ \A i \in S : i.at = last[i.source]
  BY DEF Kept
<1>7. /\ \A u \in U : u.at \in Nat /\ u.source \in Attachments
      /\ \A y \in Nat : /\ Cardinality(Above(U, y)) \in Nat /\ Cardinality(Above(S, y)) \in Nat
                        /\ IsFiniteSet(Above(U, y))
  <2>1. Stamped(S)
    BY <1>1, DatedFinite
  <2> QED BY <1>1, <2>1, AboveFinite DEF Dated, Observations, Stamped
<1> HIDE DEF U
<1>8. T \in SUBSET U /\ \A u \in U : u \in T <=> Cardinality(Above(U, u.at)) < ItemBudget
  BY <1>2 DEF Newest, Above
<1>9. Dated(T)
  BY <1>1, <1>8, DatedSubset
<1>10. Cardinality(T) <= ItemBudget
  BY <1>0, <1>1, <1>2, NewestSize
\* No row of T is older than what was kept of its attachment.
<1>11. ASSUME NEW u \in T PROVE u.at >= last[u.source]
  <2>0. u \in U /\ u.at \in Nat /\ u.source \in Attachments /\ last[u.source] \in Nat
    BY <1>6, <1>7, <1>8
  <2>1. CASE u \in S
    BY <1>6, <2>0, <2>1
  <2>2. CASE \E i \in S : i.source = u.source
    BY <1>5, <1>6, <2>0, <2>1, <2>2
  <2>3. CASE last[u.source] = 0
    BY <2>0, <2>3
  <2>4. CASE Cardinality(Above(S, last[u.source])) >= ItemBudget
    <3> SUFFICES ASSUME u.at < last[u.source] PROVE FALSE
      BY <2>0
    <3>1. Above(U, last[u.source]) \in SUBSET Above(U, u.at)
      BY <1>7, <2>0 DEF Above
    <3>2. Cardinality(Above(U, last[u.source])) <= Cardinality(Above(U, u.at))
      BY <1>7, <2>0, <3>1, FS_Subset
    <3>3. Cardinality(Above(U, u.at)) < ItemBudget
      BY <1>8, <2>0
    <3>4. Cardinality(Above(S, last[u.source])) <= Cardinality(Above(U, last[u.source]))
      BY <1>4, <2>0
    <3> QED BY <1>0, <1>7, <2>0, <2>4, <3>2, <3>3, <3>4
  <2> QED BY <2>0, <2>1, <2>2, <2>3, <2>4 DEF Kept
<1>12. ASSUME NEW b \in Attachments
       PROVE  /\ \A u \in T : u.source = b => next[b] = u.at
              /\ (\A u \in T : u.source # b) => next[b] = last[b]
              /\ next[b] \in Nat
  <2> DEFINE ats == {last[b]} \cup {r.at : r \in {i \in T : i.source = b}}
  <2>0. next[b] = Max(ats) /\ last[b] \in Nat
    BY <1>6
  <2>1. ats \in SUBSET Nat
    BY <1>7, <1>8, <2>0
  <2>2. ASSUME NEW u \in T, u.source = b PROVE next[b] = u.at
    <3>1. \A i \in T : i.source = b => i = u
      BY <1>9, <2>2 DEF Dated
    <3>2. ats = {last[b], u.at}
      BY <2>2, <3>1
    <3>3. u.at >= last[b] /\ u.at \in Nat
      BY <1>7, <1>8, <1>11, <2>2
    <3>4. u.at \in ats /\ \A y \in ats : y <= u.at
      BY <2>0, <3>2, <3>3
    <3> HIDE DEF ats
    <3> QED BY <2>0, <2>1, <3>4, GreatestIs
  <2>3. ASSUME \A u \in T : u.source # b PROVE next[b] = last[b]
    <3>1. ats = {last[b]}
      BY <2>3
    <3>2. last[b] \in ats /\ \A y \in ats : y <= last[b]
      BY <2>0, <3>1
    <3> HIDE DEF ats
    <3> QED BY <2>0, <2>1, <3>2, GreatestIs
  <2>4. next[b] \in Nat
    <3>1. CASE \E u \in T : u.source = b
      BY <1>7, <1>8, <2>2, <3>1
    <3>2. CASE \A u \in T : u.source # b
      BY <2>0, <2>3, <3>2
    <3> QED BY <3>1, <3>2
  <2> QED BY <2>2, <2>3, <2>4
<1>13. next \in [Attachments -> Nat]
  BY <1>12
<1>14. \A i \in T : i.at = next[i.source]
  BY <1>7, <1>8, <1>12
<1>15. ASSUME NEW b \in Attachments, next[b] # 0, \A u \in T : u.source # b
       PROVE  Cardinality(Above(T, next[b])) >= ItemBudget
  <2>0. next[b] = last[b] /\ last[b] \in Nat /\ last[b] # 0
    BY <1>6, <1>12, <1>15
  <2>1. Cardinality(Above(U, last[b])) >= ItemBudget
    <3>1. CASE Cardinality(Above(S, last[b])) >= ItemBudget
      BY <1>0, <1>4, <1>7, <2>0, <3>1
    <3>2. ASSUME NEW i \in S, i.source = b
          PROVE  Cardinality(Above(U, last[b])) >= ItemBudget
      <4>1. PICK u \in U : u.source = b /\ u.at >= last[b]
        BY <1>3, <1>6, <3>2
      <4>2. Cardinality(Above(U, u.at)) >= ItemBudget
        <5>1. u \notin T
          BY <1>15, <4>1
        <5>2. Cardinality(Above(U, u.at)) \in Nat
          BY <1>7
        <5> QED BY <1>0, <1>8, <5>1, <5>2
      <4>3. Above(U, u.at) \in SUBSET Above(U, last[b])
        BY <1>7, <2>0, <4>1 DEF Above
      <4>4. Cardinality(Above(U, u.at)) <= Cardinality(Above(U, last[b]))
        BY <1>7, <2>0, <4>3, FS_Subset
      <4> QED BY <1>0, <1>7, <2>0, <4>2, <4>4
    <3> QED BY <2>0, <3>1, <3>2 DEF Kept
  <2> QED BY <1>0, <1>1, <1>2, <2>0, <2>1, NewestFull
<1> QED BY <1>9, <1>10, <1>13, <1>14, <1>15 DEF Kept

-----------------------------------------------------------------------------
(* The context of a task.                                                   *)

LEMMA SaidFinite ==
    ASSUME NEW S, IsFiniteSet(S) PROVE IsFiniteSet(Said(S))
<1> DEFINE f == [r \in S |-> [kind |-> "user", source |-> r.source, text |-> r.text,
                              at |-> r.at, stale |-> FALSE]]
<1>1. f \in Surjection(S, Said(S))
  BY DEF Surjection, Said
<1> HIDE DEF f
<1> QED BY <1>1, FS_Surjection

LEMMA SeenFinite ==
    ASSUME NEW S, IsFiniteSet(S), NEW kind, NEW rev PROVE IsFiniteSet(Seen(S, kind, rev))
<1> DEFINE f == [r \in S |-> [kind |-> kind, source |-> r.source, text |-> r.text,
                              at |-> r.at, stale |-> kind = "seen" /\ r.revision # rev]]
<1>1. f \in Surjection(S, Seen(S, kind, rev))
  BY DEF Surjection, Seen
<1> HIDE DEF f
<1> QED BY <1>1, FS_Surjection

LEMMA SaidIs ==
    ASSUME NEW S \in SUBSET Sayings, NEW r \in Said(S)
    PROVE  /\ r.kind = "user" /\ ~r.stale /\ r.at \in Nat /\ r.text \in Questions /\ r \in Candidates
           /\ \E s \in S : s.source = r.source /\ s.text = r.text /\ s.at = r.at
<1>1. PICK s \in S : r = [kind |-> "user", source |-> s.source, text |-> s.text, at |-> s.at,
                          stale |-> FALSE]
  BY DEF Said
<1>2. s.source \in Nat /\ s.text \in Questions /\ s.at \in Nat
  BY DEF Sayings
<1>3. r \in Candidates
  BY <1>1, <1>2 DEF Candidates
<1> QED BY <1>1, <1>2, <1>3

LEMMA SeenIs ==
    ASSUME NEW S \in SUBSET Observations, NEW kind \in {"seen", "current"}, NEW rev,
           NEW r \in Seen(S, kind, rev)
    PROVE  /\ r.kind = kind /\ r.at \in Nat /\ r.text \in Findings /\ r \in Candidates
           /\ \E i \in S : /\ i.source = r.source /\ i.text = r.text /\ i.at = r.at
                           /\ r = [kind |-> kind, source |-> i.source, text |-> i.text, at |-> i.at,
                                   stale |-> kind = "seen" /\ i.revision # rev]
                           /\ kind = "seen" /\ ~r.stale => i.revision = rev
<1>1. PICK i \in S : r = [kind |-> kind, source |-> i.source, text |-> i.text, at |-> i.at,
                          stale |-> kind = "seen" /\ i.revision # rev]
  BY DEF Seen
<1>2. i.source \in Attachments /\ i.text \in Findings /\ i.at \in Nat
  BY DEF Observations
<1>3. (kind = "seen" /\ i.revision # rev) \in BOOLEAN /\ i.source \in Nat
  BY <1>2, AttachmentAssumption DEF Attachments
<1>4. r \in Candidates
  BY <1>1, <1>2, <1>3 DEF Candidates
<1>5. kind = "seen" /\ ~r.stale => i.revision = rev
  BY <1>1
<1> QED BY <1>1, <1>2, <1>4, <1>5

\* The latest message survives the removal of what says the same, and is reserved.
LEMMA LatestIsSaid ==
    ASSUME NEW q \in Continuing, NEW S \in SUBSET Sayings, NEW rows \in SUBSET Observations,
           NEW rev, NEW s \in S, \A o \in S : o # s => o.at < s.at
    PROVE  \E r \in LatestSaid(q, Distinct(Said(S) \cup Seen(rows, "seen", rev))) :
              r.kind = "user" /\ r.text = s.text
<1> DEFINE all == Said(S) \cup Seen(rows, "seen", rev)
           x == [kind |-> "user", source |-> s.source, text |-> s.text, at |-> s.at, stale |-> FALSE]
           told == {r \in Distinct(all) : r.kind = "user"}
<1>1. x \in Said(S) /\ x \in all
  BY DEF Said
<1>2. /\ x.kind = "user" /\ x.text = s.text /\ x.at = s.at /\ x.stale = FALSE
      /\ s.at \in Nat /\ s.text \in Questions
  BY DEF Sayings
<1>3. \A o \in Said(S) : o # x => o.at < x.at /\ o.stale = FALSE /\ o.at \in Nat
  <2> TAKE o \in Said(S)
  <2> HAVE o # x
  <2>1. PICK p \in S : o = [kind |-> "user", source |-> p.source, text |-> p.text, at |-> p.at,
                            stale |-> FALSE]
    BY DEF Said
  <2>2. p # s
    BY <2>1
  <2>3. p.at \in Nat
    BY DEF Sayings
  <2> QED BY <1>2, <2>1, <2>2, <2>3
<1>4. \A o \in Seen(rows, "seen", rev) : o.kind = "seen" /\ o.text # x.text
  <2> TAKE o \in Seen(rows, "seen", rev)
  <2>1. o.kind = "seen" /\ o.text \in Findings
    BY SeenIs
  <2> QED BY <1>2, <2>1, ContextAssumption
<1> HIDE DEF x
<1>5. x \in Distinct(all)
  BY <1>1, <1>2, <1>3, <1>4 DEF Distinct
<1>6. x \in told /\ \A o \in told : o \in Said(S)
  BY <1>2, <1>4, <1>5 DEF Distinct
<1>7. \A T \in SUBSET told : {o \in T : o.at > x.at} = {}
  <2> TAKE T \in SUBSET told
  <2> SUFFICES ASSUME NEW o \in T, o.at > x.at PROVE FALSE
    OBVIOUS
  <2>1. o \in Said(S)
    BY <1>6
  <2>2. o # x => o.at < x.at /\ o.at \in Nat
    BY <1>3, <2>1
  <2> QED BY <1>2, <2>2
<1> HIDE DEF told
<1>8. x \in Newest(told, 2)
  <2>1. {o \in told : o.at > x.at} = {}
    BY <1>7
  <2>2. Cardinality({o \in told : o.at > x.at}) < 2
    BY <2>1, FS_EmptySet
  <2> QED BY <1>6, <2>2 DEF Newest
<1>9. x \in Recent(q, Distinct(all))
  BY <1>8 DEF Recent, told
<1>10. {r \in Recent(q, Distinct(all)) : r.kind = "user"} \in SUBSET told
  <2>1. \A r \in Recent(q, Distinct(all)) :
           \/ r \in Newest(told, 2)
           \/ r \in Newest({o \in Distinct(all) : o.kind = "seen" /\ ~o.stale}, 1)
    BY DEF Recent, told
  <2>2. \A T, n : \A r \in Newest(T, n) : r \in T
    BY DEF Newest
  <2>3. \A r \in Recent(q, Distinct(all)) : r.kind = "user" => r \in told
    BY <2>1, <2>2
  <2> QED BY <2>3
<1>11. x \in LatestSaid(q, Distinct(all))
  <2> DEFINE users == {r \in Recent(q, Distinct(all)) : r.kind = "user"}
  <2>1. x \in users /\ users \in SUBSET told
    BY <1>2, <1>9, <1>10
  <2>2. LatestSaid(q, Distinct(all)) = Newest(users, 1)
    BY DEF LatestSaid
  <2> HIDE DEF users
  <2>3. x \in Newest(users, 1)
    <3>1. {o \in users : o.at > x.at} = {}
      BY <1>7, <2>1
    <3>2. Cardinality({o \in users : o.at > x.at}) < 1
      <4>1. Cardinality({}) < 1
        BY FS_EmptySet
      <4> QED BY <3>1, <4>1, Zenon
    <3> QED BY <2>1, <3>2 DEF Newest
  <2> QED BY <2>2, <2>3
<1> QED BY <1>2, <1>11

LEMMA GovernedIs ==
    ASSUME NEW q, NEW S \in SUBSET Sayings, IsFiniteSet(S), NEW rows, Dated(rows),
           NEW records, Dated(records), \A i \in rows, o \in records : i.source # o.source,
           NEW rev, NEW told \in GovernedContexts(q, S, rows, records, rev)
    PROVE  /\ told \subseteq Candidates /\ Cardinality(told) <= MaxSelected
           /\ \A r \in told :
                 /\ r.kind = "user" => \E s \in S : s.source = r.source
                 /\ r.kind = "seen" => \E i \in rows : /\ i.source = r.source /\ i.at = r.at
                                                       /\ i.revision = rev
                 /\ r.kind = "current" => \E o \in records : o.source = r.source
           /\ \A r, o \in told : r.source = o.source /\ r.kind # "user" /\ o.kind # "user" => r = o
           /\ q \in Continuing => \A s \in S : (\A o \in S : o # s => o.at < s.at) =>
                 \E r \in told : r.kind = "user" /\ r.text = s.text
<1> DEFINE history == Distinct(Said(S) \cup Seen(rows, "seen", rev))
           current == Distinct(Seen(records, "current", rev))
<1>1. PICK C \in Currents(current) : \E H \in Histories(q, history, MaxSelected - Cardinality(C)) :
         told = C \cup H
  <2> DEFINE With(c) == {c \cup h : h \in Histories(q, history, MaxSelected - Cardinality(c))}
  <2>1. told \in UNION {With(c) : c \in Currents(current)}
    BY DEF GovernedContexts
  <2>2. PICK c \in Currents(current) : told \in With(c)
    <3> HIDE DEF With, current
    <3> QED BY <2>1
  <2> QED BY <2>2
<1>2. PICK H \in Histories(q, history, MaxSelected - Cardinality(C)) : told = C \cup H
  BY <1>1
<1>3. /\ rows \subseteq Observations /\ records \subseteq Observations
      /\ IsFiniteSet(rows) /\ IsFiniteSet(records)
  BY DatedFinite DEF Dated, Stamped
<1>4. C \in SUBSET Seen(records, "current", rev)
  BY DEF Currents, Distinct
<1>5. /\ H \subseteq Relevant(q, history) \cup Recent(q, history) /\ LatestSaid(q, history) \subseteq H
      /\ Cardinality(H) <= MaxSelected - Cardinality(C)
  BY DEF Histories
<1>6. /\ H \in SUBSET (Said(S) \cup Seen(rows, "seen", rev))
      /\ \A r \in H : r.kind = "seen" => ~r.stale
  <2>1. \A r \in Said(S) : r.kind = "user"
    BY SaidIs
  <2>2. \A r \in Relevant(q, history) : r \in history /\ ~r.stale
    BY DEF Relevant
  <2>3. \A r \in Recent(q, history) : r \in history /\ (r.kind = "user" \/ ~r.stale)
    BY DEF Recent, Newest
  <2>4. history \subseteq Said(S) \cup Seen(rows, "seen", rev)
    BY DEF Distinct
  <2> HIDE DEF history
  <2> QED BY <1>5, <2>2, <2>3, <2>4
<1>7. \A r \in C : /\ r.kind = "current" /\ r \in Candidates
                   /\ \E o \in records : /\ o.source = r.source
                                         /\ r = [kind |-> "current", source |-> o.source, text |-> o.text,
                                                 at |-> o.at, stale |-> FALSE]
  <2> TAKE r \in C
  <2>1. r \in Seen(records, "current", rev)
    BY <1>4
  <2>2. r.kind = "current" /\ r \in Candidates
    BY <1>3, <2>1, SeenIs
  <2>3. PICK i \in records : r = [kind |-> "current", source |-> i.source, text |-> i.text, at |-> i.at,
                                 stale |-> "current" = "seen" /\ i.revision # rev]
    BY <2>1 DEF Seen
  <2>4. ("current" = "seen" /\ i.revision # rev) = FALSE
    OBVIOUS
  <2> QED BY <2>2, <2>3, <2>4
<1>8. \A r \in H :
         \/ r.kind = "user" /\ r \in Candidates /\ \E s \in S : s.source = r.source
         \/ /\ r.kind = "seen" /\ r \in Candidates
            /\ \E i \in rows : /\ i.source = r.source /\ i.at = r.at /\ i.revision = rev
                               /\ r = [kind |-> "seen", source |-> i.source, text |-> i.text, at |-> i.at,
                                       stale |-> FALSE]
  <2> TAKE r \in H
  <2>1. CASE r \in Said(S)
    BY <2>1, SaidIs
  <2>2. CASE r \in Seen(rows, "seen", rev)
    BY <1>3, <1>6, <2>2, SeenIs
  <2> QED BY <1>6, <2>1, <2>2
<1>9. Cardinality(told) <= MaxSelected
  <2>1. IsFiniteSet(C) /\ IsFiniteSet(H)
    <3>1. IsFiniteSet(Said(S)) /\ IsFiniteSet(Seen(rows, "seen", rev))
          /\ IsFiniteSet(Seen(records, "current", rev))
      BY <1>3, SaidFinite, SeenFinite
    <3>2. IsFiniteSet(Said(S) \cup Seen(rows, "seen", rev))
      BY <3>1, FS_Union
    <3> QED BY <1>4, <1>6, <3>1, <3>2, FS_Subset
  <2>2. /\ Cardinality(C) \in Nat /\ Cardinality(H) \in Nat /\ Cardinality(C \cap H) \in Nat
        /\ Cardinality(C \cup H) = Cardinality(C) + Cardinality(H) - Cardinality(C \cap H)
    <3>1. IsFiniteSet(C \cap H)
      BY <2>1, FS_Intersection
    <3> QED BY <2>1, <3>1, FS_Union, FS_CardinalityType
  <2>3. MaxSelected \in Nat
    BY ContextAssumption
  <2> QED BY <1>2, <1>5, <2>2, <2>3
<1>10. \A r, o \in told : r.source = o.source /\ r.kind # "user" /\ o.kind # "user" => r = o
  <2> TAKE r, o \in told
  <2> HAVE r.source = o.source /\ r.kind # "user" /\ o.kind # "user"
  <2>1. CASE r \in C /\ o \in C
    <3>1. PICK i \in records : i.source = r.source /\ r = [kind |-> "current", source |-> i.source,
                               text |-> i.text, at |-> i.at, stale |-> FALSE]
      BY <1>7, <2>1
    <3>2. PICK j \in records : j.source = o.source /\ o = [kind |-> "current", source |-> j.source,
                               text |-> j.text, at |-> j.at, stale |-> FALSE]
      BY <1>7, <2>1
    <3>3. i = j
      BY <3>1, <3>2 DEF Dated
    <3> QED BY <3>1, <3>2, <3>3
  <2>2. CASE r \in H /\ o \in H
    <3>1. PICK i \in rows : i.source = r.source /\ r = [kind |-> "seen", source |-> i.source,
                               text |-> i.text, at |-> i.at, stale |-> FALSE]
      BY <1>8, <2>2
    <3>2. PICK j \in rows : j.source = o.source /\ o = [kind |-> "seen", source |-> j.source,
                               text |-> j.text, at |-> j.at, stale |-> FALSE]
      BY <1>8, <2>2
    <3>3. i = j
      BY <3>1, <3>2 DEF Dated
    <3> QED BY <3>1, <3>2, <3>3
  <2>3. CASE r \in C /\ o \in H
    BY <1>7, <1>8, <2>3
  <2>4. CASE r \in H /\ o \in C
    BY <1>7, <1>8, <2>4
  <2> QED BY <1>2, <2>1, <2>2, <2>3, <2>4
<1>11. ASSUME q \in Continuing, NEW s \in S, \A o \in S : o # s => o.at < s.at
       PROVE  \E r \in told : r.kind = "user" /\ r.text = s.text
  <2>1. \E r \in LatestSaid(q, history) : r.kind = "user" /\ r.text = s.text
    BY <1>3, <1>11, LatestIsSaid
  <2> QED BY <1>2, <1>5, <2>1
<1>12. told \subseteq Candidates
  BY <1>2, <1>7, <1>8
<1>13. \A r \in told :
          /\ r.kind = "user" => \E s \in S : s.source = r.source
          /\ r.kind = "seen" => \E i \in rows : i.source = r.source /\ i.at = r.at /\ i.revision = rev
          /\ r.kind = "current" => \E o \in records : o.source = r.source
  <2> TAKE r \in told
  <2>1. CASE r \in C
    BY <1>7, <2>1
  <2>2. CASE r \in H
    BY <1>8, <2>2
  <2> QED BY <1>2, <2>1, <2>2
<1> HIDE DEF history, current
<1> QED BY <1>9, <1>10, <1>11, <1>12, <1>13

-----------------------------------------------------------------------------
(* Steps of the conversation.                                               *)

\* What a worker does to its own task leaves what is known of the others' contexts.
LEMMA ContextStays ==
    ASSUME TalkTypes, NEW v \in Workers, ContextOf(v), task'[v] = task[v],
           InCharge(v)' => InCharge(v),
           \/ messages' = messages
           \/ ~InCharge(v)' /\ \E x : messages' = Append(messages, x)
    PROVE  ContextOf(v)'
<1>0. task[v] \in Tasks /\ task[v].number \in Nat /\ Len(messages) \in Nat
  <2>1. task[v] \in Tasks /\ messages \in Seq([text : Questions, names : SUBSET Attachments])
    BY DEF TalkTypes
  <2> QED BY <2>1, LenProperties DEF Tasks
<1>1. CASE messages' = messages
  <2>1. Earlier' = Earlier /\ (Grounded(v) <=> Grounded(v)')
    BY <1>1 DEF Earlier, Grounded
  <2> QED BY <1>1, <2>1 DEF ContextOf
<1>2. ASSUME ~InCharge(v)', NEW x, messages' = Append(messages, x)
      PROVE  ContextOf(v)'
  <2>1. /\ Len(messages') = Len(messages) + 1
        /\ \A n \in 1 .. Len(messages) : messages'[n] = messages[n]
    BY <1>2 DEF TalkTypes
  <2>2. ASSUME task[v].at \in {"run", "remember"}
        PROVE  task'[v].number <= Len(messages') /\ Grounded(v)'
    <3>1. task[v].number <= Len(messages) /\ Grounded(v)
      BY <2>2 DEF ContextOf
    <3>2. task[v].number > 1 => messages'[task[v].number - 1] = messages[task[v].number - 1]
      BY <1>0, <2>1, <3>1
    <3>3. Grounded(v)'
      BY <3>1, <3>2 DEF Grounded
    <3> QED BY <1>0, <2>1, <3>1, <3>3
  <2> QED BY <1>2, <2>2 DEF ContextOf
<1> QED BY <1>1, <1>2

\* A step of the task of w.
LEMMA TaskStepInv ==
    ASSUME TalkInv, FileInv', UNCHANGED <<scenario, messages, revision>>,
           NEW w \in Workers, NEW t \in Tasks, task' = [task EXCEPT ![w] = t],
           t.at # "idle" => t.text \in Questions, Dated(t.records),
           Kept(items', latest'), perceived' \in Nat,
           turn' \in Turns, turn' # NoTurn => turn # NoTurn, Dated(turn'.records),
           \A v \in Workers \ {w} : turn'.owner = v => turn.owner = v,
           ContextOf(w)'
    PROVE  TalkInv'
<1>0. /\ task \in [Workers -> Tasks] /\ task' \in [Workers -> Tasks]
      /\ \A v \in Workers : task'[v] = IF v = w THEN t ELSE task[v]
  BY DEF TalkInv, TalkTypes
<1>1. TalkTypes'
  BY <1>0 DEF TalkInv, TalkTypes
<1>2. ItemInv'
  <2>1. \A v \in Workers : Dated(task'[v].records)
    BY <1>0 DEF TalkInv, ItemInv
  <2> QED BY <2>1 DEF ItemInv, Kept, Dated, Perception, Above
<1>3. ContextInv'
  <2>1. ASSUME NEW v \in Workers, v # w PROVE ContextOf(v)'
    <3>1. task'[v] = task[v] /\ (InCharge(v)' => InCharge(v)) /\ ContextOf(v)
      BY <1>0, <2>1 DEF TalkInv, ContextInv, InCharge
    <3> QED BY <3>1, ContextStays DEF TalkInv
  <2> QED BY <2>1 DEF ContextInv
<1> QED BY <1>1, <1>2, <1>3 DEF TalkInv, FileInv

LEMMA TalkIs ==
    ASSUME TalkInv, NEW w \in Workers
    PROVE  /\ FileInv /\ TalkTypes /\ Kept(items, latest) /\ Dated(turn.records) /\ turn \in Turns
           /\ perceived \in Nat /\ task[w] \in Tasks /\ Dated(task[w].records) /\ ContextOf(w)
           /\ task[w].at # "idle" => task[w].text \in Questions
BY DEF TalkInv, FileInv, TalkTypes, ItemInv, ContextInv

LEMMA NothingIsDated == Dated({})
BY DEF Dated

LEMMA IdleTask == /\ NoTask \in Tasks /\ NoTask.at = "idle" /\ NoTask.records = {}
                  /\ NoTurn \in Turns /\ NoTurn.records = {}
BY DEF NoTask, Tasks, NoTurn, Turns

\* w's task ends; the run may end with it.
LEMMA EndsInv ==
    ASSUME TalkInv, NEW w \in Workers, FileInv', Ends(w), turn' \in {turn, NoTurn},
           UNCHANGED <<scenario, messages, items, revision, latest>>, perceived' \in Nat
    PROVE  TalkInv'
<1>0. /\ FileInv /\ TalkTypes /\ Kept(items, latest) /\ Dated(turn.records) /\ turn \in Turns
  BY TalkIs
<1>1. task' = [task EXCEPT ![w] = NoTask] /\ task'[w] = NoTask
  BY <1>0 DEF Ends, TalkTypes
<1>2. ContextOf(w)'
  BY <1>1, IdleTask DEF ContextOf
<1>3. Kept(items', latest') /\ Dated(turn'.records) /\ turn' \in Turns
  BY <1>0, IdleTask, NothingIsDated
<1>4. \A v \in Workers \ {w} : turn'.owner = v => turn.owner = v
  BY ConversationAssumption DEF NoTurn
<1> QED BY <1>1, <1>2, <1>3, <1>4, IdleTask, NothingIsDated, TaskStepInv

LEMMA ResolveInv ==
    ASSUME TalkInv, NEW w \in Workers, Resolve(w) PROVE TalkInv'
<1>0. /\ FileInv /\ TalkTypes /\ Kept(items, latest) /\ Dated(turn.records) /\ turn \in Turns
      /\ perceived \in Nat
  BY TalkIs
<1>1. /\ UNCHANGED <<fileVars, referenced, scenario, messages, items, revision, turn,
                     perceived, latest, late>>
  BY DEF Resolve
<1>2. PICK q \in Questions, names \in SUBSET Attachments :
         task' = [task EXCEPT ![w] = [NoTask EXCEPT !.at = "accept", !.text = q,
                                              !.names = names, !.revision = revision]]
  <2>1. scenario.questions \subseteq Questions /\ known \subseteq Attachments
    BY <1>0, ConversationAssumption DEF TalkTypes, FileInv, FileTypes
  <2> QED BY <2>1 DEF Resolve
<1> DEFINE t == [NoTask EXCEPT !.at = "accept", !.text = q, !.names = names, !.revision = revision]
<1>3. t \in Tasks /\ t.at = "accept" /\ t.text = q /\ t.records = {}
  <2>1. revision \in Nat
    BY <1>0 DEF TalkTypes
  <2> QED BY <2>1, IdleTask DEF Tasks
<1>4. task' = [task EXCEPT ![w] = t]
  BY <1>2
<1> HIDE DEF t
<1>5. ContextOf(w)'
  <2>1. task'[w] = t
    BY <1>0, <1>4 DEF TalkTypes
  <2> QED BY <1>3, <2>1 DEF ContextOf
<1>6. FileInv'
  BY <1>0, <1>1, FilesUntouched
<1> QED BY <1>0, <1>1, <1>3, <1>4, <1>5, <1>6, NothingIsDated, TaskStepInv

\* The message and its run: nobody is in charge until then.
LEMMA AcceptInv ==
    ASSUME TalkInv, NEW w \in Workers, Accept(w) PROVE TalkInv'
<1>0. /\ FileInv /\ TalkTypes /\ Kept(items, latest) /\ Dated(turn.records) /\ turn \in Turns
      /\ perceived \in Nat /\ task[w] \in Tasks /\ task[w].text \in Questions
      /\ Dated(task[w].records)
  BY TalkIs DEF Accept, At
<1>1. UNCHANGED <<fileVars, scenario, items, revision, perceived, latest>>
  BY DEF Accept
<1>2. CASE turn # NoTurn /\ Ends(w) /\ UNCHANGED <<messages, turn, referenced, late>>
  <2>1. FileInv'
    BY <1>0, <1>1, <1>2, FilesUntouched
  <2> QED BY <1>0, <1>1, <1>2, <2>1, EndsInv
<1>3. CASE /\ turn = NoTurn
           /\ messages' = Append(messages, [text |-> task[w].text, names |-> task[w].names])
           /\ turn' = [NoTurn EXCEPT !.owner = w, !.revision = task[w].revision]
           /\ referenced' = referenced \cup task[w].names
           /\ late' = late \cup {b \in task[w].names : Doomed(b)}
           /\ task' = [task EXCEPT ![w].at = "pool", ![w].number = Len(messages')]
  <2>1. FileInv'
    <3>1. task[w].names \in SUBSET Attachments
      BY <1>0 DEF Tasks
    <3> QED BY <1>0, <1>1, <1>3, <3>1, NamesInv
  <2>2. /\ messages' \in Seq([text : Questions, names : SUBSET Attachments]) /\ messages' # <<>>
        /\ Len(messages') \in Nat
    <3>1. [text |-> task[w].text, names |-> task[w].names] \in [text : Questions, names : SUBSET Attachments]
      BY <1>0 DEF Tasks
    <3> QED BY <1>0, <1>3, <3>1 DEF TalkTypes
  <2>3. turn' \in Turns /\ turn'.owner = w /\ turn'.records = {}
    <3>1. task[w].revision \in Nat
      BY <1>0 DEF Tasks
    <3> QED BY <1>3, <3>1, IdleTask DEF Turns, NoTurn
  <2> DEFINE t == [task[w] EXCEPT !.at = "pool", !.number = Len(messages')]
  <2>4. /\ t \in Tasks /\ t.at = "pool" /\ t.number = Len(messages') /\ t.text = task[w].text
        /\ t.records = task[w].records
    BY <1>0, <2>2 DEF Tasks
  <2>5. /\ task' \in [Workers -> Tasks]
        /\ \A v \in Workers : task'[v] = IF v = w THEN t ELSE task[v]
    <3>1. task' = [task EXCEPT ![w] = t]
      BY <1>0, <1>3 DEF TalkTypes
    <3> HIDE DEF t
    <3> QED BY <1>0, <2>4, <3>1 DEF TalkTypes
  <2> HIDE DEF t
  <2>6. TalkTypes'
    BY <1>0, <1>1, <2>2, <2>3, <2>4, <2>5 DEF TalkTypes
  <2>7. ItemInv'
    <3>1. \A v \in Workers : Dated(task'[v].records)
      BY <2>4, <2>5 DEF TalkInv, ItemInv
    <3>2. Kept(items', latest') /\ Dated(turn'.records)
      BY <1>0, <1>1, <2>3, NothingIsDated
    <3> QED BY <3>1, <3>2 DEF ItemInv, Kept, Dated, Perception, Above
  <2>8. ContextInv'
    <3>1. ContextOf(w)'
      BY <2>4, <2>5 DEF ContextOf
    <3>2. ASSUME NEW v \in Workers, v # w PROVE ContextOf(v)'
      <4>1. task'[v] = task[v] /\ ~InCharge(v)' /\ ContextOf(v)
        BY <2>3, <2>5, <3>2 DEF TalkInv, ContextInv, InCharge
      <4>2. \E x : messages' = Append(messages, x)
        BY <1>3
      <4> QED BY <1>0, <4>1, <4>2, ContextStays
    <3> QED BY <3>1, <3>2 DEF ContextInv
  <2> QED BY <2>1, <2>6, <2>7, <2>8 DEF TalkInv, FileInv
<1> QED BY <1>2, <1>3 DEF Accept

\* The store returns messages of the conversation.
LEMMA EarlierIs ==
    ASSUME TalkTypes
    PROVE  /\ Earlier \in SUBSET Sayings /\ IsFiniteSet(Earlier)
           /\ \A s \in Earlier : s.source \in 1 .. Len(messages) - 1 /\ s.at = s.source
                                 /\ s.text = messages[s.source].text
           /\ \A n \in 1 .. Len(messages) - 1 : \E s \in Earlier : s.source = n
<1>1. /\ Len(messages) \in Nat
      /\ \A n \in 1 .. Len(messages) - 1 : n \in Nat /\ messages[n].text \in Questions
  <2>1. /\ Len(messages) \in Nat
        /\ \A n \in 1 .. Len(messages) : messages[n] \in [text : Questions, names : SUBSET Attachments]
    <3>1. messages \in Seq([text : Questions, names : SUBSET Attachments])
      BY DEF TalkTypes
    <3> QED BY <3>1, LenProperties, ElementOfSeq
  <2> QED BY <2>1
<1> DEFINE Line(n) == [source |-> n, text |-> messages[n].text, at |-> n]
           f == [n \in 1 .. Len(messages) - 1 |-> Line(n)]
<1>2. Earlier = {Line(n) : n \in 1 .. Len(messages) - 1}
  BY DEF Earlier
<1>3. \A n \in 1 .. Len(messages) - 1 : Line(n) \in Sayings /\ Line(n).source = n /\ Line(n).at = n
                                        /\ Line(n).text = messages[n].text
  BY <1>1 DEF Sayings
<1>4. f \in Surjection(1 .. Len(messages) - 1, Earlier)
  BY <1>2 DEF Surjection
<1>5. IsFiniteSet(Earlier)
  <2> HIDE DEF f
  <2>1. IsFiniteSet(1 .. Len(messages) - 1)
    BY <1>1, FS_Interval
  <2> QED BY <1>4, <2>1, FS_Surjection
<1> HIDE DEF Line
<1> QED BY <1>2, <1>3, <1>5

\* With a row of its own for every other message, the store's pool holds the last.
LEMMA RememberedIs ==
    ASSUME TalkTypes, NEW q
    PROVE  /\ Remembered(q, Earlier) \in SUBSET Earlier
           /\ Len(messages) > 1 =>
                 \E s \in Remembered(q, Earlier) :
                    /\ s.text = messages[Len(messages) - 1].text
                    /\ \A o \in Remembered(q, Earlier) : o # s => o.at < s.at
<1>1. Remembered(q, Earlier) \in SUBSET Earlier
  BY DEF Remembered, Newest, First
<1>2. ASSUME Len(messages) > 1
      PROVE  \E s \in Remembered(q, Earlier) :
                /\ s.text = messages[Len(messages) - 1].text
                /\ \A o \in Remembered(q, Earlier) : o # s => o.at < s.at
  <2>0. Len(messages) \in Nat /\ Len(messages) - 1 \in 1 .. Len(messages) - 1
    BY <1>2 DEF TalkTypes
  <2>1. PICK s \in Earlier : s.source = Len(messages) - 1
    BY <2>0, EarlierIs
  <2>2. s.at = Len(messages) - 1 /\ s.text = messages[Len(messages) - 1].text
    BY <2>1, EarlierIs
  <2>3. \A o \in Earlier : o # s => o.at < s.at
    <3> TAKE o \in Earlier
    <3> HAVE o # s
    <3>1. /\ o.source \in 1 .. Len(messages) - 1 /\ o.at = o.source
          /\ o = [source |-> o.source, text |-> messages[o.source].text, at |-> o.source]
          /\ s = [source |-> s.source, text |-> messages[s.source].text, at |-> s.source]
      BY EarlierIs DEF Earlier
    <3>2. o.source # s.source
      BY <3>1
    <3> QED BY <2>0, <2>1, <2>2, <3>1, <3>2
  <2>4. {o \in Earlier : o.at > s.at} = {}
    <3> SUFFICES ASSUME NEW o \in Earlier, o.at > s.at PROVE FALSE
      OBVIOUS
    <3>1. o.at \in Nat /\ s.at \in Nat
      BY EarlierIs
    <3> QED BY <2>3, <3>1
  <2>5. Cardinality({o \in Earlier : o.at > s.at}) < RecentLimit
    <3>1. Cardinality({o \in Earlier : o.at > s.at}) = 0
      <4>1. Cardinality({}) = 0
        BY FS_EmptySet
      <4> QED BY <2>4, <4>1, Zenon
    <3>2. RecentLimit \in Nat \ {0}
      BY ContextAssumption
    <3> QED BY <3>1, <3>2
  <2>6. s \in Remembered(q, Earlier)
    BY <2>5 DEF Remembered, Newest
  <2> QED BY <1>1, <2>2, <2>3, <2>6
<1> QED BY <1>1, <1>2

LEMMA PoolInv ==
    ASSUME TalkInv, NEW w \in Workers, Pool(w) PROVE TalkInv'
<1>0. /\ FileInv /\ TalkTypes /\ Kept(items, latest) /\ Dated(turn.records) /\ turn \in Turns
      /\ perceived \in Nat /\ task[w] \in Tasks /\ task[w].text \in Questions
      /\ Dated(task[w].records) /\ ContextOf(w) /\ task[w].at = "pool"
  BY TalkIs DEF Pool, At
<1>1. UNCHANGED <<fileVars, referenced, scenario, messages, items, revision, turn,
                  perceived, latest, late>>
  BY DEF Pool
<1> DEFINE said == Remembered(task[w].text, Earlier)
           rows == Observed(task[w].text, items)
           t == [task[w] EXCEPT !.at = "perceive", !.said = said, !.items = rows]
<1>2. said \in SUBSET Sayings
  BY <1>0, RememberedIs, EarlierIs
<1>3. rows \in SUBSET items /\ Dated(rows) /\ rows \in SUBSET Observations
  <2>1. rows \in SUBSET items
    BY DEF Observed, Newest
  <2>2. Dated(rows)
    BY <1>0, <2>1, DatedSubset DEF Kept
  <2> QED BY <2>1, <2>2 DEF Dated
<1>4. task' = [task EXCEPT ![w] = t]
  BY <1>0 DEF Pool, TalkTypes
<1> HIDE DEF said, rows
<1>5. /\ t \in Tasks /\ t.at = "perceive" /\ t.text = task[w].text /\ t.records = task[w].records
      /\ t.said = said /\ t.items = rows /\ t.number = task[w].number
  BY <1>0, <1>2, <1>3 DEF Tasks
<1> HIDE DEF t
<1>6. ContextOf(w)'
  <2>1. task'[w] = t
    BY <1>0, <1>4 DEF TalkTypes
  <2>2. Earlier' = Earlier
    BY <1>1 DEF Earlier
  <2>3. InCharge(w)' => t.number = Len(messages')
    BY <1>0, <1>1, <1>5 DEF ContextOf, InCharge
  <2>4. t.said = Remembered(t.text, Earlier')
    BY <1>5, <2>2 DEF said
  <2>5. Dated(t.items)
    BY <1>3, <1>5
  <2> QED BY <1>5, <2>1, <2>2, <2>3, <2>4, <2>5 DEF ContextOf, Dated, Perception
<1>7. FileInv'
  BY <1>0, <1>1, FilesUntouched
<1> QED BY <1>0, <1>1, <1>4, <1>5, <1>6, <1>7, TaskStepInv

LEMMA PerceiveInv ==
    ASSUME TalkInv, NEW w \in Workers, Perceive(w) PROVE TalkInv'
<1> DEFINE own == {b \in task[w].names : Whole(b)}
<1>0. /\ FileInv /\ TalkTypes /\ Kept(items, latest) /\ Dated(turn.records) /\ turn \in Turns
      /\ perceived \in Nat /\ task[w] \in Tasks /\ task[w].text \in Questions
      /\ Dated(task[w].records) /\ ContextOf(w) /\ task[w].at = "perceive" /\ own \in SUBSET Attachments
      /\ scenario.findings \subseteq Findings
  <2>1. task[w].at = "perceive"
    BY DEF Perceive, At
  <2>2. task[w] \in Tasks /\ scenario \in Scenarios
    BY TalkIs DEF TalkTypes
  <2> QED BY <2>1, <2>2, TalkIs, ConversationAssumption DEF Tasks
<1>1. /\ UNCHANGED <<fileVars, referenced, scenario, messages, items, revision, latest, late>>
      /\ perceived' = perceived + 1
  BY DEF Perceive
<1>2. FileInv'
  BY <1>0, <1>1, FilesUntouched
<1> DEFINE Perceived(S, f) == {[source |-> b, text |-> f[b], revision |-> task[w].revision,
                           at |-> (perceived + 1) * MaxAttachments + b] : b \in S}
           Effect(rows, context) ==
              \/ /\ InCharge(w)
                 /\ turn' = [turn EXCEPT !.records = rows]
                 /\ task' = [task EXCEPT ![w].at = "run", ![w].records = rows, ![w].context = context]
              \/ /\ ~InCharge(w) /\ Ends(w) /\ UNCHANGED turn
<1>3. PICK ready \in SUBSET own : \E finding \in [ready -> scenario.findings] :
         \E context \in GovernedContexts(task[w].text, task[w].said, Recalled(w, own),
                                         Perceived(ready, finding), task[w].revision) :
            Effect(Perceived(ready, finding), context)
  BY DEF Perceive
<1>4. PICK finding \in [ready -> scenario.findings] :
         \E context \in GovernedContexts(task[w].text, task[w].said, Recalled(w, own),
                                         Perceived(ready, finding), task[w].revision) :
            Effect(Perceived(ready, finding), context)
  BY <1>3
<1> DEFINE records == Perceived(ready, finding)
<1>8. PICK context \in GovernedContexts(task[w].text, task[w].said, Recalled(w, own), records,
                                        task[w].revision) : Effect(records, context)
  BY <1>4
<1>5. /\ Dated(records) /\ \A r \in records : r.source \in own
  <2>1. ASSUME NEW b \in ready
        PROVE  /\ b \in own /\ b \in Attachments /\ finding[b] \in Findings /\ task[w].revision \in Nat
               /\ (perceived + 1) * MaxAttachments + b \in Nat
    <3>1. b \in Attachments /\ b \in Nat /\ MaxAttachments \in Nat
      BY <1>0, AttachmentAssumption DEF Attachments
    <3>2. (perceived + 1) * MaxAttachments \in Nat
      BY <1>0, <3>1
    <3>3. b \in own /\ finding[b] \in scenario.findings
      BY <2>1
    <3>4. task[w].revision \in Nat
      BY <1>0 DEF Tasks
    <3>5. (perceived + 1) * MaxAttachments + b \in Nat
      BY <3>1, <3>2
    <3> HIDE DEF own
    <3> QED BY <1>0, <3>1, <3>3, <3>4, <3>5
  <2>2. records \subseteq Observations
    BY <2>1 DEF Observations
  <2>3. \A r \in records : Perception(r)
    BY <1>0 DEF Perception
  <2>4. \A r, o \in records : r.source = o.source => r = o
    OBVIOUS
  <2> QED BY <2>1, <2>2, <2>3, <2>4 DEF Dated
<1>6. CASE ~InCharge(w) /\ Ends(w) /\ UNCHANGED turn
  <2>1. perceived' \in Nat
    BY <1>0, <1>1
  <2> QED BY <1>1, <1>2, <1>6, <2>1, EndsInv
<1>7. CASE /\ InCharge(w)
           /\ turn' = [turn EXCEPT !.records = records]
           /\ task' = [task EXCEPT ![w].at = "run", ![w].records = records, ![w].context = context]
  <2> DEFINE rows == Recalled(w, own)
             t == [task[w] EXCEPT !.at = "run", !.records = records, !.context = context]
  <2>1. Dated(rows) /\ rows \subseteq task[w].items /\ \A i \in rows : i.source \notin own
    <3>1. Dated(task[w].items)
      BY <1>0 DEF ContextOf
    <3>2. rows \in SUBSET task[w].items /\ \A i \in rows : i.source \notin own
      BY DEF Recalled
    <3> HIDE DEF rows
    <3> QED BY <3>1, <3>2, DatedSubset
  <2>2. /\ task[w].said \in SUBSET Earlier /\ task[w].said \in SUBSET Sayings /\ IsFiniteSet(task[w].said)
        /\ task[w].number = Len(messages) /\ Len(messages) \in Nat
        /\ Len(messages) > 1 =>
              \E s \in task[w].said : /\ s.text = messages[Len(messages) - 1].text
                                      /\ \A o \in task[w].said : o # s => o.at < s.at
    <3>1. task[w].said = Remembered(task[w].text, Earlier) /\ task[w].number = Len(messages)
      BY <1>0, <1>7 DEF ContextOf
    <3>2. messages \in Seq([text : Questions, names : SUBSET Attachments])
      BY <1>0 DEF TalkTypes
    <3> QED BY <1>0, <3>1, <3>2, RememberedIs, EarlierIs, FS_Subset, LenProperties
  <2> HIDE DEF rows, own, records
  <2>3. \A i \in rows, o \in records : i.source # o.source
    BY <1>5, <2>1
  <2>4. context \in GovernedContexts(task[w].text, task[w].said, rows, records, task[w].revision)
    BY DEF rows
  <2>5. /\ context \subseteq Candidates /\ Cardinality(context) <= MaxSelected
        /\ \A r \in context :
              /\ r.kind = "user" => \E s \in task[w].said : s.source = r.source
              /\ r.kind = "seen" => \E i \in rows : /\ i.source = r.source /\ i.at = r.at
                                                    /\ i.revision = task[w].revision
              /\ r.kind = "current" => \E o \in records : o.source = r.source
        /\ \A r, o \in context : r.source = o.source /\ r.kind # "user" /\ o.kind # "user" => r = o
        /\ task[w].text \in Continuing => \A s \in task[w].said :
              (\A o \in task[w].said : o # s => o.at < s.at) =>
                 \E r \in context : r.kind = "user" /\ r.text = s.text
    BY <1>5, <2>1, <2>2, <2>3, <2>4, GovernedIs
  <2>6. /\ t \in Tasks /\ t.at = "run" /\ t.number = task[w].number /\ t.text = task[w].text
        /\ t.names = task[w].names /\ t.items = task[w].items /\ t.revision = task[w].revision
        /\ t.records = records /\ t.context = context
    <3>1. records \in SUBSET Observations /\ context \in SUBSET Candidates
      BY <1>5, <2>5 DEF Dated
    <3> QED BY <1>0, <3>1 DEF Tasks
  <2>7. task' = [task EXCEPT ![w] = t] /\ task'[w] = t
    BY <1>0, <1>7 DEF TalkTypes
  <2> HIDE DEF t
  <2>8. Grounded(w)'
    <3>1. Cardinality(t.context) <= MaxSelected
      BY <2>5, <2>6
    <3>2. ASSUME NEW r \in t.context
          PROVE  CASE r.kind = "user" -> r.source < t.number
                   [] r.kind = "seen" -> \E i \in t.items : /\ i.source = r.source /\ i.at = r.at
                                                           /\ i.revision = t.revision
                   [] OTHER -> r.source \in t.names
      <4>1. r.kind \in {"user", "seen", "current"} /\ r \in context
        BY <2>5, <2>6, <3>2 DEF Candidates
      <4>2. CASE r.kind = "user"
        <5>1. PICK s \in task[w].said : s.source = r.source
          BY <2>5, <4>1, <4>2
        <5>2. s.source \in 1 .. Len(messages) - 1
          BY <1>0, <2>2, EarlierIs
        <5>3. r.source < t.number
          BY <2>2, <2>6, <5>1, <5>2
        <5> QED BY <4>2, <5>3
      <4>3. CASE r.kind = "seen"
        <5>1. \E i \in t.items : i.source = r.source /\ i.at = r.at /\ i.revision = t.revision
          BY <2>1, <2>5, <2>6, <4>1, <4>3
        <5> QED BY <4>3, <5>1
      <4>4. CASE r.kind = "current"
        <5>1. r.source \in t.names
          BY <1>5, <2>5, <2>6, <4>1, <4>4 DEF own
        <5> QED BY <4>4, <5>1
      <4> QED BY <4>1, <4>2, <4>3, <4>4
    <3>3. \A r, o \in t.context : r.source = o.source /\ "user" \notin {r.kind, o.kind} => r = o
      BY <2>5, <2>6
    <3>4. t.text \in Continuing /\ t.number > 1 =>
             \E r \in t.context : r.kind = "user" /\ r.text = messages'[t.number - 1].text
      BY <1>1, <2>2, <2>5, <2>6
    <3> HIDE DEF Candidates
    <3> QED BY <2>7, <3>1, <3>2, <3>3, <3>4 DEF Grounded
  <2>9. ContextOf(w)'
    <3>1. t.number <= Len(messages')
      BY <1>1, <2>2, <2>6
    <3> QED BY <2>6, <2>7, <2>8, <3>1 DEF ContextOf
  <2>10. /\ turn' \in Turns /\ turn'.owner = turn.owner /\ turn'.records = records /\ turn # NoTurn
    <3>1. records \in SUBSET Observations
      BY <1>5 DEF Dated
    <3>2. turn # NoTurn
      BY <1>7, ConversationAssumption DEF InCharge, NoTurn
    <3> QED BY <1>0, <1>7, <3>1, <3>2 DEF Turns
  <2>11. perceived' \in Nat /\ Kept(items', latest') /\ Dated(t.records) /\ Dated(turn'.records)
    BY <1>0, <1>1, <1>5, <2>6, <2>10
  <2> QED BY <1>0, <1>1, <1>2, <2>6, <2>7, <2>9, <2>10, <2>11, TaskStepInv
<1> QED BY <1>6, <1>7, <1>8

LEMMA RunInv ==
    ASSUME TalkInv, NEW w \in Workers, Run(w) PROVE TalkInv'
<1>0. /\ FileInv /\ TalkTypes /\ Kept(items, latest) /\ Dated(turn.records) /\ turn \in Turns
      /\ perceived \in Nat /\ task[w] \in Tasks /\ task[w].text \in Questions
      /\ Dated(task[w].records) /\ ContextOf(w) /\ task[w].at = "run"
  BY TalkIs DEF Run, At
<1>1. UNCHANGED <<fileVars, referenced, scenario, messages, items, revision, perceived, latest, late>>
  BY DEF Run
<1>2. FileInv'
  BY <1>0, <1>1, FilesUntouched
<1>3. CASE ~InCharge(w) /\ Ends(w) /\ UNCHANGED turn
  BY <1>0, <1>1, <1>2, <1>3, EndsInv
<1>4. CASE InCharge(w) /\ turn' = [turn EXCEPT !.final = TRUE] /\ Goto(w, "remember")
  <2> DEFINE t == [task[w] EXCEPT !.at = "remember"]
  <2>1. t \in Tasks /\ t.at = "remember" /\ t.text = task[w].text /\ t.records = task[w].records
        /\ t.number = task[w].number
        /\ t.context = task[w].context /\ t.items = task[w].items /\ t.names = task[w].names
        /\ t.revision = task[w].revision
    BY <1>0 DEF Tasks
  <2>2. task' = [task EXCEPT ![w] = t] /\ task'[w] = t
    BY <1>0, <1>4 DEF Goto, TalkTypes
  <2> HIDE DEF t
  <2>3. ContextOf(w)'
    <3>1. task[w].number <= Len(messages) /\ Grounded(w)
      BY <1>0 DEF ContextOf
    <3>2. Grounded(w)'
      BY <1>1, <2>1, <2>2, <3>1 DEF Grounded
    <3> QED BY <1>1, <2>1, <2>2, <3>1, <3>2 DEF ContextOf
  <2>4. /\ turn' \in Turns /\ turn'.owner = turn.owner /\ turn'.records = turn.records /\ turn # NoTurn
    <3>1. turn # NoTurn
      BY <1>4, ConversationAssumption DEF InCharge, NoTurn
    <3> QED BY <1>0, <1>4, <3>1 DEF Turns
  <2> QED BY <1>0, <1>1, <1>2, <2>1, <2>2, <2>3, <2>4, TaskStepInv
<1> QED BY <1>3, <1>4 DEF Run

LEMMA KeepInv ==
    ASSUME TalkInv, NEW w \in Workers, Keep(w) PROVE TalkInv'
<1>0. /\ FileInv /\ TalkTypes /\ Kept(items, latest) /\ Dated(turn.records) /\ turn \in Turns
      /\ perceived \in Nat /\ task[w] \in Tasks /\ task[w].text \in Questions
      /\ Dated(task[w].records)
  BY TalkIs DEF Keep, At
<1>1. /\ UNCHANGED <<fileVars, referenced, scenario, messages, revision, turn, perceived, late>>
      /\ items' = Remember(items, task[w].records)
      /\ latest' = [b \in Attachments |->
                      Max({latest[b]} \cup {r.at : r \in {i \in items' : i.source = b}})]
      /\ Goto(w, "publish")
  BY DEF Keep
<1>2. FileInv'
  BY <1>0, <1>1, FilesUntouched
<1>3. Kept(items', latest')
  BY <1>0, <1>1, RememberKeeps
<1> DEFINE t == [task[w] EXCEPT !.at = "publish"]
<1>4. t \in Tasks /\ t.at = "publish" /\ t.text = task[w].text /\ t.records = task[w].records
  BY <1>0 DEF Tasks
<1>5. task' = [task EXCEPT ![w] = t] /\ task'[w] = t
  BY <1>0, <1>1 DEF Goto, TalkTypes
<1> HIDE DEF t
<1>6. ContextOf(w)'
  BY <1>4, <1>5 DEF ContextOf
<1> QED BY <1>0, <1>1, <1>2, <1>3, <1>4, <1>5, <1>6, TaskStepInv

LEMMA RecoverInv ==
    ASSUME TalkInv, NEW w \in Workers, Recover(w) PROVE TalkInv'
<1>0. /\ FileInv /\ TalkTypes /\ Kept(items, latest) /\ Dated(turn.records) /\ turn \in Turns
      /\ perceived \in Nat /\ task[w] \in Tasks /\ Dated(task[w].records) /\ ContextOf(w)
      /\ task[w].at = "idle" /\ turn # NoTurn
  BY TalkIs DEF Recover, At
<1>1. UNCHANGED <<fileVars, referenced, scenario, messages, items, revision, perceived, latest, late>>
  BY DEF Recover
<1>2. FileInv'
  BY <1>0, <1>1, FilesUntouched
<1>3. CASE turn.revision # revision /\ turn' = NoTurn /\ UNCHANGED task
  <2>1. task' = [task EXCEPT ![w] = task[w]] /\ task'[w] = task[w]
    BY <1>0, <1>3 DEF TalkTypes
  <2>2. \A v \in Workers : turn'.owner # v
    BY <1>3, ConversationAssumption DEF NoTurn
  <2>3. ContextOf(w)'
    BY <1>0, <2>1 DEF ContextOf
  <2>4. turn' \in Turns /\ Dated(turn'.records) /\ Kept(items', latest')
    BY <1>0, <1>1, <1>3, IdleTask, NothingIsDated
  <2> QED BY <1>0, <1>1, <1>2, <1>3, <2>1, <2>2, <2>3, <2>4, TaskStepInv
<1>4. CASE /\ turn.revision = revision
           /\ turn' = [turn EXCEPT !.owner = w]
           /\ task' = [task EXCEPT ![w] =
                  [NoTask EXCEPT !.at = IF turn.final THEN "answer" ELSE "pool",
                                 !.number = Len(messages), !.text = Asked.text, !.names = Asked.names,
                                 !.revision = turn.revision,
                                 !.records = IF turn.final THEN turn.records ELSE {}]]
  <2> DEFINE t == [NoTask EXCEPT !.at = IF turn.final THEN "answer" ELSE "pool",
                                 !.number = Len(messages), !.text = Asked.text, !.names = Asked.names,
                                 !.revision = turn.revision,
                                 !.records = IF turn.final THEN turn.records ELSE {}]
  <2>1. /\ Asked.text \in Questions /\ Asked.names \in SUBSET Attachments /\ Len(messages) \in Nat
        /\ turn.revision \in Nat /\ turn.records \in SUBSET Observations
    <3>1. messages \in Seq([text : Questions, names : SUBSET Attachments]) /\ messages # <<>>
      BY <1>0 DEF TalkTypes
    <3>2. Len(messages) \in 1 .. Len(messages) /\ Len(messages) \in Nat
      BY <3>1, LenProperties, EmptySeq
    <3>3. Asked \in [text : Questions, names : SUBSET Attachments]
      BY <3>1, <3>2, ElementOfSeq DEF Asked
    <3> QED BY <1>0, <3>2, <3>3 DEF Turns
  <2>2. /\ t \in Tasks /\ t.at \in {"answer", "pool"} /\ t.text \in Questions /\ Dated(t.records)
        /\ t.number = Len(messages)
    <3>1. /\ (IF turn.final THEN "answer" ELSE "pool") \in {"answer", "pool"}
          /\ (IF turn.final THEN turn.records ELSE {}) \in SUBSET Observations
          /\ Dated(IF turn.final THEN turn.records ELSE {})
      BY <1>0, <2>1, NothingIsDated
    <3> QED BY <2>1, <3>1, IdleTask DEF Tasks
  <2>3. task' = [task EXCEPT ![w] = t] /\ task'[w] = t
    BY <1>0, <1>4 DEF TalkTypes
  <2> HIDE DEF t
  <2>4. ContextOf(w)'
    BY <1>1, <2>2, <2>3 DEF ContextOf
  <2>5. turn' \in Turns /\ turn'.owner = w /\ turn'.records = turn.records
    BY <1>0, <1>4 DEF Turns
  <2>6. Kept(items', latest') /\ Dated(turn'.records) /\ perceived' \in Nat
    BY <1>0, <1>1, <2>5
  <2> QED BY <1>0, <1>1, <1>2, <2>2, <2>3, <2>4, <2>5, <2>6, TaskStepInv
<1> QED BY <1>3, <1>4 DEF Recover

LEMMA CrashInv ==
    ASSUME TalkInv, NEW w \in Workers, Crash(w) PROVE TalkInv'
<1>0. FileInv /\ perceived \in Nat
  BY TalkIs
<1>1. /\ Restart(w) /\ Ends(w)
      /\ UNCHANGED <<scenario, messages, items, revision, turn, perceived, latest, late>>
  BY DEF Crash
<1>2. FileInv'
  BY <1>0, <1>1, RestartInv
<1> QED BY <1>0, <1>1, <1>2, EndsInv

LEMMA AbandonInv ==
    ASSUME TalkInv, NEW w \in Workers, Publish(w) \/ Fail(w) PROVE TalkInv'
<1>0. FileInv /\ perceived \in Nat
  BY TalkIs
<1>1. /\ UNCHANGED <<fileVars, referenced, scenario, messages, items, revision, perceived, latest, late>>
      /\ Ends(w) /\ turn' \in {turn, NoTurn}
  BY DEF Publish, Fail
<1>2. FileInv'
  BY <1>0, <1>1, FilesUntouched
<1> QED BY <1>0, <1>1, <1>2, EndsInv

\* Steps beside the conversation.
LEMMA BesidesInv ==
    ASSUME TalkInv, FileInv', UNCHANGED <<scenario, messages, items, turn, task, perceived, latest>>,
           revision' \in Nat
    PROVE  TalkInv'
<1>1. TalkTypes'
  BY DEF TalkInv, TalkTypes
<1>2. ItemInv'
  BY DEF TalkInv, ItemInv, Kept, Dated, Perception, Above
<1>3. ContextInv'
  <2> SUFFICES ASSUME NEW w \in Workers PROVE ContextOf(w)'
    BY DEF ContextInv
  <2>1. ContextOf(w) /\ TalkTypes /\ task'[w] = task[w] /\ (InCharge(w)' => InCharge(w))
    BY DEF TalkInv, ContextInv, InCharge
  <2> QED BY <2>1, ContextStays
<1> QED BY <1>1, <1>2, <1>3 DEF TalkInv, FileInv

LEMMA MisreadInv ==
    ASSUME TalkInv, NEW w \in Workers, Misread(w) PROVE TalkInv'
<1>0. FileInv /\ revision \in Nat
  BY DEF TalkInv, FileInv, TalkTypes
<1>1. UNCHANGED <<scenario, messages, items, revision, turn, task, perceived, latest>>
  BY DEF Misread
<1>2. PICK unreadable \in SUBSET meta : Scan(w, unreadable) /\ late' = late \cup unreadable
  BY DEF Misread
<1>3. FileInv'
  BY <1>0, <1>2, ScanInv
<1> QED BY <1>0, <1>1, <1>3, BesidesInv

LEMMA TalkStep ==
    ASSUME TalkInv, [Next]_vars PROVE TalkInv'
<1>0. FileInv /\ revision \in Nat /\ scenario.serving \in SUBSET Workers
  BY ConversationAssumption DEF TalkInv, FileInv, TalkTypes
<1>1. ASSUME NEW w \in scenario.serving, TaskStep(w) \/ Recover(w) \/ Crash(w) \/ Misread(w)
      PROVE  TalkInv'
  <2>1. w \in Workers
    BY <1>0
  <2> QED BY <1>1, <2>1, ResolveInv, AcceptInv, PoolInv, PerceiveInv, RunInv, KeepInv, AbandonInv,
             RecoverInv, CrashInv, MisreadInv DEF TaskStep
<1>2. CASE Import
  <2>1. /\ UNCHANGED <<fileVars, referenced, late>> /\ revision' \in Nat
        /\ UNCHANGED <<scenario, messages, items, turn, task, perceived, latest>>
    BY <1>0, <1>2 DEF Import
  <2>2. FileInv'
    BY <1>0, <2>1, FilesUntouched
  <2> QED BY <2>1, <2>2, BesidesInv
<1>3. CASE Requests
  <2>1. UNCHANGED <<fileVars, referenced, talkVars>>
    BY <1>3 DEF Requests
  <2>2. FileInv'
    BY <1>0, <2>1, FilesUntouched DEF talkVars
  <2> QED BY <1>0, <2>1, <2>2, BesidesInv DEF talkVars
<1>4. CASE Files
  <2>1. FileStep(scenario.serving) /\ UNCHANGED talkVars
    BY <1>4 DEF Files
  <2>2. FileInv'
    BY <1>0, <2>1, FileStepInv DEF talkVars
  <2> QED BY <1>0, <2>1, <2>2, BesidesInv DEF talkVars
<1>5. CASE UNCHANGED vars
  <2>1. UNCHANGED <<fileVars, referenced, talkVars>>
    BY <1>5 DEF vars
  <2>2. FileInv'
    BY <1>0, <2>1, FilesUntouched DEF talkVars
  <2> QED BY <1>0, <2>1, <2>2, BesidesInv DEF talkVars
<1> QED BY <1>1, <1>2, <1>3, <1>4, <1>5 DEF Next

LEMMA TalkInit ==
    ASSUME Init PROVE TalkInv
<1>0. /\ scenario \in Scenarios /\ FilesInit(scenario.stored)
      /\ messages = <<>> /\ items = {} /\ revision = 1 /\ turn = NoTurn
      /\ task = [w \in Workers |-> NoTask] /\ perceived = 0
      /\ latest = [b \in Attachments |-> 0] /\ late = {}
  BY DEF Init
<1>1. FileInv
  <2>1. /\ scenario.stored \in 0 .. MaxAttachments /\ MaxAttachments \in Nat /\ MaxStored \in Nat
        /\ scenario.stored <= MaxStored + Cardinality(Workers) - 1
    BY <1>0, ConversationAssumption, AttachmentAssumption
  <2>2. FileTypes
    BY <1>0, <2>1, FreeJob DEF FilesInit, FileTypes, Numbers, Attachments
  <2>3. StorageInv
    <3>1. Writers = {} /\ payload = 1 .. scenario.stored
      BY <1>0, FreeJob DEF FilesInit, Writers
    <3>2. Cardinality(Writers) = 0 /\ Cardinality(payload) = scenario.stored
      <4>1. Cardinality({}) = 0
        BY FS_EmptySet
      <4>2. Cardinality(1 .. scenario.stored) = scenario.stored
        BY <2>1, FS_Interval
      <4> QED BY <3>1, <4>1, <4>2
    <3>3. Cardinality(Workers) \in Nat
      BY ConversationAssumption, FS_CardinalityType
    <3> QED BY <2>1, <3>2, <3>3 DEF StorageInv
  <2>4. ReferenceInv
    BY <1>0, FreeJob DEF FilesInit, ReferenceInv
  <2> QED BY <2>2, <2>3, <2>4 DEF FileInv
<1>2. TalkTypes
  <2>1. messages \in Seq([text : Questions, names : SUBSET Attachments])
    BY <1>0
  <2> QED BY <1>0, <2>1, IdleTask DEF TalkTypes
<1>3. ItemInv
  <2>1. Cardinality(items) <= ItemBudget
    <3>1. Cardinality(items) = 0
      BY <1>0, FS_EmptySet
    <3> QED BY <3>1, ContextAssumption
  <2>2. Kept(items, latest)
    BY <1>0, <2>1, NothingIsDated DEF Kept
  <2> QED BY <1>0, <2>2, IdleTask, NothingIsDated DEF ItemInv
<1>4. ContextInv
  BY <1>0, IdleTask DEF ContextInv, ContextOf
<1> QED BY <1>1, <1>2, <1>3, <1>4 DEF TalkInv, FileInv

LEMMA TalkHolds == Spec => []TalkInv
BY TalkInit, TalkStep, PTL DEF Spec

\* Workers that do not serve hold nothing.  One that serves alone is not collecting when a
\* message is accepted, and what the message names is whole: so nothing is late before a read
\* has failed.
AloneInv ==
    /\ spent \in [lapses : Nat, crashes : Nat, faults : Nat]
    /\ \A w \in Workers \ scenario.serving : job[w].at = "idle"
    /\ Alone => \A w \in scenario.serving : task[w].at = "accept" =>
          job[w].at = "idle" /\ \A b \in task[w].names : Whole(b)
    /\ Alone /\ spent.faults = 0 => late = {}

\* A step that leaves files and references alone brings no task to its acceptance.
LEMMA AloneStays ==
    ASSUME AloneInv, UNCHANGED <<fileVars, scenario, late>>,
           spent' \in [lapses : Nat, crashes : Nat, faults : Nat], spent'.faults = spent.faults,
           \A v \in Workers : task'[v].at = "accept" => task'[v] = task[v],
           scenario.serving \subseteq Workers
    PROVE  AloneInv'
BY DEF AloneInv, Alone, Whole, fileVars

LEMMA AloneTaskStep ==
    ASSUME TalkInv, AloneInv, NEW w \in scenario.serving, TaskStep(w) \/ Recover(w)
    PROVE  AloneInv'
<1>0. /\ w \in Workers /\ scenario.serving \subseteq Workers /\ task \in [Workers -> Tasks]
      /\ spent \in [lapses : Nat, crashes : Nat, faults : Nat]
  BY ConversationAssumption DEF TalkInv, TalkTypes, AloneInv
<1>1. CASE Resolve(w)
  <2>1. /\ UNCHANGED <<fileVars, scenario, late, spent>> /\ job[w].at = "idle"
        /\ \A v \in Workers \ {w} : task'[v] = task[v]
        /\ \A b \in task'[w].names : Whole(b)
    BY <1>0, <1>1 DEF Resolve, At, LoopFree, NoTask
  <2> QED BY <1>0, <2>1 DEF AloneInv, Alone, Whole, fileVars
<1>2. CASE Accept(w)
  <2>1. /\ UNCHANGED <<fileVars, scenario, spent>> /\ task[w].at = "accept" /\ job[w].at = "idle"
        /\ late' = late \/ late' = late \cup {b \in task[w].names : Doomed(b)}
    BY <1>2 DEF Accept, At, LoopFree
  <2>3. \A v \in Workers : task'[v].at = "accept" => v # w /\ task'[v] = task[v]
    <3>1. CASE Ends(w)
      BY <1>0, <3>1, IdleTask DEF Ends
    <3>2. CASE task' = [task EXCEPT ![w].at = "pool", ![w].number = Len(messages')]
      <4> DEFINE t == [task[w] EXCEPT !.at = "pool", !.number = Len(messages')]
      <4>1. task' = [task EXCEPT ![w] = t] /\ t.at = "pool"
        BY <1>0, <3>2 DEF Tasks
      <4> HIDE DEF t
      <4> QED BY <1>0, <4>1
    <3> QED BY <1>2, <3>1, <3>2 DEF Accept
  <2>2. Alone => \A b \in task[w].names : ~Doomed(b)
    <3> SUFFICES ASSUME Alone, NEW b \in task[w].names PROVE ~Doomed(b)
      OBVIOUS
    <3>1. \A v \in Workers : job[v].at = "idle"
      BY <1>0, <2>1 DEF AloneInv, Alone
    <3>2. Whole(b)
      BY <1>0, <2>1 DEF AloneInv
    <3> QED BY <3>1, <3>2 DEF Doomed
  <2>4. Alone => late' = late
    BY <2>1, <2>2
  <2> QED BY <1>0, <2>1, <2>3, <2>4 DEF AloneInv, Alone, Whole, fileVars
<1>3. CASE Recover(w)
  <2>1. UNCHANGED <<fileVars, scenario, late>>
    BY <1>3 DEF Recover
  <2>3. \A v \in Workers : task'[v].at = "accept" => task'[v] = task[v]
    <3>1. UNCHANGED task \/ \E t : task' = [task EXCEPT ![w] = t] /\ t.at \in {"answer", "pool"}
      <4> DEFINE t == [NoTask EXCEPT !.at = IF turn.final THEN "answer" ELSE "pool",
                             !.number = Len(messages), !.text = Asked.text, !.names = Asked.names,
                             !.revision = turn.revision,
                             !.records = IF turn.final THEN turn.records ELSE {}]
      <4>1. t.at \in {"answer", "pool"}
        BY DEF NoTask
      <4>2. UNCHANGED task \/ task' = [task EXCEPT ![w] = t]
        BY <1>3 DEF Recover
      <4> HIDE DEF t
      <4> QED BY <4>1, <4>2
    <3> QED BY <1>0, <3>1
  <2>2. /\ spent' \in [lapses : Nat, crashes : Nat, faults : Nat] /\ spent'.faults = spent.faults
    BY <1>0, <1>3 DEF Recover, Spend
  <2> QED BY <1>0, <2>1, <2>2, <2>3, AloneStays
<1>4. CASE \/ Pool(w) \/ Perceive(w) \/ Run(w) \/ Keep(w) \/ Publish(w) \/ Fail(w)
  <2>1. UNCHANGED <<fileVars, scenario, late, spent>>
    BY <1>4 DEF Pool, Perceive, Run, Keep, Publish, Fail
  <2>2. \A v \in Workers : task'[v].at = "accept" => task'[v] = task[v]
    <3>1. CASE Ends(w)
      BY <1>0, <3>1, IdleTask DEF Ends
    <3>2. ASSUME NEW where, where # "accept", Goto(w, where)
          PROVE  \A v \in Workers : task'[v].at = "accept" => task'[v] = task[v]
      BY <1>0, <3>2 DEF Goto, Tasks
    <3>3. CASE Pool(w)
      <4> DEFINE t == [task[w] EXCEPT !.at = "perceive",
                             !.said = Remembered(task[w].text, Earlier),
                             !.items = Observed(task[w].text, items)]
      <4>1. t.at = "perceive"
        BY <1>0 DEF Tasks
      <4>2. task' = [task EXCEPT ![w] = t]
        BY <1>0, <3>3 DEF Pool
      <4> HIDE DEF t
      <4> QED BY <1>0, <4>1, <4>2
    <3>4. CASE Perceive(w) /\ ~Ends(w)
      <4>1. PICK records, context :
               task' = [task EXCEPT ![w].at = "run", ![w].records = records, ![w].context = context]
        BY <3>4 DEF Perceive
      <4> DEFINE t == [task[w] EXCEPT !.at = "run", !.records = records, !.context = context]
      <4>2. task' = [task EXCEPT ![w] = t] /\ t.at = "run"
        BY <1>0, <4>1 DEF Tasks
      <4> HIDE DEF t
      <4> QED BY <1>0, <4>2
    <3>5. Run(w) => Goto(w, "remember") \/ Ends(w)
      BY DEF Run
    <3>6. Keep(w) => Goto(w, "publish")
      BY DEF Keep
    <3>7. Publish(w) \/ Fail(w) => Ends(w)
      BY DEF Publish, Fail
    <3> QED BY <1>4, <3>1, <3>2, <3>3, <3>4, <3>5, <3>6, <3>7
  <2> QED BY <1>0, <2>1, <2>2, AloneStays
<1> QED BY <1>1, <1>2, <1>3, <1>4 DEF TaskStep

\* Between the resolution of the names and the message, the loop of their worker does nothing
\* else, and there is no other worker.
LEMMA AloneFiles ==
    ASSUME TalkInv, AloneInv, Files PROVE AloneInv'
<1>0. scenario.serving \subseteq Workers /\ UNCHANGED <<scenario, late, spent, task>>
  BY ConversationAssumption DEF TalkInv, TalkTypes, Files, talkVars
<1>1. CASE GrowOld
  BY <1>0, <1>1 DEF GrowOld, AloneInv, Alone, Whole
<1>2. ASSUME NEW w \in scenario.serving,
             \/ Upload(w) \/ Scan(w, {}) \/ ReadReferences(w) \/ Unlink(w) \/ UnlinkMeta(w)
             \/ SweepDone(w) \/ Measure(w) \/ InstallPayload(w) \/ InstallMeta(w)
      PROVE  AloneInv'
  <2>1. /\ \E j : Step(w, j)
        /\ job[w].at = "idle" => UNCHANGED <<payload, meta>>
    BY <1>2 DEF Upload, Scan, ReadReferences, Unlink, UnlinkMeta, SweepDone, Measure,
                InstallPayload, InstallMeta
  <2>2. \A v \in Workers \ {w} : job'[v] = job[v]
    BY <2>1, JobIs DEF TalkInv, FileTypes, Step
  <2>3. task[w].at = "accept" => job'[w] = job[w]
    BY <1>0 DEF Files
  <2> QED BY <1>0, <2>1, <2>2, <2>3 DEF AloneInv, Alone, Whole
<1> QED BY <1>1, <1>2 DEF Files, FileStep

LEMMA AloneStep ==
    ASSUME TalkInv, AloneInv, [Next]_vars PROVE AloneInv'
<1>0. /\ scenario.serving \subseteq Workers /\ task \in [Workers -> Tasks]
      /\ job \in [Workers -> Jobs] /\ spent \in [lapses : Nat, crashes : Nat, faults : Nat]
  BY ConversationAssumption DEF TalkInv, TalkTypes, FileTypes, AloneInv
<1>1. ASSUME NEW w \in scenario.serving, Crash(w) PROVE AloneInv'
  <2>1. /\ UNCHANGED <<payload, meta, scenario, late>>
        /\ \A v \in Workers \ {w} : job'[v] = job[v] /\ task'[v] = task[v]
        /\ task'[w].at = "idle"
    BY <1>0, <1>1 DEF Crash, Restart, Step, Ends, NoTask
  <2>2. spent' \in [lapses : Nat, crashes : Nat, faults : Nat] /\ spent'.faults = spent.faults
    BY <1>0, <1>1 DEF Crash, Spend
  <2> QED BY <1>0, <2>1, <2>2 DEF AloneInv, Alone, Whole
<1>2. ASSUME NEW w \in scenario.serving, Misread(w) PROVE AloneInv'
  <2>1. /\ UNCHANGED <<scenario, task>> /\ task[w].at # "accept"
        /\ \A v \in Workers \ {w} : job'[v] = job[v]
    BY <1>0, <1>2 DEF Misread, Scan, Step
  <2>2. spent' \in [lapses : Nat, crashes : Nat, faults : Nat] /\ spent'.faults # 0
    BY <1>0, <1>2 DEF Misread, Spend
  <2> QED BY <1>0, <2>1, <2>2 DEF AloneInv, Alone
<1>3. CASE Import \/ Requests \/ UNCHANGED vars
  <2>1. UNCHANGED <<fileVars, scenario, late, spent, task>>
    BY <1>3 DEF Import, Requests, vars, talkVars
  <2> QED BY <1>0, <2>1, AloneStays
<1> QED BY <1>1, <1>2, <1>3, AloneTaskStep, AloneFiles DEF Next

LEMMA AloneHolds == Spec => []AloneInv
<1>1. Init => AloneInv
  <2> SUFFICES ASSUME Init PROVE AloneInv
    OBVIOUS
  <2>1. /\ spent = [lapses |-> 0, crashes |-> 0, faults |-> 0] /\ late = {}
        /\ job = [w \in Workers |-> Free] /\ task = [w \in Workers |-> NoTask]
        /\ scenario.serving \subseteq Workers
    BY ConversationAssumption DEF Init, FilesInit
  <2>2. \A w \in Workers : job[w].at = "idle" /\ task[w].at = "idle"
    BY <2>1, FreeJob, IdleTask
  <2> QED BY <2>1, <2>2 DEF AloneInv
<1> QED BY <1>1, AloneStep, TalkHolds, PTL DEF Spec

\* Type correctness, of the files and of the conversation; and no upload writes without a
\* number.
\* (upload_attachment, gc_attachments, api_core.add_message)
THEOREM ConversationTypes == Spec => [](FileTypes /\ TalkTypes)
<1>1. TalkInv => FileTypes /\ TalkTypes
  BY DEF TalkInv
<1> QED BY <1>1, TalkHolds, PTL

\* The quota is overrun by at most one upload of each other worker: an upload that measured
\* the directory and has not written its payload counts as if it had.
\* (attachment_storage_for_upload, upload_attachment)
THEOREM StorageBounded == Spec => []StorageIsBounded
<1>1. TalkInv => StorageIsBounded
  <2> SUFFICES ASSUME TalkInv PROVE StorageIsBounded
    OBVIOUS
  <2>1. FileTypes /\ StorageInv
    BY DEF TalkInv
  <2>2. payload \in SUBSET Attachments /\ Writers \in SUBSET Workers
    BY <2>1 DEF FileTypes, Writers
  <2>3. /\ Cardinality(payload) \in Nat /\ Cardinality(Writers) \in Nat
        /\ MaxStored \in Nat /\ Cardinality(Workers) \in Nat
    BY <2>1, <2>2, FilesFinite
  <2> QED BY <2>1, <2>3 DEF StorageInv, StorageIsBounded
<1> QED BY <1>1, TalkHolds, PTL

\* Where one worker serves and every read succeeds, every attachment an accepted message names
\* stays whole: what a collection takes was not referenced when it looked, and nothing is named
\* while it collects.  Elsewhere those stay that nobody held, or had taken, when they were
\* named, and whose metadata could always be read.
\* (gc_attachments, store.referenced_attachment_ids, start_run_with_user_message)
THEOREM ReferencesKept == Spec => []ReferencedIsKept
<1>1. TalkInv /\ AloneInv => ReferencedIsKept
  BY DEF TalkInv, AloneInv, ReferenceInv, ReferencedIsKept, Doomed
<1> QED BY <1>1, TalkHolds, AloneHolds, PTL

\* An executor that lost its run cannot bring an older observation back: as long as none of
\* an attachment is kept, as many later ones are as the table holds.
\* (store._upsert_context_item, _prune_context_items)
THEOREM ObservationsForward == Spec => []ObservationsOnlyForward
<1>1. TalkInv => ObservationsOnlyForward
  BY DEF TalkInv, ItemInv, Kept, Dated, ObservationsOnlyForward
<1> QED BY <1>1, TalkHolds, PTL

\* What a task is told comes from earlier messages, from observations made on its catalog and
\* from its own attachments, each once, within the budget; and a question that continues a
\* conversation carries what was said last.
\* (api_core._execute, context_memory.build_governed_context)
THEOREM ContextGrounded == Spec => []ContextIsGrounded
<1>1. TalkInv => ContextIsGrounded
  BY DEF TalkInv, ContextInv, ContextOf, ContextIsGrounded
<1> QED BY <1>1, TalkHolds, PTL

-----------------------------------------------------------------------------
(* Sums over time.                                                          *)

Times  == 0 .. MaxClock
Counts == [Times -> Nat]

\* f adds up e.
Adds(e, f) == \A t \in Times : f[t] = (IF t = 0 THEN 0 ELSE f[t - 1]) + e[t]

\* What counts of e at the times of T.
Part(e, T) == [t \in Times |-> IF t \in T THEN e[t] ELSE 0]

\* What holds at 0 and passes from one time to the next holds at the end.
LEMMA TimesInduct ==
    ASSUME NEW S, 0 \in S, \A t \in Times : t # 0 /\ t - 1 \in S => t \in S
    PROVE  Times \subseteq S
<1> DEFINE bad == Times \ S
<1> SUFFICES ASSUME bad # {} PROVE FALSE
  OBVIOUS
<1>0. MaxClock \in Nat
  BY RateAssumption
<1>1. PICK t \in bad : \A u \in bad : t <= u
  <2>1. bad \in SUBSET Nat
    BY <1>0 DEF Times
  <2> HIDE DEF bad
  <2> QED BY <2>1, LeastExists
<1>2. t # 0 /\ t \in Times
  OBVIOUS
<1>3. t - 1 \in Times /\ t - 1 < t
  BY <1>0, <1>2 DEF Times
<1>4. t - 1 \in S
  BY <1>1, <1>2, <1>3 DEF Times
<1> QED BY <1>2, <1>4

\* Two sums of the same are the same.
LEMMA AddsUnique ==
    ASSUME NEW e, NEW f, NEW g, Adds(e, f), Adds(e, g) PROVE \A t \in Times : f[t] = g[t]
<1> DEFINE S == {t \in Times : f[t] = g[t]}
<1>0. 0 \in Times
  BY RateAssumption DEF Times
<1>1. 0 \in S
  BY <1>0 DEF Adds
<1>2. \A t \in Times : t # 0 /\ t - 1 \in S => t \in S
  BY DEF Adds
<1> HIDE DEF S
<1>3. Times \subseteq S
  BY <1>1, <1>2, TimesInduct
<1> QED BY <1>3 DEF S

\* Partial sums of naturals exist.
LEMMA AddsExist == ASSUME NEW e \in Counts PROVE \E f \in Counts : Adds(e, f)
<1> DEFINE Upto(v, f) == \A t \in 0 .. v : f[t] = (IF t = 0 THEN 0 ELSE f[t - 1]) + e[t]
           S == {v \in Times : \E f \in Counts : Upto(v, f)}
<1>0. MaxClock \in Nat /\ 0 \in Times
  BY RateAssumption DEF Times
<1>1. 0 \in S
  <2>1. e \in Counts /\ Upto(0, e)
    BY <1>0 DEF Counts
  <2> QED BY <1>0, <2>1
<1>2. ASSUME NEW v \in Times, v # 0, v - 1 \in S
      PROVE  v \in S
  <2>1. PICK f \in Counts : Upto(v - 1, f)
    BY <1>2
  <2> DEFINE g == [f EXCEPT ![v] = f[v - 1] + e[v]]
  <2>2. v \in Nat /\ v - 1 \in Times
    BY <1>0, <1>2 DEF Times
  <2>3. g \in Counts /\ g[v] = f[v - 1] + e[v] /\ \A t \in Times : t # v => g[t] = f[t]
    BY <2>2 DEF Counts
  <2>4. ASSUME NEW t \in 0 .. v
        PROVE  g[t] = (IF t = 0 THEN 0 ELSE g[t - 1]) + e[t]
    <3>1. t \in Times /\ (t # 0 => t - 1 \in Times /\ t - 1 # v)
      BY <1>0, <2>2 DEF Times
    <3>2. CASE t = v
      BY <1>2, <2>2, <2>3, <3>1, <3>2
    <3>3. CASE t # v
      <4>1. t \in 0 .. (v - 1)
        BY <2>2, <3>3
      <4> HIDE DEF g
      <4> QED BY <2>1, <2>3, <3>1, <3>3, <4>1
    <3> QED BY <3>2, <3>3
  <2> HIDE DEF g
  <2> QED BY <2>3, <2>4
<1> HIDE DEF S
<1>3. Times \subseteq S
  BY <1>1, <1>2, TimesInduct
<1>4. MaxClock \in Times
  BY <1>0 DEF Times
<1>5. PICK f \in Counts : Upto(MaxClock, f)
  BY <1>3, <1>4 DEF S
<1> QED BY <1>5 DEF Adds, Times

\* A total is the last of the partial sums.
LEMMA TotalIs ==
    ASSUME NEW e \in Counts, NEW T
    PROVE  /\ Part(e, T) \in Counts
           /\ \E f \in Counts : Adds(Part(e, T), f) /\ Total(e, T) = f[MaxClock]
<1>1. Part(e, T) \in Counts
  BY DEF Part, Counts
<1>2. PICK f \in Counts : Adds(Part(e, T), f)
  BY <1>1, AddsExist
<1> DEFINE W(h) == [t \in 0 .. MaxClock |-> (IF t = 0 THEN 0 ELSE h[t - 1]) + (IF t \in T THEN e[t] ELSE 0)]
           g == CHOOSE h : h = W(h)
<1>3. f = W(f)
  <2>1. f = [t \in Times |-> f[t]]
    BY DEF Counts
  <2>2. \A t \in Times : f[t] = (IF t = 0 THEN 0 ELSE f[t - 1]) + (IF t \in T THEN e[t] ELSE 0)
    BY <1>2 DEF Adds, Part
  <2> QED BY <2>1, <2>2 DEF Times
<1>4. g = W(g)
  <2> HIDE DEF W
  <2> QED BY <1>3
<1>5. Total(e, T) = g[MaxClock]
  BY DEF Total
<1> HIDE DEF g
<1>6. Adds(Part(e, T), g)
  <2>1. \A t \in Times : g[t] = (IF t = 0 THEN 0 ELSE g[t - 1]) + (IF t \in T THEN e[t] ELSE 0)
    BY <1>4 DEF Times
  <2> QED BY <2>1 DEF Adds, Part
<1>7. MaxClock \in Times
  BY RateAssumption DEF Times
<1>8. f[MaxClock] = g[MaxClock]
  BY <1>2, <1>6, <1>7, AddsUnique
<1> QED BY <1>1, <1>2, <1>5, <1>8

\* Totals are naturals, add up, and grow with what they count.
LEMMA TotalNat == ASSUME NEW e \in Counts, NEW T PROVE Total(e, T) \in Nat
<1>1. MaxClock \in Times
  BY RateAssumption DEF Times
<1> QED BY <1>1, TotalIs DEF Counts

LEMMA TotalAdds ==
    ASSUME NEW d \in Counts, NEW e \in Counts, NEW c \in Counts, NEW T,
           \A t \in Times : t \in T => c[t] = d[t] + e[t]
    PROVE  Total(c, T) = Total(d, T) + Total(e, T)
<1>1. PICK f \in Counts : Adds(Part(d, T), f) /\ Total(d, T) = f[MaxClock]
  BY TotalIs
<1>2. PICK g \in Counts : Adds(Part(e, T), g) /\ Total(e, T) = g[MaxClock]
  BY TotalIs
<1>3. PICK h \in Counts : Adds(Part(c, T), h) /\ Total(c, T) = h[MaxClock]
  BY TotalIs
<1> DEFINE S == {t \in Times : h[t] = f[t] + g[t]}
<1>4. ASSUME NEW t \in Times
      PROVE  /\ Part(c, T)[t] = Part(d, T)[t] + Part(e, T)[t]
             /\ Part(d, T)[t] \in Nat /\ Part(e, T)[t] \in Nat
             /\ f[t] \in Nat /\ g[t] \in Nat /\ h[t] \in Nat
             /\ t # 0 => t - 1 \in Times
  <2>1. /\ Part(c, T)[t] = Part(d, T)[t] + Part(e, T)[t]
        /\ Part(d, T)[t] \in Nat /\ Part(e, T)[t] \in Nat
    BY DEF Part, Counts
  <2>2. t # 0 => t - 1 \in Times
    BY RateAssumption DEF Times
  <2> QED BY <2>1, <2>2 DEF Counts
<1>5. /\ \A t \in Times : f[t] = (IF t = 0 THEN 0 ELSE f[t - 1]) + Part(d, T)[t]
      /\ \A t \in Times : g[t] = (IF t = 0 THEN 0 ELSE g[t - 1]) + Part(e, T)[t]
      /\ \A t \in Times : h[t] = (IF t = 0 THEN 0 ELSE h[t - 1]) + Part(c, T)[t]
  BY <1>1, <1>2, <1>3 DEF Adds
<1>6. 0 \in S
  <2>1. 0 \in Times
    BY RateAssumption DEF Times
  <2> QED BY <1>4, <1>5, <2>1
<1>7. \A t \in Times : t # 0 /\ t - 1 \in S => t \in S
  <2> TAKE t \in Times
  <2> HAVE t # 0 /\ t - 1 \in S
  <2>1. t - 1 \in Times /\ h[t - 1] = f[t - 1] + g[t - 1]
    OBVIOUS
  <2>2. f[t - 1] \in Nat /\ g[t - 1] \in Nat
    BY <1>4, <2>1
  <2>3. h[t] = (f[t - 1] + g[t - 1]) + (Part(d, T)[t] + Part(e, T)[t])
    BY <1>4, <1>5, <2>1
  <2>4. f[t] = f[t - 1] + Part(d, T)[t] /\ g[t] = g[t - 1] + Part(e, T)[t]
    BY <1>5
  <2> QED BY <1>4, <2>2, <2>3, <2>4
<1> HIDE DEF S
<1>8. MaxClock \in S
  <2>1. Times \subseteq S /\ MaxClock \in Times
    BY <1>6, <1>7, TimesInduct, RateAssumption DEF Times
  <2> QED BY <2>1
<1> QED BY <1>1, <1>2, <1>3, <1>8 DEF S

LEMMA TotalGrows ==
    ASSUME NEW d \in Counts, NEW e \in Counts, NEW T, NEW U,
           \A t \in Times : t \in T => t \in U /\ d[t] <= e[t]
    PROVE  Total(d, T) <= Total(e, U)
<1>1. PICK f \in Counts : Adds(Part(d, T), f) /\ Total(d, T) = f[MaxClock]
  BY TotalIs
<1>2. PICK g \in Counts : Adds(Part(e, U), g) /\ Total(e, U) = g[MaxClock]
  BY TotalIs
<1> DEFINE S == {t \in Times : f[t] <= g[t]}
<1>3. ASSUME NEW t \in Times
      PROVE  /\ Part(d, T)[t] <= Part(e, U)[t]
             /\ Part(d, T)[t] \in Nat /\ Part(e, U)[t] \in Nat
             /\ f[t] \in Nat /\ g[t] \in Nat
             /\ t # 0 => t - 1 \in Times
  <2>1. /\ Part(d, T)[t] <= Part(e, U)[t]
        /\ Part(d, T)[t] \in Nat /\ Part(e, U)[t] \in Nat
    BY DEF Part, Counts
  <2>2. t # 0 => t - 1 \in Times
    BY RateAssumption DEF Times
  <2> QED BY <2>1, <2>2 DEF Counts
<1>4. /\ \A t \in Times : f[t] = (IF t = 0 THEN 0 ELSE f[t - 1]) + Part(d, T)[t]
      /\ \A t \in Times : g[t] = (IF t = 0 THEN 0 ELSE g[t - 1]) + Part(e, U)[t]
  BY <1>1, <1>2 DEF Adds
<1>5. 0 \in S
  <2>1. 0 \in Times
    BY RateAssumption DEF Times
  <2> QED BY <1>3, <1>4, <2>1
<1>6. \A t \in Times : t # 0 /\ t - 1 \in S => t \in S
  <2> TAKE t \in Times
  <2> HAVE t # 0 /\ t - 1 \in S
  <2>1. t - 1 \in Times /\ f[t - 1] <= g[t - 1]
    OBVIOUS
  <2>2. f[t - 1] \in Nat /\ g[t - 1] \in Nat
    BY <1>3, <2>1
  <2>3. f[t] = f[t - 1] + Part(d, T)[t] /\ g[t] = g[t - 1] + Part(e, U)[t]
    BY <1>4
  <2> QED BY <1>3, <2>1, <2>2, <2>3
<1> HIDE DEF S
<1>7. MaxClock \in S
  <2>1. Times \subseteq S /\ MaxClock \in Times
    BY <1>5, <1>6, TimesInduct, RateAssumption DEF Times
  <2> QED BY <2>1
<1> QED BY <1>1, <1>2, <1>7 DEF S

\* Nothing adds up to nothing, and one request to one.
Nothing == [t \in Times |-> 0]
Once(n) == [t \in Times |-> IF t = n THEN 1 ELSE 0]

LEMMA TotalOnce ==
    ASSUME NEW T
    PROVE  /\ Nothing \in Counts /\ Total(Nothing, T) = 0
           /\ \A n \in Times : Once(n) \in Counts /\ Total(Once(n), T) = IF n \in T THEN 1 ELSE 0
<1>0. MaxClock \in Nat /\ 0 \in Times /\ MaxClock \in Times
  BY RateAssumption DEF Times
<1>1. Nothing \in Counts /\ Total(Nothing, T) = 0
  <2>1. Nothing \in Counts
    BY DEF Nothing, Counts
  <2>2. Adds(Part(Nothing, T), Nothing)
    <3> SUFFICES ASSUME NEW t \in Times
                 PROVE  Nothing[t] = (IF t = 0 THEN 0 ELSE Nothing[t - 1]) + Part(Nothing, T)[t]
      BY DEF Adds
    <3>1. t # 0 => t - 1 \in Times
      BY <1>0 DEF Times
    <3> QED BY <3>1 DEF Nothing, Part
  <2>3. Total(Nothing, T) = Nothing[MaxClock]
    BY <1>0, <2>1, <2>2, TotalIs, AddsUnique
  <2> QED BY <1>0, <2>1, <2>3 DEF Nothing
<1>2. ASSUME NEW n \in Times
      PROVE  Once(n) \in Counts /\ Total(Once(n), T) = IF n \in T THEN 1 ELSE 0
  <2> DEFINE f == [t \in Times |-> IF n \in T /\ n <= t THEN 1 ELSE 0]
  <2>1. Once(n) \in Counts
    BY DEF Once, Counts
  <2>2. Adds(Part(Once(n), T), f)
    <3> SUFFICES ASSUME NEW t \in Times
                 PROVE  f[t] = (IF t = 0 THEN 0 ELSE f[t - 1]) + Part(Once(n), T)[t]
      BY DEF Adds
    <3>1. t \in Nat /\ n \in Nat /\ (t # 0 => t - 1 \in Times)
      BY <1>0 DEF Times
    <3>2. Part(Once(n), T)[t] = IF t \in T /\ t = n THEN 1 ELSE 0
      BY DEF Part, Once
    <3> QED BY <3>1, <3>2
  <2>3. Total(Once(n), T) = f[MaxClock]
    <3> HIDE DEF f
    <3> QED BY <1>0, <2>1, <2>2, TotalIs, AddsUnique
  <2>4. n <= MaxClock
    BY <1>0 DEF Times
  <2> QED BY <1>0, <2>1, <2>3, <2>4
<1> QED BY <1>1, <1>2

\* One more request counts where it belongs.
LEMMA TotalBumps ==
    ASSUME NEW e \in Counts, NEW n \in Times, NEW T
    PROVE  /\ [e EXCEPT ![n] = @ + 1] \in Counts
           /\ Total([e EXCEPT ![n] = @ + 1], T) = Total(e, T) + (IF n \in T THEN 1 ELSE 0)
<1> DEFINE c == [e EXCEPT ![n] = @ + 1]
<1>1. c \in Counts /\ Once(n) \in Counts /\ \A t \in Times : c[t] = e[t] + Once(n)[t]
  BY DEF Counts, Once
<1> HIDE DEF c
<1>2. Total(c, T) = Total(e, T) + Total(Once(n), T)
  BY <1>1, TotalAdds
<1> QED BY <1>1, <1>2, TotalOnce DEF c

-----------------------------------------------------------------------------
(* The rate limit: the inductive invariant.                                 *)

BucketRows == [start : Times, count : Nat, updated : Times]

RateTypes ==
    /\ clock \in Times /\ setbacks \in Nat
    /\ bucket \subseteq BucketRows /\ \A r, o \in bucket : r = o
    /\ asked \in [Workers -> [at : {"idle", "read", "write"}, now : Times]]
    /\ granted \in Counts

\* What a row counts was allowed since its window began, also when it is moved back.
CountInv ==
    \A r \in bucket : /\ r.count <= Limit /\ r.start <= r.updated
                      /\ r.count <= Grants({u \in Times : r.start <= u})

Pending ==
    \A w \in Workers : asked[w].at # "idle" => /\ asked[w].now <= clock
                                               /\ clock <= asked[w].now + MaxDelay

\* Nothing that is still to come is in a stretch with u.
Past(u) == u + Window < clock + MaxDelay

\* Whatever is not past was counted by the row (current) or by the one that the row replaced at
\* the time turned, when the requests of the former window were over (former).
Counted(current, former, turned) ==
    /\ \A r \in bucket :
          /\ Total(current, Times) <= r.count /\ turned <= r.start + MaxDelay
          /\ \A u \in Times : current[u] > 0 => u < r.start + Window /\ u <= r.updated + MaxDelay
    /\ bucket = {} => current = Nothing /\ former = Nothing
    /\ Total(former, Times) <= Limit /\ turned <= clock
    /\ \A u \in Times : /\ current[u] > 0 => u <= clock
                        /\ former[u] > 0 => u < turned
                        /\ granted[u] = current[u] + former[u] \/ Past(u)

WindowInv ==
    setbacks = 0 /\ 2 * MaxDelay <= Window =>
        \E current, former \in Counts, turned \in Nat : Counted(current, former, turned)
StretchInv == setbacks = 0 => \A t \in Times : Grants(Stretch(t)) <= 2 * Limit

RateInv == RateTypes /\ CountInv /\ (setbacks = 0 => Pending) /\ WindowInv /\ StretchInv

LEMMA RateFacts ==
    /\ Limit \in Nat /\ Limit > 0 /\ Window \in Nat /\ Window > 0 /\ Retention \in Nat
    /\ MaxClock \in Nat /\ MaxDelay \in Nat /\ Window <= Retention
    /\ 2 * MaxDelay <= Window => MaxDelay < Window
    /\ 0 \in Times /\ \A t \in Times : t \in Nat
<1>1. /\ Limit \in Nat /\ Limit > 0 /\ Window \in Nat /\ Window > 0 /\ Retention \in Nat
      /\ MaxClock \in Nat /\ MaxDelay \in Nat /\ Window <= Retention
  BY RateAssumption
<1> QED BY <1>1 DEF Times

\* A step that allows nothing and keeps the row, or deletes it when it is past.
LEMMA NothingGranted ==
    ASSUME RateInv, RateTypes', granted' = granted, setbacks' = setbacks, clock' >= clock,
           setbacks = 0 => Pending',
           \/ bucket' = bucket
           \/ bucket' = {} /\ clock' = clock /\ \A r \in bucket : r.updated + Retention < clock
    PROVE  RateInv'
<1>0. /\ clock \in Nat /\ clock' \in Nat /\ bucket \subseteq BucketRows /\ granted \in Counts
      /\ CountInv /\ WindowInv /\ StretchInv
  BY RateFacts DEF RateInv, RateTypes
<1>1. \A T : Grants(T)' = Grants(T)
  BY DEF Grants
<1>2. CountInv'
  BY <1>0, <1>1 DEF CountInv
<1>3. StretchInv'
  BY <1>0, <1>1 DEF StretchInv
<1>4. WindowInv'
  <2> SUFFICES ASSUME setbacks = 0, 2 * MaxDelay <= Window
               PROVE  \E current, former \in Counts, turned \in Nat : Counted(current, former, turned)'
    BY DEF WindowInv
  <2>1. PICK current, former \in Counts, turned \in Nat : Counted(current, former, turned)
    BY <1>0 DEF WindowInv
  <2>2. \A u \in Times : Past(u) => Past(u)'
    BY <1>0, RateFacts DEF Past
  <2>3. CASE bucket' = bucket
    <3>1. turned <= clock' /\ \A u \in Times : current[u] > 0 => u <= clock'
      BY <1>0, <2>1, RateFacts DEF Counted
    <3>2. Counted(current, former, turned)'
      BY <2>1, <2>2, <2>3, <3>1 DEF Counted
    <3> QED BY <3>2
  <2>4. CASE /\ bucket' = {} /\ bucket # {} /\ clock' = clock
             /\ \A r \in bucket : r.updated + Retention < clock
    <3>1. ASSUME NEW u \in Times, granted[u] # 0
          PROVE  Past(u)
      <4>1. PICK r \in bucket : TRUE
        BY <2>4
      <4>2. r.start \in Nat /\ r.updated \in Nat /\ r.start <= r.updated
        BY <1>0, RateFacts DEF CountInv, BucketRows
      <4>3. current[u] \in Nat /\ former[u] \in Nat /\ u \in Nat
        BY RateFacts DEF Counts
      <4>4. CASE current[u] > 0
        <5>1. u <= r.updated + MaxDelay
          BY <2>1, <4>4 DEF Counted
        <5>2. r.updated + Retention < clock
          BY <2>4
        <5> QED BY <1>0, <4>2, <4>3, <5>1, <5>2, RateFacts DEF Past
      <4>5. CASE former[u] > 0
        <5>1. u < turned /\ turned <= r.start + MaxDelay
          BY <2>1, <4>5 DEF Counted
        <5>2. r.updated + Retention < clock
          BY <2>4
        <5> QED BY <1>0, <4>2, <4>3, <5>1, <5>2, RateFacts DEF Past
      <4>6. CASE current[u] = 0 /\ former[u] = 0
        BY <2>1, <3>1, <4>6 DEF Counted
      <4> QED BY <4>3, <4>4, <4>5, <4>6
    <3>2. Nothing \in Counts /\ Total(Nothing, Times) = 0 /\ \A u \in Times : Nothing[u] = 0
      BY TotalOnce DEF Nothing
    <3>3. \A u \in Times : granted'[u] = Nothing[u] + Nothing[u] \/ Past(u)'
      BY <2>2, <3>1, <3>2
    <3>4. Counted(Nothing, Nothing, 0)'
      BY <1>0, <2>4, <3>2, <3>3, RateFacts DEF Counted
    <3> QED BY <3>2, <3>4
  <2> QED BY <2>3, <2>4
<1>5. setbacks' = 0 => Pending'
  OBVIOUS
<1> QED BY <1>2, <1>3, <1>4, <1>5 DEF RateInv

\* What a transaction sees is the row, from the request on at the latest.
LEMMA AnchoredIs ==
    ASSUME RateTypes, NEW n \in Times
    PROVE  /\ \A r \in Anchored(n) : r \in BucketRows /\ \E o \in bucket :
                 /\ r.count = o.count /\ r.updated = o.updated
                 /\ r.start = IF o.start > n THEN n ELSE o.start
           /\ \A o \in bucket : \E r \in Anchored(n) : r.start = IF o.start > n THEN n ELSE o.start
<1>1. ASSUME NEW o \in bucket
      PROVE  LET r == [o EXCEPT !.start = IF @ > n THEN n ELSE @]
             IN /\ r \in Anchored(n) /\ r \in BucketRows
                /\ r.count = o.count /\ r.updated = o.updated
                /\ r.start = IF o.start > n THEN n ELSE o.start
  BY DEF Anchored, RateTypes, BucketRows
<1>2. ASSUME NEW r \in Anchored(n)
      PROVE  r \in BucketRows /\ \E o \in bucket : /\ r.count = o.count /\ r.updated = o.updated
                                                   /\ r.start = IF o.start > n THEN n ELSE o.start
  <2>1. PICK o \in bucket : r = [o EXCEPT !.start = IF @ > n THEN n ELSE @]
    BY DEF Anchored
  <2> QED BY <1>1, <2>1
<1>3. \A o \in bucket : \E r \in Anchored(n) : r.start = IF o.start > n THEN n ELSE o.start
  BY <1>1
<1> QED BY <1>2, <1>3

\* A request that is allowed is in no stretch with what is past.
LEMMA GrantStretch ==
    ASSUME RateTypes, RateTypes', CountInv', WindowInv', StretchInv, bucket' # {},
           setbacks' = setbacks, clock' = clock, NEW n \in Times,
           setbacks = 0 => clock <= n + MaxDelay,
           granted' = [granted EXCEPT ![n] = @ + 1]
    PROVE  StretchInv'
<1> SUFFICES ASSUME setbacks = 0, NEW t \in Times PROVE Grants(Stretch(t))' <= 2 * Limit
  BY DEF StretchInv
<1>0. granted \in Counts /\ granted' \in Counts /\ clock \in Nat /\ t \in Nat /\ n \in Nat
  BY RateFacts DEF RateTypes
<1>1. Grants(Stretch(t))' = Total(granted', Stretch(t)) /\ Grants(Stretch(t)) = Total(granted, Stretch(t))
  BY DEF Grants
<1>2. CASE n \notin Stretch(t)
  <2>1. Total(granted', Stretch(t)) = Total(granted, Stretch(t)) + 0
    BY <1>0, <1>2, TotalBumps
  <2>2. Total(granted, Stretch(t)) \in Nat /\ Total(granted, Stretch(t)) <= 2 * Limit
    BY <1>0, <1>1, TotalNat DEF StretchInv
  <2> QED BY <1>1, <2>1, <2>2
<1>3. CASE n \in Stretch(t)
  <2>1. n <= t /\ t + 2 * MaxDelay <= n + Window
    BY <1>0, <1>3 DEF Stretch
  <2>2. 2 * MaxDelay <= Window
    BY <1>0, <2>1, RateFacts
  <2>3. PICK current, former \in Counts, turned \in Nat : Counted(current, former, turned)'
    BY <2>2 DEF WindowInv
  <2>4. \A u \in Stretch(t) : u \in Times /\ granted'[u] = current[u] + former[u]
    <3> TAKE u \in Stretch(t)
    <3>1. u \in Times /\ u \in Nat /\ t + 2 * MaxDelay <= u + Window
      <4>1. t \in 0 .. MaxClock
        BY DEF Times
      <4> QED BY <4>1, RateFacts DEF Stretch, Times
    <3>2. ~Past(u)'
      BY <1>0, <2>1, <3>1, RateFacts DEF Past
    <3> QED BY <2>3, <3>1, <3>2 DEF Counted
  <2>5. Total(granted', Stretch(t)) = Total(current, Stretch(t)) + Total(former, Stretch(t))
    <3>1. PICK T : T = Stretch(t)
      OBVIOUS
    <3>2. PICK g \in Counts : g = granted'
      BY <1>0
    <3>3. \A u \in Times : u \in T => g[u] = current[u] + former[u]
      BY <2>4, <3>1, <3>2
    <3>4. Total(g, T) = Total(current, T) + Total(former, T)
      BY <3>3, TotalAdds
    <3> QED BY <3>1, <3>2, <3>4
  <2>6. /\ Total(current, Stretch(t)) <= Total(current, Times)
        /\ Total(former, Stretch(t)) <= Total(former, Times)
    BY <2>4, TotalGrows, \A u \in Times : current[u] <= current[u] /\ former[u] <= former[u] DEF Counts
  <2>7. PICK r \in bucket' : TRUE
    OBVIOUS
  <2>8. r.count \in Nat /\ r.count <= Limit /\ Total(current, Times) <= r.count
    BY <2>3 DEF RateTypes, BucketRows, CountInv, Counted
  <2>9. Total(former, Times) <= Limit
    BY <2>3 DEF Counted
  <2>10. /\ Total(current, Times) \in Nat /\ Total(former, Times) \in Nat
         /\ Total(current, Stretch(t)) \in Nat /\ Total(former, Stretch(t)) \in Nat
    BY TotalNat
  <2> QED BY <1>1, <2>5, <2>6, <2>8, <2>9, <2>10, RateFacts
<1> QED BY <1>2, <1>3

\* The window is over, or there is none: the row is replaced.
LEMMA NewWindow ==
    ASSUME RateInv, RateTypes', NEW n \in Times, UNCHANGED clockVars,
           setbacks = 0 => n <= clock /\ clock <= n + MaxDelay /\ Pending',
           InWindow(n) = {}, bucket' = {[start |-> n, count |-> 1, updated |-> n]},
           granted' = [granted EXCEPT ![n] = @ + 1]
    PROVE  RateInv'
<1>0. /\ RateTypes /\ CountInv /\ WindowInv /\ StretchInv /\ setbacks' = setbacks /\ clock' = clock
      /\ granted \in Counts /\ granted' \in Counts /\ clock \in Nat /\ n \in Nat
  BY RateFacts DEF RateInv, RateTypes, clockVars
<1>1. PICK s : s = [start |-> n, count |-> 1, updated |-> n]
  OBVIOUS
<1>2. bucket' = {s} /\ s.start = n /\ s.count = 1 /\ s.updated = n
  BY <1>1
<1>3. CountInv'
  <2> DEFINE T == {u \in Times : s.start <= u}
  <2>1. n \in T
    BY <1>0, <1>2
  <2>2. Total(granted', T) = Total(granted, T) + 1 /\ Total(granted, T) \in Nat
    <3> HIDE DEF T
    <3> QED BY <1>0, <2>1, TotalBumps, TotalNat
  <2>3. Grants(T)' = Total(granted', T)
    BY DEF Grants
  <2>4. s.count <= Limit /\ s.start <= s.updated /\ s.count <= Grants(T)'
    BY <1>0, <1>2, <2>2, <2>3, RateFacts
  <2> QED BY <1>2, <2>4 DEF CountInv
<1>4. WindowInv'
  <2> SUFFICES ASSUME setbacks = 0, 2 * MaxDelay <= Window
               PROVE  \E current, former \in Counts, turned \in Nat : Counted(current, former, turned)'
    BY <1>0 DEF WindowInv
  <2>1. PICK current, former \in Counts, turned \in Nat : Counted(current, former, turned)
    BY <1>0 DEF WindowInv
  <2>2. /\ Once(n) \in Counts /\ Total(Once(n), Times) = 1
        /\ \A u \in Times : Once(n)[u] = IF u = n THEN 1 ELSE 0
        /\ Nothing \in Counts /\ Total(Nothing, Times) = 0 /\ \A u \in Times : Nothing[u] = 0
    BY TotalOnce DEF Once, Nothing
  <2>3. \A u \in Times : Past(u)' <=> Past(u)
    BY <1>0 DEF Past
  <2>4. \A u \in Times : /\ granted'[u] = granted[u] + Once(n)[u]
                         /\ granted[u] \in Nat /\ Once(n)[u] \in Nat /\ u \in Nat
                         /\ current[u] \in Nat /\ former[u] \in Nat
    BY <1>0, <2>2, RateFacts DEF Counts
  <2>5. \A u \in Times : Once(n)[u] > 0 => u = n
    BY <2>2
  <2>6. CASE bucket = {}
    <3>1. \A u \in Times : granted'[u] = Once(n)[u] + Nothing[u] \/ Past(u)'
      BY <2>1, <2>2, <2>3, <2>4, <2>6 DEF Counted
    <3>2. Counted(Once(n), Nothing, 0)'
      BY <1>0, <1>2, <2>2, <2>5, <3>1, RateFacts DEF Counted
    <3> QED BY <2>2, <3>2
  <2>7. CASE bucket # {}
    <3>1. PICK o \in bucket : TRUE
      BY <2>7
    <3>2. /\ o.start \in Nat /\ o.count \in Nat /\ o.count <= Limit
          /\ Total(current, Times) <= o.count /\ turned <= o.start + MaxDelay
          /\ \A u \in Times : current[u] > 0 => u < o.start + Window
      BY <1>0, <2>1, RateFacts DEF RateTypes, BucketRows, CountInv, Counted
    <3>3. o.start + Window <= n
      <4>1. PICK r \in Anchored(n) : r.start = IF o.start > n THEN n ELSE o.start
        BY <1>0, AnchoredIs
      <4>2. ~(n < r.start + Window)
        BY <4>1 DEF InWindow
      <4> QED BY <1>0, <3>2, <4>1, <4>2, RateFacts
    <3>4. \A u \in Times : current[u] > 0 => u < n
      BY <1>0, <2>4, <3>2, <3>3, RateFacts
    <3>5. \A u \in Times : former[u] > 0 => Past(u)
      <4> TAKE u \in Times
      <4> HAVE former[u] > 0
      <4>1. u < turned
        BY <2>1 DEF Counted
      <4> QED BY <1>0, <2>4, <3>2, <3>3, <4>1, RateFacts DEF Past
    <3>6. \A u \in Times : granted'[u] = Once(n)[u] + current[u] \/ Past(u)'
      <4> TAKE u \in Times
      <4> SUFFICES ASSUME ~Past(u) PROVE granted'[u] = Once(n)[u] + current[u]
        BY <2>3
      <4>1. former[u] = 0
        BY <2>4, <3>5
      <4>2. granted[u] = current[u] + former[u]
        BY <2>1 DEF Counted
      <4> QED BY <2>4, <4>1, <4>2
    <3>7. Total(current, Times) <= Limit
      BY <3>2, TotalNat, RateFacts
    <3>8. Counted(Once(n), current, n)'
      BY <1>0, <1>2, <2>2, <2>5, <3>4, <3>6, <3>7, RateFacts DEF Counted
    <3> QED BY <1>0, <2>2, <3>8
  <2> QED BY <2>6, <2>7
<1>5. StretchInv'
  BY <1>0, <1>2, <1>3, <1>4, GrantStretch
<1> QED BY <1>0, <1>3, <1>4, <1>5 DEF RateInv

\* Within the window: the row is moved back to the request, if that is earlier.
LEMMA MovedBack ==
    ASSUME RateInv, NEW n \in Times, NEW r \in InWindow(n)
    PROVE  \E o \in bucket :
              /\ r \in BucketRows /\ o \in BucketRows /\ r.count = o.count /\ o.count <= Limit
              /\ r.start \in Nat /\ o.start \in Nat /\ r.start <= o.start /\ r.start <= n
              /\ r.start = o.start \/ r.start = n
              /\ n < r.start + Window
              /\ r.count <= Grants({u \in Times : r.start <= u})
<1>0. RateTypes /\ CountInv /\ granted \in Counts /\ n \in Nat
  BY RateFacts DEF RateInv, RateTypes
<1>1. r \in Anchored(n) /\ n < r.start + Window
  BY DEF InWindow
<1>2. PICK o \in bucket : /\ r \in BucketRows /\ r.count = o.count
                          /\ r.start = IF o.start > n THEN n ELSE o.start
  BY <1>0, <1>1, AnchoredIs
<1>3. o \in BucketRows /\ o.start \in Nat /\ r.start \in Nat /\ o.count \in Nat
  BY <1>0, <1>2, RateFacts DEF RateTypes, BucketRows
<1>4. r.start <= o.start /\ r.start <= n /\ (r.start = o.start \/ r.start = n)
  BY <1>0, <1>2, <1>3
<1>5. o.count <= Limit /\ o.count <= Grants({u \in Times : o.start <= u})
  BY <1>0 DEF CountInv
<1>6. Grants({u \in Times : o.start <= u}) <= Grants({u \in Times : r.start <= u})
  <2>1. \A u \in Times : u \in {v \in Times : o.start <= v} =>
            u \in {v \in Times : r.start <= v} /\ granted[u] <= granted[u]
    BY <1>0, <1>3, <1>4, RateFacts DEF Counts
  <2> QED BY <1>0, <2>1, TotalGrows DEF Grants
<1>7. /\ Grants({u \in Times : o.start <= u}) \in Nat
      /\ Grants({u \in Times : r.start <= u}) \in Nat
  BY <1>0, TotalNat DEF Grants
<1>8. r.count <= Grants({u \in Times : r.start <= u})
  BY <1>2, <1>3, <1>5, <1>6, <1>7
<1> QED BY <1>1, <1>2, <1>3, <1>4, <1>5, <1>8

\* The requests the row counted stay in its window when it is moved back: they came no later
\* than a delay after the request that moves it.
LEMMA StillInWindow ==
    ASSUME RateInv, NEW n \in Times, n <= clock, clock <= n + MaxDelay, 2 * MaxDelay <= Window,
           NEW r \in InWindow(n), NEW current \in Counts, NEW former \in Counts, NEW turned \in Nat,
           Counted(current, former, turned)
    PROVE  /\ Total(current, Times) <= r.count /\ turned <= r.start + MaxDelay
           /\ \A u \in Times : current[u] > 0 => u < r.start + Window /\ u <= n + MaxDelay
<1>1. PICK o \in bucket : /\ r.count = o.count /\ r.start \in Nat /\ o.start \in Nat
                          /\ r.start = o.start \/ r.start = n
  BY MovedBack
<1>2. clock \in Nat /\ n \in Nat /\ \A u \in Times : u \in Nat
  BY RateFacts DEF RateInv, RateTypes
<1>3. /\ Total(current, Times) <= o.count /\ turned <= o.start + MaxDelay /\ turned <= clock
      /\ \A u \in Times : current[u] > 0 => u < o.start + Window /\ u <= clock
  BY DEF Counted
<1>4. turned <= r.start + MaxDelay
  BY <1>1, <1>2, <1>3, RateFacts
<1>5. ASSUME NEW u \in Times, current[u] > 0
      PROVE  u < r.start + Window /\ u <= n + MaxDelay
  <2>1. u \in Nat /\ u < o.start + Window /\ u <= clock
    BY <1>2, <1>3, <1>5
  <2> QED BY <1>1, <1>2, <2>1, RateFacts
<1> QED BY <1>1, <1>3, <1>4, <1>5

LEMMA RefusedInWindow ==
    ASSUME RateInv, RateTypes', NEW n \in Times, UNCHANGED clockVars,
           setbacks = 0 => n <= clock /\ clock <= n + MaxDelay /\ Pending',
           NEW r \in InWindow(n), bucket' = {[r EXCEPT !.updated = n]}, granted' = granted
    PROVE  RateInv'
<1>0. /\ RateTypes /\ CountInv /\ WindowInv /\ StretchInv /\ setbacks' = setbacks /\ clock' = clock
      /\ granted \in Counts /\ clock \in Nat /\ n \in Nat
  BY RateFacts DEF RateInv, RateTypes, clockVars
<1>1. PICK o \in bucket : /\ r \in BucketRows /\ r.count = o.count /\ o.count <= Limit
                          /\ r.start \in Nat /\ r.start <= n
                          /\ r.count <= Grants({u \in Times : r.start <= u})
  BY MovedBack
<1>2. PICK s : s = [r EXCEPT !.updated = n]
  OBVIOUS
<1>3. bucket' = {s} /\ s.start = r.start /\ s.count = r.count /\ s.updated = n
  BY <1>1, <1>2 DEF BucketRows
<1>4. \A T : Grants(T)' = Grants(T)
  BY DEF Grants
<1>5. CountInv'
  BY <1>1, <1>3, <1>4 DEF CountInv
<1>6. StretchInv'
  BY <1>0, <1>4 DEF StretchInv
<1>7. WindowInv'
  <2> SUFFICES ASSUME setbacks = 0, 2 * MaxDelay <= Window
               PROVE  \E current, former \in Counts, turned \in Nat : Counted(current, former, turned)'
    BY <1>0 DEF WindowInv
  <2>1. PICK current, former \in Counts, turned \in Nat : Counted(current, former, turned)
    BY <1>0 DEF WindowInv
  <2>2. /\ Total(current, Times) <= r.count /\ turned <= r.start + MaxDelay
        /\ \A u \in Times : current[u] > 0 => u < r.start + Window /\ u <= n + MaxDelay
    BY <2>1, StillInWindow
  <2>3. \A u \in Times : Past(u)' <=> Past(u)
    BY <1>0 DEF Past
  <2>4. Counted(current, former, turned)'
    BY <1>0, <1>3, <2>1, <2>2, <2>3 DEF Counted
  <2> QED BY <2>4
<1> QED BY <1>0, <1>5, <1>6, <1>7 DEF RateInv

LEMMA AllowedInWindow ==
    ASSUME RateInv, RateTypes', NEW n \in Times, UNCHANGED clockVars,
           setbacks = 0 => n <= clock /\ clock <= n + MaxDelay /\ Pending',
           NEW r \in InWindow(n), r.count < Limit,
           bucket' = {[r EXCEPT !.count = @ + 1, !.updated = n]},
           granted' = [granted EXCEPT ![n] = @ + 1]
    PROVE  RateInv'
<1>0. /\ RateTypes /\ CountInv /\ WindowInv /\ StretchInv /\ setbacks' = setbacks /\ clock' = clock
      /\ granted \in Counts /\ granted' \in Counts /\ clock \in Nat /\ n \in Nat
  BY RateFacts DEF RateInv, RateTypes, clockVars
<1>1. PICK o \in bucket : /\ r \in BucketRows /\ r.count = o.count
                          /\ r.start \in Nat /\ r.start <= n /\ n < r.start + Window
                          /\ r.count <= Grants({u \in Times : r.start <= u})
  BY MovedBack
<1>2. PICK s : s = [r EXCEPT !.count = @ + 1, !.updated = n]
  OBVIOUS
<1>3. bucket' = {s} /\ s.start = r.start /\ s.count = r.count + 1 /\ s.updated = n /\ r.count \in Nat
  BY <1>1, <1>2 DEF BucketRows
<1>4. CountInv'
  <2> DEFINE T == {u \in Times : s.start <= u}
  <2>1. n \in T /\ r.count <= Grants(T)
    BY <1>1, <1>3
  <2>2. Total(granted', T) = Total(granted, T) + 1 /\ Total(granted, T) \in Nat
    <3> HIDE DEF T
    <3> QED BY <1>0, <2>1, TotalBumps, TotalNat
  <2>3. Grants(T)' = Total(granted', T) /\ Grants(T) = Total(granted, T)
    BY DEF Grants
  <2>4. s.count <= Limit /\ s.start <= s.updated /\ s.count <= Grants(T)'
    BY <1>1, <1>3, <2>1, <2>2, <2>3, RateFacts
  <2> QED BY <1>3, <2>4 DEF CountInv
<1>5. WindowInv'
  <2> SUFFICES ASSUME setbacks = 0, 2 * MaxDelay <= Window
               PROVE  \E current, former \in Counts, turned \in Nat : Counted(current, former, turned)'
    BY <1>0 DEF WindowInv
  <2>1. PICK current, former \in Counts, turned \in Nat : Counted(current, former, turned)
    BY <1>0 DEF WindowInv
  <2>2. /\ Total(current, Times) <= r.count /\ turned <= r.start + MaxDelay
        /\ \A u \in Times : current[u] > 0 => u < r.start + Window /\ u <= n + MaxDelay
    BY <2>1, StillInWindow
  <2>3. PICK more : more = [current EXCEPT ![n] = @ + 1]
    OBVIOUS
  <2>4. more \in Counts /\ Total(more, Times) = Total(current, Times) + 1 /\ Total(current, Times) \in Nat
    BY <2>3, TotalBumps, TotalNat
  <2>5. \A u \in Times : /\ more[u] = IF u = n THEN current[u] + 1 ELSE current[u]
                         /\ granted'[u] = IF u = n THEN granted[u] + 1 ELSE granted[u]
                         /\ granted[u] \in Nat /\ current[u] \in Nat /\ former[u] \in Nat /\ u \in Nat
    BY <1>0, <2>3, RateFacts DEF Counts
  <2>6. \A u \in Times : Past(u)' <=> Past(u)
    BY <1>0 DEF Past
  <2>7. \A u \in Times : more[u] > 0 =>
            u <= clock /\ u < s.start + Window /\ u <= s.updated + MaxDelay
    <3> TAKE u \in Times
    <3> HAVE more[u] > 0
    <3>1. CASE u = n
      BY <1>0, <1>1, <1>3, <3>1, RateFacts
    <3>2. CASE u # n
      <4>1. current[u] > 0
        BY <2>5, <3>2
      <4> QED BY <1>3, <2>1, <2>2, <4>1 DEF Counted
    <3> QED BY <3>1, <3>2
  <2>8. \A u \in Times : granted'[u] = more[u] + former[u] \/ Past(u)'
    <3> TAKE u \in Times
    <3>1. granted[u] = current[u] + former[u] \/ Past(u)
      BY <2>1 DEF Counted
    <3> QED BY <2>5, <2>6, <3>1
  <2>9. Total(more, Times) <= s.count
    BY <1>3, <2>2, <2>4
  <2>10. Counted(more, former, turned)'
    BY <1>0, <1>3, <2>1, <2>2, <2>7, <2>8, <2>9 DEF Counted
  <2> QED BY <2>4, <2>10
<1>6. StretchInv'
  BY <1>0, <1>3, <1>4, <1>5, GrantStretch
<1> QED BY <1>0, <1>4, <1>5, <1>6 DEF RateInv

LEMMA ConsumeInv == ASSUME RateInv, NEW w \in Workers, Consume(w) PROVE RateInv'
<1>1. PICK n : n = asked[w].now
  OBVIOUS
<1>2. /\ asked[w].at = "write" /\ asked' = [asked EXCEPT ![w] = Quiet] /\ UNCHANGED clockVars
      /\ \/ /\ InWindow(n) = {}
            /\ bucket' = {[start |-> n, count |-> 1, updated |-> n]}
            /\ granted' = [granted EXCEPT ![n] = @ + 1]
         \/ \E r \in InWindow(n) : bucket' = {[r EXCEPT !.updated = n]} /\ granted' = granted
         \/ \E r \in InWindow(n) : /\ r.count < Limit
                                   /\ bucket' = {[r EXCEPT !.count = @ + 1, !.updated = n]}
                                   /\ granted' = [granted EXCEPT ![n] = @ + 1]
  BY <1>1 DEF Consume
<1>3. RateTypes /\ n \in Times /\ (setbacks = 0 => Pending)
  BY <1>1 DEF RateInv, RateTypes
<1>4. asked' \in [Workers -> [at : {"idle", "read", "write"}, now : Times]]
      /\ \A v \in Workers : asked'[v] = IF v = w THEN Quiet ELSE asked[v]
  BY <1>2, <1>3, RateFacts DEF RateTypes, Quiet
<1>5. setbacks = 0 => n <= clock /\ clock <= n + MaxDelay /\ Pending'
  BY <1>1, <1>2, <1>3, <1>4 DEF Pending, clockVars, Quiet
<1>6. clock' \in Times /\ setbacks' \in Nat
  BY <1>2, <1>3 DEF clockVars, RateTypes
<1>7. CASE /\ InWindow(n) = {}
           /\ bucket' = {[start |-> n, count |-> 1, updated |-> n]}
           /\ granted' = [granted EXCEPT ![n] = @ + 1]
  <2>1. granted' \in Counts
    BY <1>3, <1>7, TotalBumps DEF RateTypes
  <2>2. bucket' \subseteq BucketRows /\ \A r, o \in bucket' : r = o
    BY <1>3, <1>7 DEF BucketRows
  <2>3. RateTypes'
    BY <1>4, <1>6, <2>1, <2>2 DEF RateTypes
  <2> QED BY <1>2, <1>3, <1>5, <1>7, <2>3, NewWindow
<1>8. ASSUME NEW r \in InWindow(n), bucket' = {[r EXCEPT !.updated = n]}, granted' = granted
      PROVE  RateInv'
  <2>1. r \in BucketRows
    BY <1>3, MovedBack
  <2>2. RateTypes'
    BY <1>3, <1>4, <1>6, <1>8, <2>1 DEF RateTypes, BucketRows
  <2> QED BY <1>2, <1>3, <1>5, <1>8, <2>2, RefusedInWindow
<1>9. ASSUME NEW r \in InWindow(n), r.count < Limit,
             bucket' = {[r EXCEPT !.count = @ + 1, !.updated = n]},
             granted' = [granted EXCEPT ![n] = @ + 1]
      PROVE  RateInv'
  <2>1. r \in BucketRows
    BY <1>3, MovedBack
  <2>2. granted' \in Counts
    BY <1>3, <1>9, TotalBumps DEF RateTypes
  <2>3. bucket' \subseteq BucketRows /\ \A s, o \in bucket' : s = o
    <3>1. PICK k \in Nat : k = r.count + 1
      BY <2>1 DEF BucketRows
    <3>2. [r EXCEPT !.count = k, !.updated = n] \in BucketRows
      BY <1>3, <2>1 DEF BucketRows
    <3> QED BY <1>9, <3>1, <3>2
  <2>4. RateTypes'
    BY <1>4, <1>6, <2>2, <2>3 DEF RateTypes
  <2> QED BY <1>2, <1>3, <1>5, <1>9, <2>4, AllowedInWindow
<1> QED BY <1>2, <1>7, <1>8, <1>9

LEMMA RateInitInv == RateInit => RateInv
<1> SUFFICES ASSUME RateInit PROVE RateInv
  OBVIOUS
<1>1. /\ clock = 0 /\ setbacks = 0 /\ bucket = {} /\ asked = [w \in Workers |-> Quiet]
      /\ granted = Nothing
  BY DEF RateInit, Nothing, Times
<1>2. RateTypes
  BY <1>1, TotalOnce, RateFacts DEF RateTypes, Quiet
<1>3. CountInv /\ Pending
  BY <1>1 DEF CountInv, Pending, Quiet
<1>4. WindowInv
  <2>1. Nothing \in Counts /\ Total(Nothing, Times) = 0 /\ \A u \in Times : Nothing[u] = 0
    BY TotalOnce DEF Nothing
  <2>2. Counted(Nothing, Nothing, 0)
    BY <1>1, <2>1, RateFacts DEF Counted
  <2> QED BY <2>1, <2>2 DEF WindowInv
<1>5. StretchInv
  BY <1>1, TotalOnce, RateFacts DEF StretchInv, Grants
<1> QED BY <1>2, <1>3, <1>4, <1>5 DEF RateInv

LEMMA ArriveInv == ASSUME RateInv, NEW w \in Workers, Arrive(w) PROVE RateInv'
<1>1. /\ asked' = [asked EXCEPT ![w] = [at |-> "read", now |-> clock]] /\ UNCHANGED <<clock, setbacks, granted>>
      /\ bucket' = bucket \/ bucket' = {r \in bucket : r.updated + Retention >= clock}
  BY DEF Arrive, clockVars
<1>2. RateTypes /\ (setbacks = 0 => Pending) /\ clock \in Nat
  BY RateFacts DEF RateInv, RateTypes
<1>3. /\ asked' \in [Workers -> [at : {"idle", "read", "write"}, now : Times]]
      /\ \A v \in Workers : asked'[v] = IF v = w THEN [at |-> "read", now |-> clock] ELSE asked[v]
  BY <1>1, <1>2 DEF RateTypes
<1>4. setbacks = 0 => Pending'
  BY <1>1, <1>2, <1>3, RateFacts DEF Pending
<1>5. RateTypes'
  BY <1>1, <1>2, <1>3 DEF RateTypes
<1>6. \/ bucket' = bucket
      \/ bucket' = {} /\ \A r \in bucket : r.updated + Retention < clock
  <2>1. \A r \in bucket : r.updated \in Nat
    BY <1>2, RateFacts DEF RateTypes, BucketRows
  <2>2. CASE \E r \in bucket : r.updated + Retention >= clock
    BY <1>1, <1>2, <2>2 DEF RateTypes
  <2>3. CASE \A r \in bucket : ~(r.updated + Retention >= clock)
    BY <1>1, <1>2, <2>1, <2>3, RateFacts
  <2> QED BY <2>2, <2>3
<1> QED BY <1>1, <1>2, <1>4, <1>5, <1>6, NothingGranted

LEMMA LookInv == ASSUME RateInv, NEW w \in Workers, Look(w) PROVE RateInv'
<1>1. /\ asked' = [asked EXCEPT ![w] = IF FastDenial(w) THEN Quiet ELSE [@ EXCEPT !.at = "write"]]
      /\ asked[w].at = "read" /\ UNCHANGED <<clock, setbacks, bucket, granted>>
  BY DEF Look, clockVars
<1>2. RateTypes /\ (setbacks = 0 => Pending) /\ clock \in Nat
  BY RateFacts DEF RateInv, RateTypes
<1>3. PICK q : q = IF FastDenial(w) THEN Quiet ELSE [asked[w] EXCEPT !.at = "write"]
  OBVIOUS
<1>4. q \in [at : {"idle", "read", "write"}, now : Times] /\ (q.at # "idle" => q.now = asked[w].now)
  <2>1. asked[w] \in [at : {"idle", "read", "write"}, now : Times]
    BY <1>2 DEF RateTypes
  <2> QED BY <1>3, <2>1, RateFacts DEF Quiet
<1>5. /\ asked' \in [Workers -> [at : {"idle", "read", "write"}, now : Times]]
      /\ \A v \in Workers : asked'[v] = IF v = w THEN q ELSE asked[v]
  BY <1>1, <1>2, <1>3, <1>4 DEF RateTypes
<1>6. setbacks = 0 => Pending'
  BY <1>1, <1>2, <1>4, <1>5 DEF Pending
<1>7. RateTypes'
  BY <1>1, <1>2, <1>5 DEF RateTypes
<1> QED BY <1>1, <1>2, <1>6, <1>7, NothingGranted

LEMMA ClockInv == ASSUME RateInv, Tick \/ SetBack PROVE RateInv'
<1>0. RateTypes /\ (setbacks = 0 => Pending) /\ CountInv /\ clock \in Nat /\ setbacks \in Nat
  BY RateFacts DEF RateInv, RateTypes
<1>1. CASE Tick
  <2>1. /\ clock' \in (clock + 1) .. MaxClock /\ UNCHANGED <<setbacks, bucket, asked, granted>>
        /\ \A w \in Workers : asked[w].at = "idle" \/ clock' <= asked[w].now + MaxDelay
    BY <1>1 DEF Tick, limitVars
  <2>2. clock' \in Times /\ clock' >= clock /\ clock' \in Nat
    BY <1>0, <2>1, RateFacts DEF Times
  <2>3. RateTypes'
    BY <1>0, <2>1, <2>2 DEF RateTypes
  <2>4. setbacks = 0 => Pending'
    <3> SUFFICES ASSUME Pending PROVE Pending'
      BY <1>0
    <3>1. \A w \in Workers : asked[w].now \in Nat
      BY <1>0, RateFacts DEF RateTypes
    <3> QED BY <1>0, <2>1, <2>2, <3>1 DEF Pending
  <2> QED BY <1>0, <2>1, <2>2, <2>3, <2>4, NothingGranted
<1>2. CASE SetBack
  <2>1. /\ clock' \in 0 .. (clock - 1) /\ setbacks' = setbacks + 1
        /\ UNCHANGED <<bucket, asked, granted>>
    BY <1>2 DEF SetBack, limitVars
  <2>2. clock' \in Times
    BY <1>0, <2>1, RateFacts DEF Times, RateTypes
  <2>3. RateTypes'
    BY <1>0, <2>1, <2>2 DEF RateTypes
  <2>4. CountInv'
    BY <1>0, <2>1 DEF CountInv, Grants
  <2>5. setbacks' # 0
    BY <1>0, <2>1
  <2> QED BY <2>3, <2>4, <2>5 DEF RateInv, WindowInv, StretchInv
<1> QED BY <1>1, <1>2

LEMMA RateStepInv == ASSUME RateInv, RateStep \/ UNCHANGED rateVars PROVE RateInv'
<1>1. CASE RateStep
  BY <1>1, ArriveInv, LookInv, ConsumeInv, ClockInv DEF RateStep
<1>2. CASE UNCHANGED rateVars
  <2>1. UNCHANGED <<clock, setbacks, bucket, asked, granted>>
    BY <1>2 DEF rateVars
  <2>2. RateTypes' /\ (setbacks = 0 => Pending') /\ clock \in Nat
    BY <2>1, RateFacts DEF RateInv, RateTypes, Pending
  <2> QED BY <2>1, <2>2, NothingGranted
<1> QED BY <1>1, <1>2

\* A refused request found a row that had used up the limit since its window began.
LEMMA RefusalsAreDue ==
    ASSUME RateInv, RateStep, NEW w \in Workers, Refused(w)
    PROVE  Grants(After(asked[w].now)) >= Limit
<1>0. /\ RateTypes /\ CountInv /\ granted \in Counts /\ asked[w].at # "idle" /\ asked'[w].at = "idle"
      /\ granted' = granted
  BY DEF RateInv, RateTypes, Refused
<1>1. PICK n \in Times : n = asked[w].now
  BY <1>0 DEF RateTypes
<1>2. \/ \E r \in bucket : r.start <= n /\ n < r.start + Window /\ r.count >= Limit
      \/ \E r \in InWindow(n) : r.count >= Limit
  <2>1. CASE \E v \in Workers : Look(v)
    <3>1. PICK v \in Workers : Look(v)
      BY <2>1
    <3>2. asked' = [asked EXCEPT ![v] = IF FastDenial(v) THEN Quiet ELSE [@ EXCEPT !.at = "write"]]
      BY <3>1 DEF Look
    <3>3. v = w /\ FastDenial(w)
      BY <1>0, <3>2 DEF RateTypes
    <3> QED BY <1>1, <3>3 DEF FastDenial
  <2>2. CASE \E v \in Workers : Consume(v)
    <3>1. PICK v \in Workers : Consume(v)
      BY <2>2
    <3>2. v = w
      <4>1. asked' = [asked EXCEPT ![v] = Quiet]
        BY <3>1 DEF Consume
      <4> QED BY <1>0, <4>1 DEF RateTypes
    <3>3. granted' # [granted EXCEPT ![n] = @ + 1]
      BY <1>0, <1>1, RateFacts DEF Counts
    <3> QED BY <1>1, <3>1, <3>2, <3>3 DEF Consume
  <2>3. CASE \E v \in Workers : Arrive(v)
    <3>1. PICK v \in Workers : asked' = [asked EXCEPT ![v] = [at |-> "read", now |-> clock]]
      BY <2>3 DEF Arrive
    <3> QED BY <1>0, <3>1 DEF RateTypes
  <2>4. CASE Tick \/ SetBack
    BY <1>0, <2>4 DEF Tick, SetBack, limitVars
  <2> QED BY <2>1, <2>2, <2>3, <2>4 DEF RateStep
<1>3. PICK r \in BucketRows : /\ n < r.start + Window /\ r.count >= Limit
                              /\ r.count <= Grants({u \in Times : r.start <= u})
  <2>1. CASE \E r \in bucket : r.start <= n /\ n < r.start + Window /\ r.count >= Limit
    BY <1>0, <2>1 DEF CountInv, RateTypes
  <2>2. CASE \E r \in InWindow(n) : r.count >= Limit
    BY <2>2, MovedBack DEF InWindow
  <2> QED BY <1>2, <2>1, <2>2
<1>4. Grants({u \in Times : r.start <= u}) <= Grants(After(n))
  <2>1. \A u \in Times : u \in {v \in Times : r.start <= v} => u \in After(n) /\ granted[u] <= granted[u]
    <3> TAKE u \in Times
    <3> HAVE u \in {v \in Times : r.start <= v}
    <3>1. r.start \in Nat /\ u \in Nat /\ n \in Nat /\ r.start <= u /\ granted[u] \in Nat
      BY <1>0, RateFacts DEF BucketRows, Counts
    <3> QED BY <1>3, <3>1, RateFacts DEF After, Times
  <2> QED BY <1>0, <2>1, TotalGrows DEF Grants
<1>5. /\ Grants({u \in Times : r.start <= u}) \in Nat /\ Grants(After(n)) \in Nat /\ r.count \in Nat
  BY <1>0, TotalNat DEF Grants, BucketRows
<1> QED BY <1>1, <1>3, <1>4, <1>5, RateFacts

\* However many workers count in the row, however late and in whatever order, and whatever the
\* maintenance deletes: two windows' worth of requests at most in a stretch of a window less
\* two delays, and no refusal before the limit was used up.
\* (store.consume_rate_limit, maintained_consume_rate_limit)
THEOREM LimitKept == Spec => LimitIsKept
<1>1. Init => RateInv
  BY RateInitInv DEF Init
<1>2. ASSUME RateInv, [Next]_vars PROVE RateInv' /\ (RateStep \/ UNCHANGED rateVars)
  <2>1. RateStep \/ UNCHANGED rateVars
    BY <1>2 DEF Next, vars, TaskStep, Resolve, Accept, Pool, Perceive, Run, Keep, Publish, Fail,
                Recover, Crash, Misread, Import, Requests, Files
  <2> QED BY <1>2, <2>1, RateStepInv
<1>3. RateInv => (setbacks = 0 => \A t \in 0 .. MaxClock : Grants(Stretch(t)) <= 2 * Limit)
  BY DEF RateInv, StretchInv, Times
<1>4. ASSUME RateInv, RateStep \/ UNCHANGED rateVars
      PROVE  [\A w \in Workers : Refused(w) => Grants(After(asked[w].now)) >= Limit]_rateVars
  BY <1>4, RefusalsAreDue
<1> QED BY <1>1, <1>2, <1>3, <1>4, PTL DEF Spec, LimitIsKept
=============================================================================
