---------------------------- MODULE ExperimentControl ----------------------------
(***************************************************************************)
(* The routes of an online experiment: the transactions of OnlineExperiment *)
(* with the event each of them logs, and the reads of dashboards and        *)
(* traffic controllers, which hold no transaction across their SELECTs.     *)
(* The verdict of a metric is Decision of ConfidenceSequences.              *)
(*                                                                          *)
(* A refused request (429, 404, 409, 400) changes nothing and is a stutter; *)
(* a creation and an applied recommendation answer with the reads of        *)
(* get_experiment after their commit, like any other reader.                *)
(*                                                                          *)
(* Definitions commented "Mutant" are plausible bugs in the definition that *)
(* follows; nothing uses them but the sanity check of the properties.       *)
(***************************************************************************)
EXTENDS OnlineExperiment, ConfidenceSequences

CONSTANTS
    Readers,        \* threads that serve the reads
    PageLimit       \* limit of the event listing

VARIABLES
    log,            \* online_experiment_events, oldest first
    requests,       \* what the SELECTs of each reader's request returned so far
    answer          \* the answer of the last step, if it gave one

controlVars == <<registryVars, log, requests, answer>>

EventTypes == {"experiment_created", "observations_ingested", "ramp_advanced",
               "rollback_marked", "promotion_review_marked"}
Event  == [version : Nat, type : EventTypes, inserted : Nat]
Idle   == [step |-> "idle"]
Silent == [kind |-> "none"]

Ordered == \A k \in DOMAIN Fraction : k > 1 =>
               /\ AtMost(Fraction[k - 1], Fraction[k]) /\ ~AtMost(Fraction[k], Fraction[k - 1])
\* OnlineExperimentSpec: stages with growing candidate fractions, decision metrics of one
\* kind and the two alphas.
ExperimentSpec ==
    /\ DOMAIN Fraction = 1 .. Stages /\ DOMAIN MinUnits = 1 .. Stages
    /\ \A k \in 1 .. Stages : Fraction[k].num \in 1 .. (Fraction[k].den - 1) /\ MinUnits[k] >= 2
    /\ Ordered
    /\ DOMAIN Contract = Metrics /\ MinSamples >= 1
    /\ SrmAlpha.num \in 1 .. (SrmAlpha.den - 1)

ASSUME ExperimentAssumption == ExperimentSpec
ASSUME PageAssumption == PageLimit \in Nat \ {0}

ControlInit ==
    RegistryInit /\ log = <<>> /\ requests = [r \in Readers |-> Idle] /\ answer = Silent

-----------------------------------------------------------------------------
(* The transactions and their events.                                       *)

\* DurableOnlineExperimentStore._event, in the transaction that makes the new version.
Logged(type) ==
    log' = IF version' = version THEN log
           ELSE Append(log, [version |-> version', type |-> type,
                             inserted |-> Cardinality(UnitsOf(obs)') - Cardinality(UnitsOf(obs))])

PostExperiment(e)     == CreateExperiment(e) /\ Logged("experiment_created")
PostObservations(B)   == Ingest(B) /\ Logged("observations_ingested")
PostRecommendation(c) ==
    \/ \E e \in EpochIds : Advance(c, e) /\ Logged("ramp_advanced")
    \/ MarkRollback(c) /\ Logged("rollback_marked")
    \/ MarkPromotion(c) /\ Logged("promotion_review_marked")

-----------------------------------------------------------------------------
(* The reads.                                                               *)

\* evaluate_online_experiment validates the history before it looks at it; _validate_and_order
\* walks the rows in assignment order.
Evaluable ==
    /\ \A o, p \in obs : o.unit = p.unit \/ o.seq = p.seq => o = p
    /\ \A k, l \in DOMAIN epochs : epochs[k] = epochs[l] => k = l
    /\ Len(epochs) <= Stages
    /\ \A o \in obs : o.epoch \in EpochSet /\ o.arm \in Arms
    /\ \A o, p \in obs : o.seq < p.seq =>
          \A k, l \in DOMAIN epochs : o.epoch = epochs[k] /\ p.epoch = epochs[l] => k <= l

Row == [version |-> version, status |-> status, current |-> Current]

\* get_experiment, first SELECT: the row of the experiment.
ReadRow(r) ==
    /\ status # "none" /\ requests[r] = Idle
    /\ requests' = [requests EXCEPT ![r] = [step |-> "row", row |-> Row]]
    /\ answer' = Silent
\* Second SELECT: its epochs.
ReadEpochs(r) ==
    /\ requests[r].step = "row"
    /\ requests' = [requests EXCEPT ![r] =
           [step |-> "epochs", row |-> requests[r].row, epochs |-> epochs]]
    /\ answer' = Silent
\* Third SELECT: the number of its observations; and the answer.
ReadCount(r) ==
    /\ requests[r].step = "epochs"
    /\ requests' = [requests EXCEPT ![r] = Idle]
    /\ answer' = [kind |-> "experiment", row |-> requests[r].row, epochs |-> requests[r].epochs,
                  count |-> Cardinality(UnitsOf(obs))]

\* list_experiments as store_online_experiment_listing installs it: row and count in one SELECT.
ListExperiments ==
    answer' = [kind |-> "list", row |-> Row, count |-> Cardinality(UnitsOf(obs))]

\* The newest events, oldest first.
GetEvents ==
    answer' = [kind |-> "events",
               page |-> SubSeq(log, IF Len(log) > PageLimit THEN Len(log) - PageLimit + 1 ELSE 1,
                               Len(log))]

\* Mutant: the last of the epochs instead of the one the row names.
StageOfLast(q) == {Len(q.epochs)}
\* The stage of the epoch the row names, of those the later SELECT returned.
StageOf(q) == {k \in DOMAIN q.epochs : q.epochs[k] = q.row.current}

\* traffic_directive, from the same reads: the recommended fraction of candidate traffic.
Directed(q) ==
    {IF q.row.status = "rollback_required" THEN Frac(0, 1) ELSE Fraction[k] : k \in StageOf(q)}

\* evaluate: a history that is not evaluable is refused (409).
GetEvaluation(c) ==
    /\ Evaluate(c)
    /\ answer' = [kind |-> "evaluation", action |-> IF Evaluable THEN Recommended ELSE "refused"]

\* install_online_experiment_routes
ControlNext ==
    \/ /\ \/ \E e \in EpochIds : PostExperiment(e)
          \/ \E B \in Batches : PostObservations(B)
          \/ \E c \in Clients : PostRecommendation(c)
       /\ answer' = Silent /\ UNCHANGED requests
    \/ (\E c \in Clients : GetEvaluation(c)) /\ UNCHANGED <<log, requests>>
    \/ (\E r \in Readers : ReadRow(r) \/ ReadEpochs(r) \/ ReadCount(r)) /\ UNCHANGED <<registryVars, log>>
    \/ status # "none" /\ (ListExperiments \/ GetEvents) /\ UNCHANGED <<registryVars, log, requests>>

ControlSpec == ControlInit /\ [][ControlNext]_controlVars

-----------------------------------------------------------------------------
(* Properties.                                                              *)

\* The units that the first v events of l inserted.
Inserted(l, v) ==
    LET sum[k \in 0 .. v] == IF k = 0 THEN 0 ELSE sum[k - 1] + l[k].inserted IN sum[v]

\* What the log says of the experiment at version v.
Happened(v, types) == {k \in 1 .. v : log[k].type \in types}
StageAt(v)    == Cardinality(Happened(v, {"experiment_created", "ramp_advanced"}))
InsertedAt(v) == Inserted(log, v)
FractionAt(v) == IF Happened(v, {"rollback_marked"}) # {} THEN Frac(0, 1)
                 ELSE Fraction[StageAt(v)]

\* What a traffic controller or a dashboard is told is true at the version the answer bears,
\* though transitions and deliveries commit between the SELECTs of one answer (get_experiment,
\* traffic_directive): the stage is found and is that of this version, as is the fraction, a
\* stopped candidate gets none, and no unit of this version is missing from the count.  The one
\* SELECT of the listing counts exactly, an evaluation is never refused, and a page of events
\* has no gap and ends at the latest version.
AnswersMatchTheirVersion ==
    /\ answer.kind = "experiment" =>
          /\ StageOf(answer) = {StageAt(answer.row.version)}
          /\ Directed(answer) = {FractionAt(answer.row.version)}
          /\ answer.count >= InsertedAt(answer.row.version)
    /\ answer.kind = "list" => answer.count = InsertedAt(answer.row.version)
    /\ answer.kind = "evaluation" => answer.action # "refused"
    /\ answer.kind = "events" =>
          \A k \in DOMAIN answer.page : answer.page[k].version = version - Len(answer.page) + k

\* Outcomes may be looked at whenever they mature: the true mean of an arm ever leaves the
\* interval with probability at most the alpha of the arm, which is what lets the ramp be
\* advanced or rolled back on any evaluation; and the interval by bisection is that of the
\* e-process (bernoulli_mixture_confidence_sequence).
IntervalsAreAnytimeValid ==
    /\ Valid
    /\ status # "none" =>
          \A m \in Metrics, a \in Arms : Tally(m, a).size > 0 => Tally(m, a) \in TightTallies
=============================================================================
