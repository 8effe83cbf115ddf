----------------------------- MODULE ContextMemory -----------------------------
(***************************************************************************)
(* What a task is told about its conversation: the pool the store looks up, *)
(* the governed context built from it, and the rows of observations the     *)
(* store keeps for later tasks.                                             *)
(*                                                                          *)
(* A candidate is [kind, source, text, at, stale]: a user's message or an   *)
(* observation of an attachment.  The character budgets may cut the end of  *)
(* a selection but are wide enough for the reserved rows; the utility of    *)
(* the others is left open.                                                 *)
(*                                                                          *)
(* Definitions commented "Mutant" are plausible bugs in the definition that *)
(* follows; nothing uses them but the sanity check of the properties.       *)
(***************************************************************************)
EXTENDS Naturals, FiniteSets, FiniteSetsExt

CONSTANTS
    Questions, Findings,    \* what messages and what attachments say
    Continuing,             \* the questions that refer to what was said before
    Match,                  \* Match[q][t]: 0 irrelevant, 1 similar, 2 shares a term
    RecentLimit, AnchorLimit, SearchLimit, MemoryLimit,     \* of context_snapshot
    ItemBudget,             \* CONTEXT_MEMORY_ITEM_BUDGET
    MaxSelected, MaxCurrent \* rows in a context, and of these the task's own attachments

ASSUME ContextAssumption ==
    /\ Continuing \subseteq Questions /\ Questions \cap Findings = {}
    /\ Match \in [Questions -> [Questions \cup Findings -> 0 .. 2]]
    /\ {RecentLimit, AnchorLimit, MemoryLimit, ItemBudget} \subseteq Nat \ {0}
    /\ {SearchLimit, MaxSelected, MaxCurrent} \subseteq Nat /\ MaxSelected >= MaxCurrent + 2

\* order by created_at, one way or the other, limit n.
Newest(S, n) == {r \in S : Cardinality({o \in S : o.at > r.at}) < n}
First(S, n) == {r \in S : Cardinality({o \in S : o.at < r.at}) < n}

\* A question shares one of its terms with what is said.
Names(q, t) == Match[q][t] = 2

\* context_snapshot: the latest and the first messages, and those that share a term.
Remembered(q, said) ==
    Newest(said, RecentLimit) \cup First(said, AnchorLimit)
        \cup Newest({r \in said : Names(q, r.text)}, SearchLimit)
Observed(q, items) ==
    Newest(items, MemoryLimit) \cup Newest({r \in items : Names(q, r.text)}, MemoryLimit)

-----------------------------------------------------------------------------
(* build_governed_context.                                                  *)

\* _message_candidates, _multimodal_candidates
Said(pool) ==
    {[kind |-> "user", source |-> r.source, text |-> r.text, at |-> r.at, stale |-> FALSE] :
        r \in pool}
Seen(rows, kind, revision) ==
    {[kind |-> kind, source |-> r.source, text |-> r.text, at |-> r.at,
      stale |-> kind = "seen" /\ r.revision # revision] : r \in rows}

\* _deduplicate: of rows that say the same, the one that is not stale, then the latest.
Distinct(rows) ==
    {r \in rows : \A o \in rows :
        o.text = r.text /\ o # r => \/ o.stale /\ ~r.stale
                                    \/ o.stale = r.stale /\ o.at < r.at}

\* _select_current: as many of the task's own observations as fit, the best first.
Currents(rows) ==
    {S \in SUBSET rows : Cardinality(S) <= MaxCurrent /\ (rows # {} => S # {})}

Relevant(q, rows) == {r \in rows : ~r.stale /\ Match[q][r.text] > 0}

\* Mutant: the latest observation is recalled even when the catalog has changed since.
RecentStale(q, rows) ==
    IF q \in Continuing
    THEN Newest({r \in rows : r.kind = "user"}, 2) \cup Newest({r \in rows : r.kind = "seen"}, 1)
    ELSE {}

\* What a continuation recalls whether it is relevant or not.
Recent(q, rows) ==
    IF q \in Continuing
    THEN Newest({r \in rows : r.kind = "user"}, 2)
             \cup Newest({r \in rows : r.kind = "seen" /\ ~r.stale}, 1)
    ELSE {}

\* The semantic anchor: the most relevant, then the most trusted, then the latest.
Precedes(q, r, o) ==
    \/ Match[q][r.text] > Match[q][o.text]
    \/ /\ Match[q][r.text] = Match[q][o.text]
       /\ \/ r.kind = "user" /\ o.kind # "user"
          \/ r.kind = o.kind /\ r.at > o.at
Anchors(q, rows) ==
    {r \in Relevant(q, rows) : \A o \in Relevant(q, rows) \ {r} : Precedes(q, r, o)}
LatestSaid(q, rows) == Newest({r \in Recent(q, rows) : r.kind = "user"}, 1)

\* _select_history: the anchor and the latest message, then what the scores prefer.
Histories(q, rows, slots) ==
    LET reserved == Anchors(q, rows) \cup LatestSaid(q, rows)
        eligible == Relevant(q, rows) \cup Recent(q, rows)
    IN {S \in SUBSET eligible : reserved \subseteq S /\ Cardinality(S) <= slots}

\* The contexts a task may be given.
GovernedContexts(q, said, items, records, revision) ==
    LET history == Distinct(Said(said) \cup Seen(items, "seen", revision))
        current == Distinct(Seen(records, "current", revision))
    IN UNION {{C \cup H : H \in Histories(q, history, MaxSelected - Cardinality(C))} :
              C \in Currents(current)}

-----------------------------------------------------------------------------
(* The rows of context_memory_items.                                        *)

\* Mutant: whatever is written last is kept.
UpsertLast(items, records) ==
    {i \in items : \A r \in records : r.source # i.source} \cup records

\* _upsert_context_item, for rows of different sources: a source keeps its latest observation,
\* of two as late the new one.
Upsert(items, records) ==
    {i \in items : \A r \in records : r.source = i.source => i.at > r.at}
        \cup {r \in records : \A i \in items : i.source = r.source => i.at <= r.at}

\* remember_context_items: all rows in one transaction, then _prune_context_items.
Remember(items, records) == Newest(Upsert(items, records), ItemBudget)
=============================================================================
