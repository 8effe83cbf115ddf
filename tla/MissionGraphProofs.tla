-------------------------- MODULE MissionGraphProofs --------------------------
(***************************************************************************)
(* Proofs about the reasoning loop, for any registry of capability          *)
(* contracts, any observations, plans and budgets, and any number of        *)
(* crashes and failing tools.  The last two theorems are about registries   *)
(* that keep to DiagnosisContracts and CriticalContracts, as the shipped    *)
(* one does.                                                                *)
(***************************************************************************)
EXTENDS MissionGraph, FiniteSetTheorems, TLAPS

Served(t) == Registry[t].key

\* The statuses of r are those of s, except that open requirements may have been
\* settled and dormant ones opened.
Preserved(s, r) ==
    \A k \in Keys : s.status[k] \in Terminal => r.status[k] = s.status[k]

\* Evidence counted in s, or gathered by its actions, rests on satisfied evidence.
Ordered(s) ==
    \A k \in Keys : \A p \in Prerequisites(k) :
        s.status[k] = "satisfied" \/ (\E t \in Acted(s) : Served(t) = k)
        => p \in Keys /\ s.status[p] = "satisfied"

\* The actions of s settled their requirements, and each made progress.
Settled(s) ==
    /\ \A t \in Acted(s) : s.status[Served(t)] \in Terminal
    /\ s.stagnation = 0

\* The tool that is executing was picked for an open, unlocked requirement.
Picked ==
    pending # NoTool =>
        /\ state.status[Served(pending)] = "open"
        /\ Unlocked(state, Served(pending))
        /\ state.cycle >= 1

\* The inductive invariant: what the checkpoint and the memory say separately, and
\* that the memory extends the checkpoint.
Inv ==
    /\ TypeOK
    /\ Ordered(state) /\ Ordered(saved)
    /\ Settled(state) /\ Settled(saved)
    /\ state.cycle = Cardinality(Acted(state)) + (IF pending = NoTool THEN 0 ELSE 1)
    /\ saved.cycle = Cardinality(Acted(saved))
    /\ Preserved(saved, state)
    /\ Picked

-----------------------------------------------------------------------------
(* The registry.                                                            *)

\* The registry indexes every contract, and every tool serves a requirement.
LEMMA RegistryFacts ==
    \A t \in Tools : Registry[t] = Contracts[t] /\ Served(t) \in Keys
BY DEF Registry, Keys, Served

-----------------------------------------------------------------------------
(* What a refresh and a reflection do to a run state.                       *)

\* A refresh only blocks open requirements.
LEMMA RefreshEffect ==
    ASSUME NEW s \in RunState
    PROVE  LET r == RefreshBlocked(s) IN
           /\ r \in RunState
           /\ Preserved(s, r)
           /\ \A k \in Keys : r.status[k] = "satisfied" <=> s.status[k] = "satisfied"
           /\ \A k \in Keys : s.status[k] = "open" /\ ~Hopeless(s, k) => r.status[k] = "open"
           /\ r.actions = s.actions /\ r.cycle = s.cycle /\ r.stagnation = s.stagnation
<1> DEFINE status == [k \in Keys |-> IF s.status[k] = "open" /\ Hopeless(s, k)
                                       THEN "blocked" ELSE s.status[k]]
           r == RefreshBlocked(s)
<1>1. s.status \in [Keys -> Statuses]
  BY DEF RunState
<1>2. status \in [Keys -> Statuses]
  BY <1>1 DEF Statuses, Terminal
<1>3. r = [s EXCEPT !.status = status]
  BY DEF RefreshBlocked
<1> HIDE DEF status
<1>4. r \in RunState
  BY <1>2, <1>3 DEF RunState
<1>5. /\ r.status = status
      /\ r.actions = s.actions /\ r.cycle = s.cycle /\ r.stagnation = s.stagnation
  BY <1>3 DEF RunState
<1> HIDE DEF r
<1>6. Preserved(s, r)
  BY <1>5 DEF Preserved, Terminal, status
<1>7. \A k \in Keys : r.status[k] = "satisfied" <=> s.status[k] = "satisfied"
  BY <1>5 DEF status
<1>8. \A k \in Keys : s.status[k] = "open" /\ ~Hopeless(s, k) => r.status[k] = "open"
  BY <1>5 DEF status
<1> QED BY <1>4, <1>5, <1>6, <1>7, <1>8 DEF r

\* Beliefs stay beliefs.
LEMMA BeliefType ==
    ASSUME NEW s \in RunState, NEW t \in Tools, NEW facts
    PROVE  BeliefAfter(s, t, facts) \in [Tools -> {"open", "mild", "strong", "dismissed"}]
<1>1. s.belief \in [Tools -> {"open", "mild", "strong", "dismissed"}]
  BY DEF RunState
<1>2. BeliefOn(facts) \in {"open", "mild", "strong", "dismissed"}
  BY DEF BeliefOn
<1>3. [s.belief EXCEPT ![t] = BeliefOn(facts)]
        \in [Tools -> {"open", "mild", "strong", "dismissed"}]
  BY <1>1, <1>2
<1> QED BY <1>1, <1>3 DEF BeliefAfter

\* Contradictions are about domains of the registry.
LEMMA ContradictionsType ==
    ASSUME NEW s \in RunState, NEW t \in Tools, NEW facts
    PROVE  ContradictionsAfter(s, t, facts) \in SUBSET {Registry[u].domain : u \in Tools}
<1>1. s.contradictions \in SUBSET {Registry[u].domain : u \in Tools}
  BY DEF RunState
<1>2. Registry[t].domain \in {Registry[u].domain : u \in Tools}
  OBVIOUS
<1> QED BY <1>1, <1>2 DEF ContradictionsAfter

\* Reading a result keeps the state's shape and what reflection has settled.
LEMMA ConsumedEffect ==
    ASSUME NEW s \in RunState, NEW t \in Tools, NEW facts \in Outcomes[t]
    PROVE  LET r == Consumed(s, t, facts) IN
           /\ r \in RunState
           /\ r.evidence \in SUBSET {"local", "external"}
           /\ r.status = s.status /\ r.actions = s.actions
           /\ r.cycle = s.cycle /\ r.stagnation = s.stagnation
<1> DEFINE observations == [s.observations EXCEPT ![t] = facts]
           spent == s.spent + Registry[t].cost
           evidence == s.evidence \cup Shown(t, facts)
           r == Consumed(s, t, facts)
<1>1. observations \in [Tools -> (UNION {Outcomes[u] : u \in Tools}) \cup {{}}]
  <2>1. s.observations \in [Tools -> (UNION {Outcomes[u] : u \in Tools}) \cup {{}}]
    BY DEF RunState
  <2>2. facts \in (UNION {Outcomes[u] : u \in Tools}) \cup {{}}
    OBVIOUS
  <2> QED BY <2>1, <2>2
<1>2. spent \in Nat
  BY ContractAssumption, RegistryFacts DEF RunState
<1>3. evidence \in SUBSET {"local", "external"}
  BY DEF RunState, Shown
<1>4. r = [s EXCEPT !.observations = observations, !.spent = spent, !.evidence = evidence]
  BY DEF Consumed, RunState
<1> HIDE DEF observations, spent, evidence
<1>5. r \in RunState
  BY <1>1, <1>2, <1>3, <1>4 DEF RunState
<1>6. /\ r.evidence \in SUBSET {"local", "external"}
      /\ r.status = s.status /\ r.actions = s.actions
      /\ r.cycle = s.cycle /\ r.stagnation = s.stagnation
  BY <1>3, <1>4 DEF RunState
<1> HIDE DEF r
<1> QED BY <1>5, <1>6 DEF r

\* Reflecting on an action settles the requirement it was picked for, disturbs no
\* settled one, counts as progress and records the action.
LEMMA ReflectEffect ==
    ASSUME NEW s \in RunState, NEW t \in Tools, NEW completed \in BOOLEAN, NEW facts,
           s.status[Served(t)] = "open"
    PROVE  LET r == Reflected(s, t, completed, facts) IN
           /\ r \in RunState
           /\ r.status[Served(t)] \in Terminal
           /\ Preserved(s, r)
           /\ \A k \in Keys : r.status[k] = "satisfied" =>
                                 s.status[k] = "satisfied" \/ k = Served(t)
           /\ Acted(r) = Acted(s) \cup {t}
           /\ r.cycle = s.cycle
           /\ r.stagnation = 0
<1> DEFINE status == StatusAfter(s, t, completed, facts)
           belief == IF completed THEN BeliefAfter(s, t, facts) ELSE s.belief
           contradictions == IF completed THEN ContradictionsAfter(s, t, facts)
                                          ELSE s.contradictions
           actions == [s.actions EXCEPT ![t] = IF completed THEN "completed" ELSE "failed"]
           r == Reflected(s, t, completed, facts)
<1>1. SettledAs(t, completed, facts) \in Terminal
  BY DEF SettledAs, Terminal
<1>2. s.status \in [Keys -> Statuses]
  BY DEF RunState
<1>3. Served(t) \in Keys
  BY RegistryFacts
<1>4. /\ status \in [Keys -> Statuses]
      /\ status[Served(t)] \in Terminal
      /\ \A k \in Keys : s.status[k] \in Terminal => status[k] = s.status[k]
      /\ \A k \in Keys : status[k] = "satisfied" =>
                            s.status[k] = "satisfied" \/ k = Served(t)
  BY <1>1, <1>2, <1>3 DEF StatusAfter, Served, Terminal, Statuses
<1>5. belief \in [Tools -> {"open", "mild", "strong", "dismissed"}]
  <2>1. s.belief \in [Tools -> {"open", "mild", "strong", "dismissed"}]
    BY DEF RunState
  <2> QED BY <2>1, BeliefType
<1>6. contradictions \in SUBSET {Registry[u].domain : u \in Tools}
  <2>1. s.contradictions \in SUBSET {Registry[u].domain : u \in Tools}
    BY DEF RunState
  <2> QED BY <2>1, ContradictionsType
<1>7. actions \in [Tools -> {"none", "completed", "failed"}]
  BY DEF RunState
<1>8. status # s.status
  BY <1>2, <1>3, <1>4 DEF Terminal
<1>9. r = [s EXCEPT !.status = status, !.belief = belief,
                    !.contradictions = contradictions, !.actions = actions,
                    !.last = t, !.stagnation = 0]
  BY <1>8 DEF Reflected, RunState
<1> HIDE DEF status, belief, contradictions
<1>10. {u \in Tools : actions[u] # "none"} = Acted(s) \cup {t}
  BY DEF Acted, RunState
<1> HIDE DEF actions
<1>11. r \in RunState
  <2>1. r = [status |-> status, belief |-> belief, contradictions |-> contradictions,
             cycle |-> s.cycle, spent |-> s.spent, actions |-> actions,
             observations |-> s.observations, evidence |-> s.evidence,
             last |-> t, stagnation |-> 0]
    BY <1>9 DEF RunState
  <2>2. /\ s.cycle \in 0 .. MaxTools /\ s.spent \in Nat
        /\ s.observations \in [Tools -> (UNION {Outcomes[u] : u \in Tools}) \cup {{}}]
        /\ s.evidence \in SUBSET {"local", "external"}
    BY DEF RunState
  <2> QED BY <2>1, <2>2, <1>4, <1>5, <1>6, <1>7 DEF RunState
<1>12. /\ r.status = status /\ r.actions = actions
       /\ r.cycle = s.cycle /\ r.stagnation = 0
  BY <1>9 DEF RunState
<1> HIDE DEF r
<1>13. Acted(r) = Acted(s) \cup {t}
  BY <1>10, <1>12 DEF Acted
<1> QED BY <1>4, <1>11, <1>12, <1>13 DEF r, Preserved

-----------------------------------------------------------------------------
(* How the parts of the invariant carry over.                               *)

\* Order depends on what is satisfied and acted on only.
LEMMA OrderKept ==
    ASSUME NEW s, NEW r, Ordered(s),
           \A k \in Keys : r.status[k] = "satisfied" <=> s.status[k] = "satisfied",
           Acted(r) = Acted(s)
    PROVE  Ordered(r)
BY DEF Ordered

\* An action on an unlocked requirement keeps the order.
LEMMA OrderExtended ==
    ASSUME NEW s, NEW r, NEW t \in Tools, Ordered(s), Preserved(s, r),
           Unlocked(s, Served(t)), Acted(r) = Acted(s) \cup {t},
           \A k \in Keys : r.status[k] = "satisfied" =>
                            s.status[k] = "satisfied" \/ k = Served(t)
    PROVE  Ordered(r)
<1> SUFFICES ASSUME NEW k \in Keys, NEW p \in Prerequisites(k),
                    r.status[k] = "satisfied" \/ \E u \in Acted(r) : Served(u) = k
             PROVE  p \in Keys /\ r.status[p] = "satisfied"
  BY DEF Ordered
<1>1. p \in Keys /\ s.status[p] = "satisfied"
  <2>1. CASE k = Served(t)
    BY <2>1 DEF Unlocked
  <2>2. CASE k # Served(t)
    <3>1. s.status[k] = "satisfied" \/ \E u \in Acted(s) : Served(u) = k
      BY <2>2
    <3> QED BY <3>1 DEF Ordered
  <2> QED BY <2>1, <2>2
<1> QED BY <1>1 DEF Preserved, Terminal

\* What was settled stays so when settled statuses are preserved.
LEMMA SettledKept ==
    ASSUME NEW s, NEW r, Settled(s), Preserved(s, r), Acted(r) = Acted(s),
           r.stagnation = s.stagnation
    PROVE  Settled(r)
<1>1. \A t \in Acted(s) : Served(t) \in Keys
  BY RegistryFacts DEF Acted
<1> QED BY <1>1 DEF Settled, Preserved

\* So does an action that settles its own requirement.
LEMMA SettledExtended ==
    ASSUME NEW s, NEW r, NEW t \in Tools, Settled(s), Preserved(s, r),
           Acted(r) = Acted(s) \cup {t}, r.status[Served(t)] \in Terminal,
           r.stagnation = 0
    PROVE  Settled(r)
<1>1. \A u \in Acted(s) : Served(u) \in Keys
  BY RegistryFacts DEF Acted
<1> QED BY <1>1 DEF Settled, Preserved

\* One more action is one more element.
LEMMA ActionsCounted ==
    ASSUME NEW s, NEW t \in Tools, t \notin Acted(s)
    PROVE  /\ Cardinality(Acted(s)) \in Nat
           /\ Cardinality(Acted(s) \cup {t}) = Cardinality(Acted(s)) + 1
<1>1. IsFiniteSet(Acted(s))
  BY FS_Subset, ToolsAssumption DEF Acted
<1> QED BY <1>1, FS_AddElement, FS_CardinalityType

\* A refresh of the state at the loop head keeps the parts that are about it.
LEMMA RefreshKeeps ==
    ASSUME Inv
    PROVE  LET r == RefreshBlocked(state) IN
           /\ r \in RunState
           /\ Ordered(r) /\ Settled(r) /\ Preserved(saved, r)
           /\ Acted(r) = Acted(state) /\ r.cycle = state.cycle
<1> DEFINE r == RefreshBlocked(state)
<1>1. state \in RunState
  BY DEF Inv, TypeOK
<1>2. /\ r \in RunState
      /\ Preserved(state, r)
      /\ \A k \in Keys : r.status[k] = "satisfied" <=> state.status[k] = "satisfied"
      /\ r.actions = state.actions /\ r.cycle = state.cycle
      /\ r.stagnation = state.stagnation
  BY <1>1, RefreshEffect
<1> HIDE DEF r
<1>3. Acted(r) = Acted(state)
  BY <1>2 DEF Acted
<1>4. Ordered(r)
  BY <1>2, <1>3, OrderKept DEF Inv
<1>5. Settled(r)
  BY <1>2, <1>3, SettledKept DEF Inv
<1>6. Preserved(saved, r)
  BY <1>2 DEF Inv, Preserved
<1> QED BY <1>2, <1>3, <1>4, <1>5, <1>6 DEF r

-----------------------------------------------------------------------------
(* The invariant holds initially and is kept by every step.                 *)

LEMMA InitInv == Init => Inv
<1> SUFFICES ASSUME Init PROVE Inv
  OBVIOUS
<1>1. FreshState \in RunState
  <2>1. [k \in Keys |-> CompiledStatus(k)] \in [Keys -> Statuses]
    BY DEF CompiledStatus, Statuses, Terminal
  <2> QED BY <2>1, BudgetAssumption DEF FreshState, RunState
<1>2. \A k \in Keys : FreshState.status[k] # "satisfied"
  BY DEF FreshState, CompiledStatus
<1>3. Acted(FreshState) = {}
  BY DEF FreshState, Acted
<1>4. FreshState.cycle = 0 /\ FreshState.stagnation = 0
  BY DEF FreshState
<1>5. state = FreshState /\ saved = FreshState /\ pending = NoTool
  BY DEF Init
<1>6. TypeOK
  BY <1>1, <1>5, BoundAssumption DEF Init, TypeOK
<1>7. Ordered(FreshState) /\ Settled(FreshState)
  BY <1>2, <1>3, <1>4 DEF Ordered, Settled
<1>8. Cardinality(Acted(FreshState)) = 0
  BY <1>3, FS_EmptySet
<1> QED BY <1>4, <1>5, <1>6, <1>7, <1>8 DEF Inv, Preserved, Picked

\* Recording an action keeps the invariant, whatever the tool did to the rest of
\* the state before.
LEMMA RecordKeeps ==
    ASSUME Inv, pending # NoTool, NEW s \in RunState,
           s.status = state.status, s.actions = state.actions,
           s.cycle = state.cycle, s.stagnation = state.stagnation,
           NEW completed \in BOOLEAN, NEW facts, Record(s, completed, facts)
    PROVE  Inv'
<1> DEFINE r == Reflected(s, pending, completed, facts)
<1>1. pending \in Tools
  BY DEF Inv, TypeOK
<1>2. /\ s.status[Served(pending)] = "open"
      /\ Unlocked(s, Served(pending))
  BY DEF Inv, Picked, Unlocked
<1>3. Acted(s) = Acted(state)
  BY DEF Acted
<1>4. Ordered(s) /\ Settled(s) /\ Preserved(saved, s)
  BY <1>3 DEF Inv, Ordered, Settled, Preserved
<1>5. pending \notin Acted(s)
  BY <1>2, <1>4 DEF Settled, Terminal
<1>6. /\ r \in RunState
      /\ r.status[Served(pending)] \in Terminal
      /\ Preserved(s, r)
      /\ \A k \in Keys : r.status[k] = "satisfied" =>
                            s.status[k] = "satisfied" \/ k = Served(pending)
      /\ Acted(r) = Acted(s) \cup {pending}
      /\ r.cycle = s.cycle
      /\ r.stagnation = 0
  BY <1>1, <1>2, ReflectEffect
<1>7. /\ state' = r /\ saved' = r /\ pending' = NoTool
      /\ UNCHANGED <<plan, configured, journal, outcome, crashes>>
  BY DEF Record
<1> HIDE DEF r
<1>8. Ordered(r)
  BY <1>1, <1>2, <1>4, <1>6, OrderExtended
<1>9. Settled(r)
  BY <1>1, <1>4, <1>6, SettledExtended
<1>10. r.cycle = Cardinality(Acted(r))
  BY <1>1, <1>3, <1>5, <1>6, ActionsCounted DEF Inv
<1>11. TypeOK'
  BY <1>6, <1>7 DEF Inv, TypeOK
<1>12. state'.cycle = Cardinality(Acted(state)') + (IF pending' = NoTool THEN 0 ELSE 1)
  <2>1. Cardinality(Acted(r)) \in Nat
    BY <1>6, <1>10 DEF RunState
  <2> QED BY <1>7, <1>10, <2>1 DEF Acted
<1>13. Preserved(r, r)
  BY DEF Preserved
<1> QED
  BY <1>7, <1>8, <1>9, <1>10, <1>11, <1>12, <1>13
     DEF Inv, Picked, Ordered, Settled, Preserved, Acted

\* A requirement with a candidate is not hopeless.
LEMMA CandidateNotHopeless ==
    ASSUME NEW t \in Tools, Candidate(state, t)
    PROVE  /\ state.status[Served(t)] = "open"
           /\ Unlocked(state, Served(t))
           /\ ~Hopeless(state, Served(t))
BY DEF Candidate, Hopeless, Served

\* Ending the loop keeps the invariant, refreshed or not.
LEMMA StopKeeps ==
    ASSUME Inv, pending = NoTool, NEW why \in {"closed", "budget"},
           Stop(why, state) \/ Stop(why, RefreshBlocked(state))
    PROVE  Inv'
<1>1. PICK s : Stop(why, s) /\ (s = state \/ s = RefreshBlocked(state))
  OBVIOUS
<1>2. /\ s \in RunState
      /\ Ordered(s) /\ Settled(s) /\ Preserved(saved, s)
      /\ Acted(s) = Acted(state) /\ s.cycle = state.cycle
  <2>1. CASE s = state
    BY <2>1 DEF Inv, TypeOK
  <2>2. CASE s = RefreshBlocked(state)
    BY <2>2, RefreshKeeps
  <2> QED BY <1>1, <2>1, <2>2
<1>3. /\ state' = s /\ outcome' = why
      /\ UNCHANGED <<plan, configured, saved, pending, journal, crashes>>
  BY <1>1 DEF Stop
<1>4. TypeOK'
  BY <1>2, <1>3 DEF Inv, TypeOK
<1>5. (Ordered(state) /\ Settled(state) /\ Preserved(saved, state))'
  BY <1>2, <1>3 DEF Ordered, Settled, Preserved
<1>6. (Ordered(saved) /\ Settled(saved) /\ saved.cycle = Cardinality(Acted(saved)))'
  BY <1>3 DEF Inv, Ordered, Settled, Acted
<1>7. (state.cycle = Cardinality(Acted(state)) + (IF pending = NoTool THEN 0 ELSE 1))'
  <2>1. Acted(state') = Acted(state)
    BY <1>2, <1>3
  <2> QED BY <1>2, <1>3, <2>1 DEF Inv, Acted
<1>8. Picked'
  BY <1>3 DEF Picked
<1> QED
  BY <1>4, <1>5, <1>6, <1>7, <1>8 DEF Inv

\* Every step keeps the invariant.
LEMMA StepInv == Inv /\ [Next]_vars => Inv'
<1> SUFFICES ASSUME Inv, [Next]_vars PROVE Inv'
  OBVIOUS
<1>1. CASE OutOfTime
  BY <1>1, StopKeeps DEF OutOfTime, AtLoopHead
<1>2. CASE Close
  BY <1>2, StopKeeps DEF Close, AtLoopHead
<1>3. CASE Decline
  BY <1>3, StopKeeps DEF Decline, AtLoopHead
<1>4. CASE CostExceeded
  BY <1>4, StopKeeps DEF CostExceeded, AtLoopHead
<1>5. CASE Decide
  <2> DEFINE r == RefreshBlocked(state)
  <2>1. /\ pending = NoTool /\ state.cycle < MaxTools
        /\ state' = [r EXCEPT !.cycle = @ + 1]
        /\ UNCHANGED <<plan, configured, saved, journal, outcome, crashes>>
    BY <1>5 DEF Decide, AtLoopHead
  <2>2. PICK t \in Candidates(state) : pending' = t
    BY <1>5 DEF Decide, Winners
  <2>3. t \in Tools /\ Served(t) \in Keys /\ t # NoTool
    BY <2>2, RegistryFacts, ToolsAssumption DEF Candidates
  <2>4. /\ state.status[Served(t)] = "open"
        /\ Unlocked(state, Served(t))
        /\ ~Hopeless(state, Served(t))
    BY <2>2, <2>3, CandidateNotHopeless DEF Candidates
  <2>5. /\ r \in RunState
        /\ Ordered(r) /\ Settled(r) /\ Preserved(saved, r)
        /\ Acted(r) = Acted(state) /\ r.cycle = state.cycle
    BY RefreshKeeps
  <2>6. r.status[Served(t)] = "open" /\ Unlocked(r, Served(t))
    <3>1. state \in RunState
      BY DEF Inv, TypeOK
    <3>2. /\ \A k \in Keys : r.status[k] = "satisfied" <=> state.status[k] = "satisfied"
          /\ \A k \in Keys : state.status[k] = "open" /\ ~Hopeless(state, k)
                                => r.status[k] = "open"
      BY <3>1, RefreshEffect
    <3> HIDE DEF r
    <3> QED BY <2>3, <2>4, <3>2 DEF Unlocked
  <2> HIDE DEF r
  <2>7. r.cycle \in 0 .. MaxTools /\ r.cycle < MaxTools
    BY <2>1, <2>5 DEF RunState
  <2>8. /\ state' \in RunState
        /\ state'.status = r.status /\ state'.actions = r.actions
        /\ state'.stagnation = r.stagnation /\ state'.cycle = r.cycle + 1
    BY <2>1, <2>5, <2>7, BudgetAssumption DEF RunState
  <2>9. Acted(state)' = Acted(r)
    BY <2>8 DEF Acted
  <2>10. TypeOK'
    BY <2>1, <2>2, <2>3, <2>8 DEF Inv, TypeOK
  <2>11. Ordered(state)' /\ Settled(state)' /\ Preserved(saved, state)'
    BY <2>1, <2>5, <2>8, <2>9 DEF Ordered, Settled, Preserved
  <2>12. state'.cycle = Cardinality(Acted(state)') + (IF pending' = NoTool THEN 0 ELSE 1)
    <3>1. t \notin Acted(state)
      BY <2>4 DEF Inv, Settled, Terminal
    <3>2. Cardinality(Acted(state)) \in Nat
      BY <2>3, <3>1, ActionsCounted
    <3>3. state.cycle = Cardinality(Acted(state))
      BY <2>1, <3>2 DEF Inv
    <3>4. state'.cycle = Cardinality(Acted(state)') + 1
      BY <2>5, <2>8, <2>9, <3>3
    <3> QED BY <2>2, <2>3, <3>4
  <2>13. Picked'
    BY <2>2, <2>6, <2>7, <2>8 DEF Picked, Unlocked
  <2>14. (Ordered(saved) /\ Settled(saved) /\ saved.cycle = Cardinality(Acted(saved)))'
    BY <2>1 DEF Inv, Ordered, Settled, Acted
  <2> QED BY <2>10, <2>11, <2>12, <2>13, <2>14 DEF Inv
<1>6. CASE RememberStrategy
  <2>1. /\ pending # NoTool
        /\ journal' = journal \cup {<<state.cycle, pending>>}
        /\ UNCHANGED <<plan, configured, state, saved, pending, outcome, crashes>>
    BY <1>6 DEF RememberStrategy, Invocation
  <2>2. state.cycle \in 1 .. MaxTools /\ pending \in Tools
    BY <2>1, BudgetAssumption DEF Inv, TypeOK, Picked, RunState
  <2>3. TypeOK'
    BY <2>1, <2>2 DEF Inv, TypeOK
  <2> QED BY <2>1, <2>3 DEF Inv, Picked, Unlocked, Ordered, Settled, Preserved, Acted
<1>7. CASE Complete
  <2>1. PICK facts \in Outcomes[pending] :
           Record(Consumed(state, pending, facts), TRUE, facts)
    BY <1>7 DEF Complete
  <2>2. pending # NoTool /\ pending \in Tools /\ state \in RunState
    BY <1>7 DEF Complete, Inv, TypeOK
  <2> DEFINE s == Consumed(state, pending, facts)
  <2>3. /\ s \in RunState
        /\ s.status = state.status /\ s.actions = state.actions
        /\ s.cycle = state.cycle /\ s.stagnation = state.stagnation
    BY <2>2, ConsumedEffect
  <2> HIDE DEF s
  <2>4. Record(s, TRUE, facts)
    BY <2>1 DEF s
  <2> QED BY <2>2, <2>3, <2>4, RecordKeeps
<1>8. CASE ToolFails
  <2>1. pending # NoTool /\ Record(state, FALSE, {})
    BY <1>8 DEF ToolFails, MayFail
  <2> QED BY <2>1, RecordKeeps DEF Inv, TypeOK
<1>9. CASE ConsumeFails
  <2>1. pending # NoTool /\ pending \in Tools /\ state \in RunState
    BY <1>9 DEF ConsumeFails, MayFail, Inv, TypeOK
  <2>2. PICK facts \in Outcomes[pending] :
           \E evidence \in {state.evidence, Consumed(state, pending, facts).evidence} :
             Record([Consumed(state, pending, facts) EXCEPT !.evidence = evidence],
                    FALSE, {})
    BY <1>9 DEF ConsumeFails
  <2> DEFINE c == Consumed(state, pending, facts)
  <2>3. PICK evidence \in {state.evidence, c.evidence} :
           Record([c EXCEPT !.evidence = evidence], FALSE, {})
    BY <2>2
  <2>4. /\ c \in RunState
        /\ c.evidence \in SUBSET {"local", "external"}
        /\ c.status = state.status /\ c.actions = state.actions
        /\ c.cycle = state.cycle /\ c.stagnation = state.stagnation
    BY <2>1, ConsumedEffect
  <2> HIDE DEF c
  <2>5. evidence \in SUBSET {"local", "external"}
    BY <2>1, <2>3, <2>4 DEF RunState
  <2> DEFINE s == [c EXCEPT !.evidence = evidence]
  <2>6. /\ s \in RunState
        /\ s.status = c.status /\ s.actions = c.actions
        /\ s.cycle = c.cycle /\ s.stagnation = c.stagnation
    BY <2>4, <2>5 DEF RunState
  <2>7. Record(s, FALSE, {})
    BY <2>3
  <2> HIDE DEF s
  <2> QED BY <2>1, <2>4, <2>6, <2>7, RecordKeeps
<1>10. CASE Crash
  <2>1. /\ crashes < MaxCrashes /\ crashes' = crashes + 1
        /\ state' = saved /\ pending' = NoTool
        /\ UNCHANGED <<plan, configured, saved, journal, outcome>>
    BY <1>10 DEF Crash
  <2>2. TypeOK'
    BY <2>1, BoundAssumption DEF Inv, TypeOK
  <2>3. Cardinality(Acted(saved)) \in Nat
    BY DEF Inv, TypeOK, RunState
  <2> QED BY <2>1, <2>2, <2>3 DEF Inv, Picked, Ordered, Settled, Preserved, Acted
<1>11. CASE UNCHANGED vars
  BY <1>11 DEF vars, Inv, TypeOK, Picked, Unlocked, Ordered, Settled, Preserved, Acted
<1> QED
  BY <1>1, <1>2, <1>3, <1>4, <1>5, <1>6, <1>7, <1>8, <1>9, <1>10, <1>11 DEF Next

-----------------------------------------------------------------------------
(* The theorems.                                                            *)

\* The invariant holds in every reachable state.
LEMMA Invariance == Spec => []Inv
<1>1. Init => Inv
  BY InitInv
<1>2. Inv /\ [Next]_vars => Inv'
  BY StepInv
<1> QED BY <1>1, <1>2, PTL DEF Spec

\* The mission state always has the shape the checkpoint serialises.
THEOREM TypeCorrect == Spec => []TypeOK
<1>1. Inv => TypeOK
  BY DEF Inv
<1> QED BY <1>1, Invariance, PTL

\* Deliberation never gathers, and reflection never counts, evidence before the
\* evidence its contract requires: not for any registry, and not across a crash.
THEOREM EvidenceAlwaysInOrder == Spec => []EvidenceInOrder
<1>1. Inv => EvidenceInOrder
  <2> SUFFICES ASSUME Inv, NEW k \in Keys, NEW p \in Prerequisites(k),
                      \/ state.status[k] = "satisfied"
                      \/ \E t \in Acted(state) \cup ({pending} \ {NoTool}) :
                            Registry[t].key = k
               PROVE  p \in Keys /\ state.status[p] = "satisfied"
    BY DEF EvidenceInOrder
  <2>1. CASE state.status[k] = "satisfied" \/ \E t \in Acted(state) : Served(t) = k
    BY <2>1 DEF Inv, Ordered
  <2>2. CASE pending # NoTool /\ Served(pending) = k
    BY <2>2 DEF Inv, Picked, Unlocked
  <2> QED BY <2>1, <2>2 DEF Served
<1> QED BY <1>1, Invariance, PTL

\* A run, resumed any number of times, takes an action once: the loop's cycle counts
\* different tools, each of which settled its requirement and made progress.
THEOREM ActionsNeverRepeated == Spec => []NoActionRepeated
<1>1. Inv => NoActionRepeated
  <2> SUFFICES ASSUME Inv PROVE NoActionRepeated
    OBVIOUS
  <2>1. pending \notin Acted(state)
    <3>1. CASE pending = NoTool
      BY <3>1, ToolsAssumption DEF Acted
    <3>2. CASE pending # NoTool
      BY <3>2 DEF Inv, Picked, Settled, Terminal
    <3> QED BY <3>1, <3>2
  <2> QED BY <2>1 DEF Inv, Settled, Served, NoActionRepeated
<1> QED BY <1>1, Invariance, PTL

\* What a checkpoint recorded as settled is settled the same way in every later
\* state and in every later checkpoint.
THEOREM SettledForever == Spec => SettledStaysSettled
<1> DEFINE Kept == \A k \in Keys : saved.status[k] \in Terminal =>
                      /\ state'.status[k] = saved.status[k]
                      /\ saved'.status[k] = saved.status[k]
<1>1. Inv /\ Inv' /\ [Next]_vars => [Kept]_vars
  <2> SUFFICES ASSUME Inv, Inv', Next PROVE Kept
    OBVIOUS
  <2>1. CASE saved' = saved
    BY <2>1 DEF Inv, Preserved
  <2>2. ASSUME pending # NoTool, NEW s \in RunState, s.status = state.status,
               NEW completed \in BOOLEAN, NEW facts, Record(s, completed, facts)
        PROVE  Kept
    <3>1. pending \in Tools /\ s.status[Served(pending)] = "open"
      BY <2>2 DEF Inv, TypeOK, Picked
    <3>2. Preserved(s, Reflected(s, pending, completed, facts))
      BY <3>1, ReflectEffect
    <3>3. Preserved(s, state') /\ saved' = state'
      BY <2>2, <3>2 DEF Record
    <3> QED BY <2>2, <3>3 DEF Inv, Preserved
  <2>3. CASE Complete
    <3>1. PICK facts \in Outcomes[pending] :
             Record(Consumed(state, pending, facts), TRUE, facts)
      BY <2>3 DEF Complete
    <3>2. pending # NoTool /\ pending \in Tools /\ state \in RunState
      BY <2>3 DEF Complete, Inv, TypeOK
    <3>3. /\ Consumed(state, pending, facts) \in RunState
          /\ Consumed(state, pending, facts).status = state.status
      BY <3>2, ConsumedEffect
    <3> QED BY <2>2, <3>1, <3>2, <3>3
  <2>4. CASE ToolFails
    BY <2>2, <2>4 DEF ToolFails, MayFail, Inv, TypeOK
  <2>5. CASE ConsumeFails
    <3>1. pending # NoTool /\ pending \in Tools /\ state \in RunState
      BY <2>5 DEF ConsumeFails, MayFail, Inv, TypeOK
    <3>2. PICK facts \in Outcomes[pending] :
             \E evidence \in {state.evidence, Consumed(state, pending, facts).evidence} :
               Record([Consumed(state, pending, facts) EXCEPT !.evidence = evidence],
                      FALSE, {})
      BY <2>5 DEF ConsumeFails
    <3> DEFINE c == Consumed(state, pending, facts)
    <3>3. PICK evidence \in {state.evidence, c.evidence} :
             Record([c EXCEPT !.evidence = evidence], FALSE, {})
      BY <3>2
    <3>4. /\ c \in RunState /\ c.status = state.status
          /\ c.evidence \in SUBSET {"local", "external"}
      BY <3>1, ConsumedEffect
    <3> HIDE DEF c
    <3>5. evidence \in SUBSET {"local", "external"}
      BY <3>1, <3>3, <3>4 DEF RunState
    <3>6. /\ [c EXCEPT !.evidence = evidence] \in RunState
          /\ [c EXCEPT !.evidence = evidence].status = state.status
      BY <3>4, <3>5 DEF RunState
    <3> QED BY <2>2, <3>1, <3>3, <3>6
  <2> QED
    BY <2>1, <2>3, <2>4, <2>5
       DEF Next, OutOfTime, Close, Decline, CostExceeded, Stop, Decide,
           RememberStrategy, Crash
<1>2. Inv /\ [Next]_vars => Inv'
  BY StepInv
<1>3. Init => Inv
  BY InitInv
<1> QED BY <1>1, <1>2, <1>3, PTL DEF Spec, SettledStaysSettled
-----------------------------------------------------------------------------
(* Contradictions and their diagnosis, and the critical facts: what holds in  *)
(* the memory and in the checkpoint of a run whose registry keeps to the      *)
(* contracts of MissionGraph.                                                 *)

Profile(t) == Registry[t].profile
Domain(t) == Registry[t].domain

Diagnosable == DiagnosisContracts /\ CriticalContracts

\* The reproduction of a domain ended poorly, and called for the diagnosis.
PoorlyReproduced(s, d) ==
    \E u \in Acted(s) :
        Profile(u) = "reproduction" /\ Domain(u) = d /\ "poor" \in s.observations[u]

\* A diagnosis left its sleep because the reproduction ended poorly or the audit has
\* been taken, so no audit is still to contradict a reproduction that looked fine.
Awakened(s) ==
    \A t \in Tools : \A k \in DiagnosisOf(Domain(t)) :
        Profile(t) = "audit" /\ s.status[k] # "dormant"
        => t \in Acted(s) \/ PoorlyReproduced(s, Domain(t))

\* A contradiction has its diagnosis open or blocked, and blocked only by a failure.
Pursued(s) ==
    \A d \in s.contradictions :
        /\ \E k \in DiagnosisOf(d) : s.status[k] \in {"open", "blocked"}
        /\ \A k \in DiagnosisOf(d) : s.status[k] = "blocked" => Failed(s) # {}

\* A critical fact of the mission is not asleep, and blocked only by a failure.
CriticalFollowed(s) ==
    \A k \in MissionKeys : Requirement[k].priority = "critical" =>
        /\ s.status[k] # "dormant"
        /\ s.status[k] = "blocked" => Failed(s) # {}

\* What the mission holds, and the tools it has used, are the plan's.
Planned(s) ==
    /\ \A k \in MissionKeys : s.status[k] # "absent"
    /\ \A t \in Tools : s.observations[t] # {} => EnabledFor(t)

Investigating(s) == Planned(s) /\ Awakened(s) /\ Pursued(s) /\ CriticalFollowed(s)

\* The inductive invariant that adds to Inv what the registry's contracts promise.
DiagnosisInv ==
    /\ Inv
    /\ Investigating(state) /\ Investigating(saved)
    /\ {t \in Tools : Registry[t].risk # "network"} \subseteq configured
    /\ pending # NoTool => EnabledFor(pending)

\* The requirement a tool serves carries the tool's own contract.
LEMMA KeyContract ==
    ASSUME DiagnosisContracts, NEW t \in Tools
    PROVE  /\ Served(t) \in Keys
           /\ Requirement[Served(t)].domain = Domain(t)
           /\ Requirement[Served(t)].profile = Profile(t)
           /\ Requirement[Served(t)].priority = Registry[t].priority
           /\ Requirement[Served(t)].requires = Registry[t].requires
           /\ Requirement[Served(t)].dormant = Registry[t].dormant
<1> DEFINE u == CHOOSE v \in Tools : Registry[v].key = Served(t)
<1>1. u \in Tools /\ Registry[u].key = Registry[t].key
  BY DEF Served
<1>2. Served(t) \in Keys /\ Requirement[Served(t)] = Registry[u]
  BY RegistryFacts DEF Requirement
<1>3. \A f \in {"domain", "priority", "requires", "dormant"} :
          Registry[u][f] = Registry[t][f]
  BY <1>1, RegistryAssumption
<1>4. Registry[u].profile = Registry[t].profile
  BY <1>1 DEF DiagnosisContracts
<1> HIDE DEF u
<1> QED BY <1>2, <1>3, <1>4 DEF Domain, Profile

\* A requirement of the mission is served by a tool the plan enables.
LEMMA KeyOffered ==
    ASSUME NEW k \in MissionKeys
    PROVE  k \in Keys /\ \E t \in Tools : Served(t) = k /\ EnabledFor(t)
BY DEF MissionKeys, Capable, Served

\* A tool offered with an enabled one is enabled, and its requirement in the mission.
LEMMA OfferedTogether ==
    ASSUME NEW t \in Tools, NEW u \in Tools, EnabledFor(t), OfferedWith(u, t)
    PROVE  EnabledFor(u) /\ Served(u) \in MissionKeys
<1>1. EnabledFor(u)
  BY DEF EnabledFor, OfferedWith
<1> QED BY <1>1, RegistryFacts DEF MissionKeys, Capable, Served

\* A refresh never gives up on a diagnosis or on a critical fact.
LEMMA NeverHopeless ==
    ASSUME Diagnosable, {t \in Tools : Registry[t].risk # "network"} \subseteq configured,
           NEW s, NEW k \in MissionKeys,
           Requirement[k].profile = "diagnosis" \/ Requirement[k].priority = "critical"
    PROVE  ~Hopeless(s, k)
<1>1. PICK t \in Tools : Served(t) = k /\ EnabledFor(t)
  BY KeyOffered
<1>2. Profile(t) = "diagnosis" \/ Registry[t].priority = "critical"
  BY <1>1, KeyContract DEF Diagnosable
<1>3. Registry[t].risk # "network" /\ Registry[t].gates = {}
  BY <1>2 DEF Diagnosable, DiagnosisContracts, CriticalContracts, Profile
<1>4. t \in Capable(k) \cap configured
  BY <1>1, <1>3 DEF Capable, Served
<1>5. GatePasses(s, t)
  BY <1>3 DEF GatePasses
<1> QED BY <1>4, <1>5 DEF Hopeless

\* A refresh leaves contradictions and critical facts where they were.
LEMMA RefreshInvestigates ==
    ASSUME Diagnosable, {t \in Tools : Registry[t].risk # "network"} \subseteq configured,
           NEW s \in RunState, Investigating(s)
    PROVE  Investigating(RefreshBlocked(s))
<1> DEFINE r == RefreshBlocked(s)
<1>1. /\ r.observations = s.observations /\ r.contradictions = s.contradictions
      /\ r.actions = s.actions
      /\ \A k \in Keys : r.status[k] = IF s.status[k] = "open" /\ Hopeless(s, k)
                                         THEN "blocked" ELSE s.status[k]
  BY DEF RefreshBlocked, RunState
<1> HIDE DEF r
<1>2. Acted(r) = Acted(s) /\ Failed(r) = Failed(s)
  BY <1>1 DEF Acted, Failed
<1>3. \A d : \A k \in DiagnosisOf(d) : k \in MissionKeys /\ k \in Keys
                                       /\ r.status[k] = s.status[k]
  <2> SUFFICES ASSUME NEW d, NEW k \in DiagnosisOf(d)
               PROVE  k \in MissionKeys /\ k \in Keys /\ r.status[k] = s.status[k]
    OBVIOUS
  <2>1. k \in MissionKeys /\ k \in Keys /\ Requirement[k].profile = "diagnosis"
    BY KeyOffered DEF DiagnosisOf
  <2>2. ~Hopeless(s, k)
    BY <2>1, NeverHopeless
  <2> QED BY <1>1, <2>1, <2>2
<1>4. \A k \in MissionKeys : Requirement[k].priority = "critical" =>
          r.status[k] = s.status[k]
  <2> SUFFICES ASSUME NEW k \in MissionKeys, Requirement[k].priority = "critical"
               PROVE  r.status[k] = s.status[k]
    OBVIOUS
  <2>1. k \in Keys /\ ~Hopeless(s, k)
    BY NeverHopeless, KeyOffered
  <2> QED BY <1>1, <2>1
<1>5. Planned(r)
  <2>1. \A k \in MissionKeys : r.status[k] # "absent"
    BY <1>1, KeyOffered DEF Investigating, Planned
  <2> QED BY <1>1, <2>1 DEF Investigating, Planned
<1>6. Awakened(r)
  BY <1>1, <1>2, <1>3 DEF Investigating, Awakened, PoorlyReproduced
<1>7. Pursued(r)
  BY <1>1, <1>2, <1>3 DEF Investigating, Pursued
<1>8. CriticalFollowed(r)
  BY <1>2, <1>4 DEF Investigating, CriticalFollowed
<1> QED BY <1>5, <1>6, <1>7, <1>8 DEF Investigating, r

\* Reading the result of an enabled tool that has not acted changes none of it.
LEMMA ConsumedInvestigates ==
    ASSUME NEW s \in RunState, NEW t \in Tools, NEW facts, Investigating(s),
           EnabledFor(t), t \notin Acted(s)
    PROVE  LET c == Consumed(s, t, facts) IN
           /\ Investigating(c)
           /\ c.observations[t] = facts
<1> DEFINE c == Consumed(s, t, facts)
<1>1. /\ c.status = s.status /\ c.contradictions = s.contradictions
      /\ c.actions = s.actions
      /\ c.observations = [s.observations EXCEPT ![t] = facts]
  BY DEF Consumed, RunState
<1> HIDE DEF c
<1>2. /\ c.observations[t] = facts
      /\ \A u \in Tools \ {t} : c.observations[u] = s.observations[u]
  BY <1>1 DEF RunState
<1>3. Acted(c) = Acted(s) /\ Failed(c) = Failed(s) /\ Acted(s) \subseteq Tools \ {t}
  BY <1>1 DEF Acted, Failed
<1>4. Planned(c)
  BY <1>1, <1>2 DEF Investigating, Planned
<1>5. Awakened(c)
  <2>1. \A d : PoorlyReproduced(s, d) => PoorlyReproduced(c, d)
    BY <1>2, <1>3 DEF PoorlyReproduced
  <2> QED BY <1>1, <1>3, <2>1 DEF Investigating, Awakened
<1>6. Pursued(c) /\ CriticalFollowed(c)
  BY <1>1, <1>3 DEF Investigating, Pursued, CriticalFollowed
<1> QED BY <1>2, <1>4, <1>5, <1>6 DEF Investigating, c

\* An audit that contradicts the reproduction finds every diagnosis of its domain
\* asleep, and one to wake.
LEMMA ContradictionWakes ==
    ASSUME Diagnosable, NEW s \in RunState, NEW t \in Tools, NEW facts,
           Investigating(s), t \notin Acted(s), Contradicts(s, t, facts)
    PROVE  /\ DiagnosisOf(Domain(t)) # {}
           /\ \A k \in DiagnosisOf(Domain(t)) : s.status[k] = "dormant"
<1>1. PICK u \in Tools : /\ Profile(u) = "reproduction" /\ Domain(u) = Domain(t)
                         /\ "seen" \in s.observations[u]
                         /\ "poor" \notin s.observations[u]
  BY DEF Contradicts, Profile, Domain
<1>2. Profile(t) = "audit"
  BY DEF Contradicts, Profile
<1>3. EnabledFor(u)
  BY <1>1 DEF Investigating, Planned
<1>4. PICK w \in Tools : /\ Profile(w) = "diagnosis" /\ Domain(w) = Domain(t)
                         /\ OfferedWith(w, u)
  BY <1>1 DEF Diagnosable, DiagnosisContracts, Profile, Domain
<1>5. Served(w) \in DiagnosisOf(Domain(t))
  <2>1. Served(w) \in MissionKeys
    BY <1>3, <1>4, OfferedTogether
  <2>2. /\ Requirement[Served(w)].domain = Domain(t)
        /\ Requirement[Served(w)].profile = "diagnosis"
    BY <1>4, KeyContract DEF Diagnosable
  <2> QED BY <2>1, <2>2 DEF DiagnosisOf
<1>6. ~PoorlyReproduced(s, Domain(t))
  <2> SUFFICES ASSUME NEW v \in Acted(s), Profile(v) = "reproduction",
                      Domain(v) = Domain(t), "poor" \in s.observations[v]
               PROVE  FALSE
    BY DEF PoorlyReproduced
  <2>1. v \in Tools
    BY DEF Acted
  <2>2. v = u
    BY <1>1, <2>1 DEF Diagnosable, DiagnosisContracts, Profile, Domain
  <2> QED BY <1>1, <2>2
<1>7. \A k \in DiagnosisOf(Domain(t)) : s.status[k] = "dormant"
  BY <1>2, <1>6 DEF Investigating, Awakened
<1> QED BY <1>5, <1>7

\* Recording and reflecting on an action keeps every contradiction pursued and every
\* critical fact followed.
LEMMA ReflectInvestigates ==
    ASSUME Diagnosable, NEW s \in RunState, NEW t \in Tools, NEW completed \in BOOLEAN,
           NEW facts, Investigating(s), t \notin Acted(s),
           s.status[Served(t)] = "open",
           completed => s.observations[t] = facts
    PROVE  Investigating(Reflected(s, t, completed, facts))
<1> DEFINE r == Reflected(s, t, completed, facts)
           d == Domain(t)
<1>1. /\ r.observations = s.observations
      /\ r.status = StatusAfter(s, t, completed, facts)
      /\ r.contradictions = IF completed THEN ContradictionsAfter(s, t, facts)
                                         ELSE s.contradictions
      /\ r.actions = [s.actions EXCEPT ![t] = IF completed THEN "completed" ELSE "failed"]
  BY DEF Reflected, RunState
<1> HIDE DEF r
<1>2. /\ Acted(r) = Acted(s) \cup {t}
      /\ ~completed => Failed(r) # {}
      /\ Failed(s) # {} => Failed(r) # {}
  <2>1. \A u \in Tools : r.actions[u] = IF u = t THEN IF completed THEN "completed" ELSE "failed"
                                        ELSE s.actions[u]
    BY <1>1 DEF RunState
  <2>2. Acted(r) = Acted(s) \cup {t}
    BY <2>1 DEF Acted
  <2>3. ~completed => t \in Failed(r)
    BY <2>1 DEF Failed
  <2>4. Failed(s) \subseteq Failed(r)
    BY <2>1 DEF Failed, Acted
  <2> QED BY <2>2, <2>3, <2>4
<1>3. Served(t) \in Keys
  BY RegistryFacts
<1>4. r.status[Served(t)] = SettledAs(t, completed, facts)
  BY <1>1, <1>3 DEF StatusAfter, Served
<1>5. \A k \in Keys \ {Served(t)} :
          r.status[k] = IF /\ completed /\ k \in DiagnosisOf(d)
                           /\ s.status[k] = "dormant" /\ OpensDiagnosis(s, t, facts)
                        THEN "open" ELSE s.status[k]
  BY <1>1 DEF StatusAfter, Served, Domain
<1>6. \A k \in MissionKeys : k \in Keys
  BY KeyOffered
<1>7. \A e : \A k \in DiagnosisOf(e) :
          /\ k \in MissionKeys /\ k \in Keys
          /\ k = Served(t) => Profile(t) = "diagnosis" /\ e = d
  <2>1. /\ Requirement[Served(t)].domain = Domain(t)
        /\ Requirement[Served(t)].profile = Profile(t)
    BY KeyContract DEF Diagnosable
  <2> QED BY <1>6, <2>1 DEF DiagnosisOf
<1>8. SettledAs(t, completed, facts) \in Terminal
  BY DEF SettledAs, Terminal
<1>9. Planned(r)
  <2>1. \A k \in MissionKeys : r.status[k] # "absent"
    BY <1>4, <1>5, <1>6, <1>8 DEF Terminal, Investigating, Planned
  <2> QED BY <1>1, <2>1 DEF Investigating, Planned
<1>10. \A e : PoorlyReproduced(s, e) => PoorlyReproduced(r, e)
  BY <1>1, <1>2 DEF PoorlyReproduced
<1>11. Awakened(r)
  <2> SUFFICES ASSUME NEW u \in Tools, NEW k \in DiagnosisOf(Domain(u)),
                      Profile(u) = "audit", r.status[k] # "dormant",
                      u \notin Acted(r)
               PROVE  PoorlyReproduced(r, Domain(u))
    BY DEF Awakened
  <2>1. u # t /\ u \notin Acted(s)
    BY <1>2
  <2>2. CASE s.status[k] # "dormant"
    BY <1>10, <2>1, <2>2 DEF Investigating, Awakened
  <2>3. CASE s.status[k] = "dormant"
    <3>1. k # Served(t)
      BY <2>3
    <3>2. completed /\ k \in DiagnosisOf(d) /\ OpensDiagnosis(s, t, facts)
      BY <1>5, <1>7, <2>3, <3>1
    <3>3. Domain(u) = d
      BY <3>2 DEF DiagnosisOf
    <3>4. Profile(t) # "audit"
      BY <2>1, <3>3 DEF Diagnosable, DiagnosisContracts, Profile, Domain
    <3>5. Profile(t) = "reproduction" /\ "poor" \in facts
      BY <3>2, <3>4 DEF OpensDiagnosis, Contradicts, Profile
    <3> QED BY <1>1, <1>2, <3>2, <3>3, <3>5 DEF PoorlyReproduced
  <2> QED BY <2>2, <2>3
<1>12. Pursued(r)
  <2> SUFFICES ASSUME NEW e \in r.contradictions
               PROVE  /\ \E k \in DiagnosisOf(e) : r.status[k] \in {"open", "blocked"}
                      /\ \A k \in DiagnosisOf(e) : r.status[k] = "blocked" => Failed(r) # {}
    BY DEF Pursued
  <2>1. CASE completed /\ Contradicts(s, t, facts) /\ e = d
    <3>1. /\ DiagnosisOf(e) # {}
          /\ \A k \in DiagnosisOf(e) : s.status[k] = "dormant"
      BY <2>1, ContradictionWakes
    <3>2. OpensDiagnosis(s, t, facts)
      BY <2>1 DEF OpensDiagnosis
    <3>3. \A k \in DiagnosisOf(e) : r.status[k] = "open"
      BY <1>5, <1>7, <2>1, <3>1, <3>2
    <3> QED BY <3>1, <3>3
  <2>2. CASE ~(completed /\ Contradicts(s, t, facts) /\ e = d)
    <3>1. e \in s.contradictions
      BY <1>1, <2>2 DEF ContradictionsAfter, Domain
    <3>2. completed => ~(Profile(t) = "diagnosis" /\ e = d)
      BY <1>1 DEF ContradictionsAfter, Profile, Domain
    <3>3. \A k \in DiagnosisOf(e) : k = Served(t) => ~completed
      BY <1>7, <3>2
    <3>4. PICK k \in DiagnosisOf(e) : s.status[k] \in {"open", "blocked"}
      BY <3>1 DEF Investigating, Pursued
    <3>5. r.status[k] \in {"open", "blocked"}
      <4>1. CASE k = Served(t)
        BY <1>4, <3>3, <4>1 DEF SettledAs
      <4>2. CASE k # Served(t)
        BY <1>5, <1>7, <3>4, <4>2
      <4> QED BY <4>1, <4>2
    <3>6. ASSUME NEW h \in DiagnosisOf(e), r.status[h] = "blocked"
          PROVE  Failed(r) # {}
      <4>1. CASE h = Served(t)
        BY <1>2, <3>3, <4>1
      <4>2. CASE h # Served(t)
        <5>1. s.status[h] = "blocked"
          BY <1>5, <1>7, <3>6, <4>2
        <5> QED BY <1>2, <3>1, <5>1 DEF Investigating, Pursued
      <4> QED BY <4>1, <4>2
    <3> QED BY <3>4, <3>5, <3>6
  <2> QED BY <2>1, <2>2
<1>13. CriticalFollowed(r)
  <2> SUFFICES ASSUME NEW k \in MissionKeys, Requirement[k].priority = "critical"
               PROVE  /\ r.status[k] # "dormant"
                      /\ r.status[k] = "blocked" => Failed(r) # {}
    BY DEF CriticalFollowed
  <2>1. s.status[k] # "dormant" /\ (s.status[k] = "blocked" => Failed(s) # {})
    BY DEF Investigating, CriticalFollowed
  <2>2. CASE k = Served(t)
    <3>1. Registry[t].priority = "critical"
      BY <2>2, KeyContract DEF Diagnosable
    <3>2. Registry[t].needs = {}
      BY <3>1 DEF Diagnosable, CriticalContracts
    <3>3. completed => r.status[k] = "satisfied"
      BY <1>4, <2>2, <3>2 DEF SettledAs
    <3> QED BY <1>2, <1>4, <1>8, <2>2, <3>3 DEF Terminal
  <2>3. CASE k # Served(t)
    BY <1>2, <1>5, <1>6, <2>1, <2>3
  <2> QED BY <2>2, <2>3
<1> QED BY <1>9, <1>11, <1>12, <1>13 DEF Investigating, r

\* The plan never changes, so what held of a state of the mission holds of it after a
\* step that leaves the state there.
LEMMA InvestigatesNext ==
    ASSUME plan' = plan, NEW r, Investigating(r)
    PROVE  /\ state' = r => Investigating(state)'
           /\ saved' = r => Investigating(saved)'
<1>1. \A t : EnabledFor(t) <=> EnabledFor(t)'
  BY DEF EnabledFor
<1>2. MissionKeys' = MissionKeys
  BY DEF MissionKeys, Capable, EnabledFor
<1>3. \A d : DiagnosisOf(d)' = DiagnosisOf(d)
  BY <1>2 DEF DiagnosisOf
<1>4. ASSUME state' = r PROVE Investigating(state)'
  <2>1. Planned(state)'
    BY <1>1, <1>2, <1>4 DEF Investigating, Planned
  <2>2. Awakened(state)'
    BY <1>3, <1>4 DEF Investigating, Awakened, PoorlyReproduced, Acted
  <2>3. Pursued(state)'
    BY <1>3, <1>4 DEF Investigating, Pursued, Failed
  <2>4. CriticalFollowed(state)'
    BY <1>2, <1>4 DEF Investigating, CriticalFollowed, Failed
  <2> QED BY <2>1, <2>2, <2>3, <2>4 DEF Investigating
<1>5. ASSUME saved' = r PROVE Investigating(saved)'
  <2>1. Planned(saved)'
    BY <1>1, <1>2, <1>5 DEF Investigating, Planned
  <2>2. Awakened(saved)'
    BY <1>3, <1>5 DEF Investigating, Awakened, PoorlyReproduced, Acted
  <2>3. Pursued(saved)'
    BY <1>3, <1>5 DEF Investigating, Pursued, Failed
  <2>4. CriticalFollowed(saved)'
    BY <1>2, <1>5 DEF Investigating, CriticalFollowed, Failed
  <2> QED BY <2>1, <2>2, <2>3, <2>4 DEF Investigating
<1> QED BY <1>4, <1>5

\* Investigating does not depend on the evidence, nor on the cycle.
LEMMA InvestigatesAlike ==
    ASSUME NEW s, NEW r, Investigating(s), r.status = s.status, r.actions = s.actions,
           r.contradictions = s.contradictions, r.observations = s.observations
    PROVE  Investigating(r)
BY DEF Investigating, Planned, Awakened, PoorlyReproduced, Pursued, CriticalFollowed,
       Acted, Failed

\* No contradiction yet, every diagnosis asleep, every critical fact open.
LEMMA InitDiagnosis == Diagnosable /\ Init => DiagnosisInv
<1> SUFFICES ASSUME Diagnosable, Init PROVE DiagnosisInv
  OBVIOUS
<1>1. /\ Inv /\ state = FreshState /\ saved = FreshState /\ pending = NoTool
      /\ {t \in Tools : Registry[t].risk # "network"} \subseteq configured
  BY InitInv DEF Init
<1>2. /\ \A k \in Keys : FreshState.status[k] = CompiledStatus(k)
      /\ FreshState.contradictions = {}
      /\ \A t \in Tools : FreshState.observations[t] = {}
  BY DEF FreshState
<1>3. \A k \in MissionKeys : k \in Keys
  BY KeyOffered
<1>4. Planned(FreshState)
  BY <1>2, <1>3 DEF Planned, CompiledStatus
<1>5. Awakened(FreshState)
  <2> SUFFICES ASSUME NEW d, NEW k \in DiagnosisOf(d)
               PROVE  FreshState.status[k] = "dormant"
    BY DEF Awakened
  <2>1. k \in MissionKeys /\ Requirement[k].profile = "diagnosis"
    BY DEF DiagnosisOf
  <2>2. PICK t \in Tools : Served(t) = k
    BY <2>1, KeyOffered
  <2>3. Requirement[k].dormant
    BY <2>1, <2>2, KeyContract DEF Diagnosable, DiagnosisContracts, Profile
  <2> QED BY <1>2, <1>3, <2>1, <2>3 DEF CompiledStatus
<1>6. Pursued(FreshState)
  BY <1>2 DEF Pursued
<1>7. CriticalFollowed(FreshState)
  <2> SUFFICES ASSUME NEW k \in MissionKeys, Requirement[k].priority = "critical"
               PROVE  FreshState.status[k] = "open"
    BY DEF CriticalFollowed
  <2>1. PICK t \in Tools : Served(t) = k /\ EnabledFor(t)
    BY KeyOffered
  <2>2. Registry[t].priority = "critical"
    BY <2>1, KeyContract DEF Diagnosable
  <2>3. ~Requirement[k].dormant
    BY <2>1, <2>2, KeyContract DEF Diagnosable, CriticalContracts
  <2>4. Prerequisites(k) \subseteq MissionKeys
    <3> SUFFICES ASSUME NEW p \in Registry[t].requires PROVE p \in MissionKeys
      BY <2>1, KeyContract DEF Diagnosable, Prerequisites
    <3>1. PICK u \in Tools : Served(u) = p /\ OfferedWith(u, t)
      BY <2>2 DEF Diagnosable, CriticalContracts, Served
    <3> QED BY <2>1, <3>1, OfferedTogether
  <2> QED BY <1>2, <1>3, <2>3, <2>4 DEF CompiledStatus
<1> QED BY <1>1, <1>4, <1>5, <1>6, <1>7 DEF Investigating, DiagnosisInv

\* Recording the action of the tool that is executing keeps it.
LEMMA RecordInvestigates ==
    ASSUME Diagnosable, DiagnosisInv, pending # NoTool, NEW s \in RunState,
           s.status = state.status, s.actions = state.actions, Investigating(s),
           NEW completed \in BOOLEAN, NEW facts, completed => s.observations[pending] = facts,
           Record(s, completed, facts)
    PROVE  Investigating(state)' /\ Investigating(saved)'
<1> DEFINE r == Reflected(s, pending, completed, facts)
<1>1. pending \in Tools /\ s.status[Served(pending)] = "open"
  BY DEF DiagnosisInv, Inv, TypeOK, Picked
<1>2. pending \notin Acted(s)
  <2>1. Acted(s) = Acted(state)
    BY DEF Acted
  <2> QED BY <1>1, <2>1 DEF DiagnosisInv, Inv, Settled, Terminal
<1>3. Investigating(r)
  BY <1>1, <1>2, ReflectInvestigates
<1>4. state' = r /\ saved' = r /\ plan' = plan
  BY DEF Record
<1> HIDE DEF r
<1> QED BY <1>3, <1>4, InvestigatesNext

\* Every step keeps it.
LEMMA DiagnosisStep == Diagnosable /\ DiagnosisInv /\ [Next]_vars => DiagnosisInv'
<1> SUFFICES ASSUME Diagnosable, DiagnosisInv, [Next]_vars PROVE DiagnosisInv'
  OBVIOUS
<1>1. Inv'
  BY StepInv DEF DiagnosisInv
<1>2. state \in RunState /\ saved \in RunState
  BY DEF DiagnosisInv, Inv, TypeOK
<1>3. plan' = plan /\ configured' = configured
  BY DEF Next, vars, OutOfTime, Close, Decline, CostExceeded, Stop, Decide,
         RememberStrategy, Complete, ToolFails, ConsumeFails, Record, Crash
<1>4. ({t \in Tools : Registry[t].risk # "network"} \subseteq configured)'
  BY <1>3 DEF DiagnosisInv
<1>5. Investigating(RefreshBlocked(state))
  BY <1>2, RefreshInvestigates DEF DiagnosisInv
<1>6. ASSUME pending' = NoTool \/ pending' = pending
      PROVE  (pending # NoTool => EnabledFor(pending))'
  BY <1>3, <1>6 DEF DiagnosisInv, EnabledFor
<1>7. ASSUME saved' = saved PROVE Investigating(saved)'
  BY <1>3, <1>7, InvestigatesNext DEF DiagnosisInv
<1>8. ASSUME NEW s, Investigating(s), NEW why, Stop(why, s) PROVE DiagnosisInv'
  <2>1. state' = s /\ saved' = saved /\ pending' = pending
    BY <1>8 DEF Stop
  <2> QED BY <1>1, <1>3, <1>4, <1>6, <1>7, <1>8, <2>1, InvestigatesNext DEF DiagnosisInv
<1>9. CASE OutOfTime
  BY <1>8, <1>9 DEF OutOfTime, DiagnosisInv
<1>10. CASE Close \/ Decline \/ CostExceeded
  BY <1>5, <1>8, <1>10 DEF Close, Decline, CostExceeded
<1>11. CASE Decide
  <2> DEFINE r == RefreshBlocked(state)
             s == [r EXCEPT !.cycle = @ + 1]
  <2>1. state' = s /\ saved' = saved /\ pending' \in Candidates(state)
    BY <1>11 DEF Decide, Winners
  <2>2. r \in RunState
    BY <1>2, RefreshEffect
  <2> HIDE DEF r
  <2>3. /\ s.status = r.status /\ s.actions = r.actions
        /\ s.contradictions = r.contradictions /\ s.observations = r.observations
    BY <2>2 DEF RunState
  <2> HIDE DEF s
  <2>4. Investigating(s)
    BY <1>5, <2>3, InvestigatesAlike DEF r
  <2>5. Investigating(state)'
    BY <1>3, <2>1, <2>4, InvestigatesNext
  <2>6. EnabledFor(pending)'
    <3>1. PICK t \in Candidates(state) : pending' = t
      BY <2>1
    <3>2. EnabledFor(t)
      BY <3>1 DEF Candidates, Candidate, Capable
    <3> QED BY <1>3, <3>1, <3>2 DEF EnabledFor
  <2> QED BY <1>1, <1>4, <1>7, <2>1, <2>5, <2>6 DEF DiagnosisInv
<1>12. CASE RememberStrategy
  <2>1. state' = state /\ saved' = saved /\ pending' = pending
    BY <1>12 DEF RememberStrategy
  <2> QED BY <1>1, <1>3, <1>4, <1>6, <1>7, <2>1, InvestigatesNext DEF DiagnosisInv
<1>13. ASSUME pending # NoTool
       PROVE  /\ pending \in Tools /\ EnabledFor(pending)
              /\ pending \notin Acted(state)
  BY <1>13 DEF DiagnosisInv, Inv, TypeOK, Picked, Settled, Terminal
<1>14. ASSUME pending # NoTool, NEW s, NEW completed, NEW facts,
              Record(s, completed, facts), Investigating(state)', Investigating(saved)'
       PROVE  DiagnosisInv'
  BY <1>1, <1>4, <1>6, <1>14 DEF DiagnosisInv, Record
<1>15. CASE Complete
  <2>1. pending # NoTool
    BY <1>15 DEF Complete
  <2>2. PICK facts \in Outcomes[pending] :
           Record(Consumed(state, pending, facts), TRUE, facts)
    BY <1>15 DEF Complete
  <2> DEFINE s == Consumed(state, pending, facts)
  <2>3. s \in RunState /\ s.status = state.status /\ s.actions = state.actions
    BY <1>2, <1>13, <2>1, ConsumedEffect
  <2>4. Investigating(s) /\ s.observations[pending] = facts
    BY <1>2, <1>13, <2>1, ConsumedInvestigates DEF DiagnosisInv
  <2>5. Record(s, TRUE, facts)
    BY <2>2
  <2> HIDE DEF s
  <2>6. Investigating(state)' /\ Investigating(saved)'
    BY <2>1, <2>3, <2>4, <2>5, RecordInvestigates
  <2> QED BY <1>14, <2>1, <2>5, <2>6
<1>16. CASE ToolFails
  <2>1. pending # NoTool /\ Record(state, FALSE, {})
    BY <1>16 DEF ToolFails, MayFail
  <2>2. Investigating(state)' /\ Investigating(saved)'
    BY <1>2, <2>1, RecordInvestigates DEF DiagnosisInv
  <2> QED BY <1>14, <2>1, <2>2
<1>17. CASE ConsumeFails
  <2>1. pending # NoTool
    BY <1>17 DEF ConsumeFails, MayFail
  <2>2. PICK facts \in Outcomes[pending] :
           \E evidence \in {state.evidence, Consumed(state, pending, facts).evidence} :
             Record([Consumed(state, pending, facts) EXCEPT !.evidence = evidence],
                    FALSE, {})
    BY <1>17 DEF ConsumeFails
  <2> DEFINE c == Consumed(state, pending, facts)
  <2>3. PICK evidence \in {state.evidence, c.evidence} :
           Record([c EXCEPT !.evidence = evidence], FALSE, {})
    BY <2>2
  <2>4. /\ c \in RunState /\ c.evidence \in SUBSET {"local", "external"}
        /\ c.status = state.status /\ c.actions = state.actions
    BY <1>2, <1>13, <2>1, ConsumedEffect
  <2>5. Investigating(c)
    BY <1>2, <1>13, <2>1, ConsumedInvestigates DEF DiagnosisInv
  <2> HIDE DEF c
  <2>6. evidence \in SUBSET {"local", "external"}
    BY <1>2, <2>3, <2>4 DEF RunState
  <2> DEFINE s == [c EXCEPT !.evidence = evidence]
  <2>7. /\ s \in RunState
        /\ s.status = c.status /\ s.actions = c.actions
        /\ s.contradictions = c.contradictions /\ s.observations = c.observations
    BY <2>4, <2>6 DEF RunState
  <2>8. Record(s, FALSE, {})
    BY <2>3
  <2> HIDE DEF s
  <2>9. Investigating(s)
    BY <2>5, <2>7, InvestigatesAlike
  <2>10. Investigating(state)' /\ Investigating(saved)'
    BY <2>1, <2>4, <2>7, <2>8, <2>9, RecordInvestigates
  <2> QED BY <1>14, <2>1, <2>8, <2>10
<1>18. CASE Crash
  <2>1. state' = saved /\ saved' = saved /\ pending' = NoTool
    BY <1>18 DEF Crash
  <2> QED BY <1>1, <1>3, <1>4, <1>6, <1>7, <2>1, InvestigatesNext DEF DiagnosisInv
<1>19. CASE UNCHANGED vars
  <2>1. state' = state /\ saved' = saved /\ pending' = pending
    BY <1>19 DEF vars
  <2> QED BY <1>1, <1>3, <1>4, <1>6, <1>7, <2>1, InvestigatesNext DEF DiagnosisInv
<1> QED
  BY <1>9, <1>10, <1>11, <1>12, <1>15, <1>16, <1>17, <1>18, <1>19 DEF Next

\* The diagnosis invariant holds in every reachable state.
LEMMA DiagnosisInvariance == Diagnosable /\ Spec => []DiagnosisInv
<1> SUFFICES ASSUME Diagnosable PROVE Spec => []DiagnosisInv
  OBVIOUS
<1>1. Init => DiagnosisInv
  BY InitDiagnosis
<1>2. DiagnosisInv /\ [Next]_vars => DiagnosisInv'
  BY DiagnosisStep
<1> QED BY <1>1, <1>2, PTL DEF Spec

\* A contradiction is retained with its diagnosis open or visibly blocked, whatever the
\* order of reproduction, audit and diagnosis, failures and crashes: for every registry
\* with one reproduction and one audit per domain and a dormant diagnosis where a
\* reproduction may call for it.
THEOREM ContradictionsArePursued == Diagnosable /\ Spec => []ContradictionOpensDiagnosis
<1>1. DiagnosisInv => ContradictionOpensDiagnosis
  BY DEF DiagnosisInv, Investigating, Pursued, ContradictionOpensDiagnosis
<1> QED BY <1>1, DiagnosisInvariance, PTL

\* A run that ends with nothing failed and no serious requirement open has every
\* critical fact of its mission, and no contradiction: neither is ever given up
\* without a failed action that shows.
THEOREM VerifiedRunsAreEstablished == Diagnosable /\ Spec => []VerifiedMeansEstablished
<1> SUFFICES ASSUME Diagnosable PROVE Spec => []VerifiedMeansEstablished
  OBVIOUS
<1>1. DiagnosisInv => VerifiedMeansEstablished
  <2> SUFFICES ASSUME DiagnosisInv, Verified(state)
               PROVE  /\ \A k \in MissionKeys : Requirement[k].priority = "critical" =>
                                                    state.status[k] = "satisfied"
                      /\ state.contradictions = {}
    BY DEF VerifiedMeansEstablished
  <2>1. /\ Failed(state) = {}
        /\ \A k \in Keys : state.status[k] = "open" => ~Serious(k)
    BY DEF Verified, Ready
  <2>2. ASSUME NEW k \in MissionKeys, Requirement[k].priority = "critical"
        PROVE  state.status[k] = "satisfied"
    <3>1. state.status[k] \notin {"absent", "dormant", "blocked"}
      BY <2>1, <2>2 DEF DiagnosisInv, Investigating, Planned, CriticalFollowed
    <3>2. state.status[k] # "open"
      BY <2>1, <2>2, KeyOffered DEF Serious
    <3>3. state.status[k] \in Statuses
      BY KeyOffered DEF DiagnosisInv, Inv, TypeOK, RunState
    <3> QED BY <3>1, <3>2, <3>3 DEF Statuses, Terminal
  <2>3. ASSUME NEW d \in state.contradictions PROVE FALSE
    <3>1. PICK k \in DiagnosisOf(d) : state.status[k] = "open"
      BY <2>1 DEF DiagnosisInv, Investigating, Pursued
    <3>2. k \in MissionKeys /\ k \in Keys /\ Requirement[k].profile = "diagnosis"
      BY KeyOffered DEF DiagnosisOf
    <3>3. PICK t \in Tools : Served(t) = k
      BY <3>2, KeyOffered
    <3>4. Serious(k)
      BY <3>2, <3>3, KeyContract
         DEF Diagnosable, DiagnosisContracts, Profile, Serious
    <3> QED BY <2>1, <3>1, <3>2, <3>4
  <2> QED BY <2>2, <2>3
<1> QED BY <1>1, DiagnosisInvariance, PTL
=============================================================================
