----------------------------- MODULE Capabilities -----------------------------
(***************************************************************************)
(* The capability contracts the runtime ships with, as the data a mission   *)
(* is compiled from.  Decimal weights are in thousandths and costs in       *)
(* hundredths.  A requirement key is a pair (domain, what is established).  *)
(* A gate "metric of observation >= 3" is the tool whose observation must   *)
(* not be thin; completion_truthy is the set of facts the result must show. *)
(* A contract has at most one hypothesis: prior is its template's           *)
(* confidence, mild / strong what an observation raises it to               *)
(* (runtime/deliberation.py:454-557).                                       *)
(***************************************************************************)
EXTENDS Naturals, TLC

Modes == {"search", "recommend", "both", "audit"}

Contract(domain, what, priority, gain, cost, risk) ==
    [key |-> <<domain, what>>, domain |-> domain, priority |-> priority,
     gain |-> gain, cost |-> cost, risk |-> risk, base |-> {}, explore |-> {},
     requires |-> {}, dormant |-> FALSE, needs |-> {}, gates |-> {},
     profile |-> "plain", prior |-> 0, mild |-> 0, strong |-> 0]

WorkspaceFacts == <<"general", "facts">>

Inspection ==
    [Contract("general", "facts", "critical", 1000, 35, "read") EXCEPT !.base = Modes]

Research ==
    [Contract("external", "context", "medium", 760, 180, "network")
        EXCEPT !.base = Modes, !.requires = {WorkspaceFacts}]

Reproduction(domain, gain, cost, prior, raised) ==
    [Contract(domain, "reproduction", "critical", gain, cost, "read")
        EXCEPT !.base = {domain, "both"}, !.requires = {WorkspaceFacts},
               !.profile = "reproduction",
               !.prior = prior, !.mild = raised, !.strong = raised]

Diagnosis(domain) ==
    [Contract(domain, "diagnosis", "high", 880, 70, "read")
        EXCEPT !.base = {domain, "both"}, !.requires = {<<domain, "reproduction">>},
               !.dormant = TRUE, !.profile = "diagnosis"]

Audit(domain, cost, mild, strong) ==
    [Contract(domain, "global_quality", "high", 800, cost, "simulation")
        EXCEPT !.base = {"audit", "both"}, !.explore = {domain},
               !.requires = {WorkspaceFacts}, !.profile = "audit",
               !.prior = 320, !.mild = mild, !.strong = strong]

Evolution(domain, audit, cost) ==
    [Contract(domain, "candidate_validation", "high", 700, cost, "adaptive")
        EXCEPT !.explore = {domain, "both", "audit"},
               !.requires = {<<domain, "global_quality">>},
               !.needs = {"evaluation_ready"}, !.gates = {audit}]

DefaultCapabilities ==
       "data.inspect"       :> Inspection
    @@ "web.research"       :> Research
    @@ "search.run"         :> Reproduction("search", 950, 90, 420, 840)
    @@ "search.diagnose"    :> Diagnosis("search")
    @@ "search.audit"       :> Audit("search", 200, 680, 920)
    @@ "search.evolve"      :> Evolution("search", "search.audit", 600)
    @@ "recommend.run"      :> Reproduction("recommend", 940, 100, 340, 860)
    @@ "recommend.diagnose" :> Diagnosis("recommend")
    @@ "recommend.audit"    :> Audit("recommend", 220, 780, 780)
    @@ "recommend.evolve"   :> Evolution("recommend", "recommend.audit", 650)
=============================================================================
