---------------------------- MODULE MCMissionGraph ----------------------------
(* The shipped capability registry, what its tools may return, and a plan    *)
(* for each of the scopes a user can ask for.                                *)
EXTENDS Capabilities, MissionGraph

(* The shipped contracts keep to what the theorems ask of a registry.        *)
ASSUME ShippedContracts == DiagnosisContracts /\ CriticalContracts

Seen(sets) == {{"seen"} \cup facts : facts \in sets}

(* A thin audit has next to nothing to evaluate, so it has collapsed too.    *)
AuditFacts == {{}, {"gap"}, {"gap", "collapse"}, {"gap", "collapse", "thin"}}

MCOutcomes ==
    [t \in Tools |->
        CASE t = "web.research" -> Seen({{}, {"rows"}})
          [] Registry[t].profile = "reproduction" ->
                Seen({{"rows"}, {"rows", "poor"}, {"poor"}})
          [] Registry[t].profile = "audit" -> Seen(AuditFacts)
          [] Registry[t].risk = "adaptive" -> Seen({{}, {"evaluation_ready"}})
          [] OTHER -> Seen({{}})]

Plan(mode, explore, net) == [mode |-> mode, explore |-> explore, net |-> net]

MCPlans ==
    {Plan("search", TRUE, "permitted"), Plan("recommend", TRUE, "denied"),
     Plan("recommend", FALSE, "requested"), Plan("both", FALSE, "denied"),
     Plan("audit", TRUE, "denied")}
=============================================================================
