---------------------------- MODULE MCAgentSession ----------------------------
(* The scenarios in which the runs check AgentSession. *)
EXTENDS AgentSession

Scenario(e, d) == [events |-> e, disturbances |-> d]

\* Every event happens in one of them, and those that meet in the code meet here.
AllScenarios ==
    {Scenario({}, 2), Scenario({"switch"}, 2), Scenario({"switch", "error"}, 1),
     Scenario({"compact"}, 1), Scenario({"midstream"}, 1), Scenario({"retry"}, 1),
     Scenario({"now", "impatient"}, 2), Scenario({"unopened"}, 2), Scenario({"overtake"}, 2)}

CompactScenarios == {Scenario({"compact"}, 0)}
====
