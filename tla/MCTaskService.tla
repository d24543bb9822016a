---------------------------- MODULE MCTaskService ----------------------------
(* Two tasks below the root, of which one may run at a time; four for the  *)
(* deadlock, which needs a task for each part in it.                       *)
EXTENDS TaskService

\* Undisturbed, and with each disturbance; only a refused task can be resumed without an interrupt.
MCScenarios ==
    {{}, {"interrupt"}, {"die"}, {"crash"}, {"send"}, {"timeout"}, {"early"}, {"patch"}, {"stray"},
     {"fail", "resume"}}

InterruptScenarios == {{"interrupt"}}
CalmScenarios == {{}}
EarlyScenarios == {{"early"}}
=============================================================================
