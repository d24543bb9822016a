------------------------------ MODULE MCServices ------------------------------
(* The small services of the process, which share no state: each behaviour  *)
(* is one of them while the others stand still.                             *)
EXTENDS SequentialExecution, MutexMap, IdleCompaction, OAuthFlows, InitState, BackgroundProcess, McpServers, TLC

VARIABLE service    \* the one that runs in this behaviour

serviceVars == <<toolVars, mapVars, idleVars, flowVars, initVars, procVars, mcpVars>>

MCInit ==
    /\ ToolInit /\ MapInit /\ IdleInit /\ FlowInit /\ InitStateInit /\ ProcInit /\ McpInit
    /\ service \in {"tools", "map", "idle", "oauth", "init", "process", "mcp"}

Tools == service = "tools" /\ ToolNext /\ UNCHANGED <<mapVars, idleVars, flowVars, initVars, procVars, mcpVars>>
Maps == service = "map" /\ MapNext /\ UNCHANGED <<toolVars, idleVars, flowVars, initVars, procVars, mcpVars>>
Idles == service = "idle" /\ IdleNext /\ UNCHANGED <<toolVars, mapVars, flowVars, initVars, procVars, mcpVars>>
OAuths == service = "oauth" /\ FlowNext /\ UNCHANGED <<toolVars, mapVars, idleVars, initVars, procVars, mcpVars>>
Inits == service = "init" /\ InitStateNext /\ UNCHANGED <<toolVars, mapVars, idleVars, flowVars, procVars, mcpVars>>
Procs == service = "process" /\ ProcNext /\ UNCHANGED <<toolVars, mapVars, idleVars, flowVars, initVars, mcpVars>>
Mcps == service = "mcp" /\ McpNext /\ UNCHANGED <<toolVars, mapVars, idleVars, flowVars, initVars, procVars>>

MCNext == (Tools \/ Maps \/ Idles \/ OAuths \/ Inits \/ Procs \/ Mcps) /\ UNCHANGED service

MCSpec == MCInit /\ [][MCNext]_<<serviceVars, service>>

\* The servers and the calls of McpServers are alike.
Alike == Permutations(McpNames) \cup Permutations(McpCalls)

\* What the two properties of McpServers say of ends with a clash, and so do the behaviours.
UntilClash == ~clashed
=============================================================================
