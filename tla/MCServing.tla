----------------------------- MODULE MCServing -----------------------------
(***************************************************************************)
(* The two servers of the appliance.  They share no state, so the run      *)
(* starts one or the other and checks each alone.                          *)
(***************************************************************************)
EXTENDS McpServer, Daemon

VARIABLE serving
servingVars == <<serving, mcpVars, daemonVars>>

Init == serving \in {"mcp", "daemon"} /\ McpInit /\ DaemonInit

Next ==
  /\ UNCHANGED serving
  /\ \/ serving = "mcp" /\ McpNext /\ UNCHANGED daemonVars
     \/ serving = "daemon" /\ DaemonNext /\ UNCHANGED mcpVars

\* McpFairness and DaemonFairness, each for the server that runs.
Fairness ==
  /\ WF_mcpVars(serving = "mcp" /\ LoopTop)
  /\ WF_mcpVars(serving = "mcp" /\ Drained)
  /\ WF_mcpVars(serving = "mcp" /\ Closed)
  /\ WF_mcpVars(serving = "mcp" /\ Write)
  /\ \A c \in 1 .. MaxLines :
       /\ WF_mcpVars(c \in Numbers /\ Handler(c))
       /\ WF_mcpVars(c \in Numbers /\ Supervisor(c))
       /\ WF_mcpVars(c \in Numbers /\ ChildEnds(c))
  /\ DaemonFairness

Spec == Init /\ [][Next]_servingVars /\ Fairness

\* Every variable of both servers stays in its type.
ServingTypeOK == McpTypeOK /\ DaemonTypeOK
=============================================================================
