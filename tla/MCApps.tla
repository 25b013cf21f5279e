------------------------------- MODULE MCApps -------------------------------
(***************************************************************************)
(* What runs in a VM for the user: the installation of applications (two,  *)
(* one of them through the control channel, while the user edits no URL),  *)
(* the shell sessions and the MCP servers.  They share no state, so a      *)
(* behaviour is of one of them.                                            *)
(***************************************************************************)
EXTENDS AppInstall, ShellSessions, McpProxy

CONSTANTS i1, i2, user

VARIABLE part   \* chosen once

AppsInit ==
  /\ part \in {"install", "shell", "mcp"}
  /\ AppInit /\ ShellInit /\ McpInit

AppsNext ==
  /\ UNCHANGED part
  /\ \/ /\ part = "install" /\ AppNext /\ urlTask' = NoUrl /\ editor'[user] = NoEditing
        /\ (inst'[i2].pc # "new" => inst'[i2].path = "control")
        /\ UNCHANGED <<shellVars, mcpVars>>
     \/ part = "shell" /\ ShellNext /\ UNCHANGED <<appVars, settingsVars, mcpVars>>
     \/ part = "mcp" /\ McpNext /\ UNCHANGED <<appVars, settingsVars, shellVars>>

\* No installation and no call is under way in the other parts: their fairness
\* asks for nothing there.  The MCP daemon has its configuration to read.
AppsSpec ==
  /\ AppsInit /\ [][AppsNext]_<<appVars, settingsVars, shellVars, mcpVars, part>>
  /\ AppFair /\ ShellFair /\ (part = "mcp" => McpFair)
=============================================================================
