---------------------------- MODULE MCExternal ----------------------------
(* Small instances of what a quantum leaves to other processes: the requests   *)
(* to an MCP server (Mcp) and a background command (TerminalTask).  They share *)
(* no state, so a behaviour is one of a part: part says of which, and the      *)
(* variables of the other stay as they are.                                    *)
EXTENDS Mcp, TerminalTask, TLC

CONSTANTS a1, a2

VARIABLE part

\* The MCP server of a behaviour of a command is one that could not be connected.
NotConnected ==
  /\ transport = "stdio" /\ stage = "failed" /\ waiting = <<>> /\ call = NoCall
  /\ nextRequest = FirstId
  /\ owed = {} /\ alive = FALSE /\ torn = FALSE /\ out = <<>> /\ extras = 0
  /\ reader = FALSE /\ streamState = "Unknown" /\ pendingIds = {} /\ box = Nothing
  /\ mistaken = NotMistaken /\ upset = FALSE

ExternalInit ==
  /\ part \in {"mcp", "terminal"}
  /\ TerminalInit
  /\ IF part = "mcp" THEN McpInit ELSE NotConnected

ExternalNext ==
  \/ part = "mcp" /\ McpNext /\ UNCHANGED <<part, terminalVars>>
  \/ part = "terminal" /\ TerminalNext /\ UNCHANGED <<part, mcpVars>>

ExternalSpec ==
  /\ ExternalInit /\ [][ExternalNext]_<<part, mcpVars, terminalVars>>
  /\ McpFairness /\ TerminalFairness
=============================================================================
