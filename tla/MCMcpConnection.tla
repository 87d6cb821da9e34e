-------------------------- MODULE MCMcpConnection --------------------------
(* Values for TLC: a handshake and a tool call that hangs and may be        *)
(* cancelled by its client.                                                *)
EXTENDS McpConnection, TLC

CONSTANTS h, k

MCCalls == {h, k}
MCMethod == h :> "initialize" @@ k :> "tools/call"
MCTool == {k}
MCShard == [c \in MCCalls |-> 0]
=============================================================================
