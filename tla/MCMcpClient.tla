---------------------------- MODULE MCMcpClient ----------------------------
(* Values for TLC: a handshake and a request that may be cancelled, with    *)
(* ids that hash to different shards, or to the same one.                   *)
EXTENDS McpClient

CONSTANTS c1, c2

MCCalls == {c1, c2}
MCHellos == {c1}
MCCancelling == {c2}
MCShard == [c \in MCCalls |-> IF c = c2 THEN 1 ELSE 0]
MCOneShard == [c \in MCCalls |-> 0]
=============================================================================
