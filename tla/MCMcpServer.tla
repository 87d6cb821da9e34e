---------------------------- MODULE MCMcpServer ----------------------------
(* Values for TLC: two sessions of one server whose clients both number     *)
(* their requests from 1.  The first makes a handshake and a tool call, the *)
(* second a list request, which may profit from the first one's handshake,  *)
(* and a tool call with the same id as the first one's.                    *)
EXTENDS McpServer, TLC

CONSTANTS h1, k1, k2, l2, A, B

MCCalls == {h1, k1, k2, l2}
MCSession == [c \in MCCalls |-> IF c \in {h1, k1} THEN A ELSE B]
MCId == [c \in MCCalls |-> IF c \in {h1, l2} THEN 1 ELSE 2]
MCMethod == h1 :> "initialize" @@ k1 :> "tools/call" @@ k2 :> "tools/call" @@ l2 :> "list"

MCFirst == {k1}
MCSecond == {k2}
=============================================================================
