--------------------------- MODULE MCHostServices ---------------------------
(***************************************************************************)
(* Services that must go on serving; the parts share no state, so that      *)
(* a behaviour is one of one part, chosen in the initial state, and the      *)
(* variables of the others stay as they are.                               *)
(***************************************************************************)
EXTENDS OllamaHost, SseSessions, InferenceSlots, BrowserAgent, IdleNotices

CONSTANTS s1, c1, p1, p2, k1, q1

(* The browser agent: runs over HTTP and from the chat, approvals, an abort.  *)
MCStarts == {s1}
MCChats == {c1}
MCGated == {c1}
MCApprovals == {p1, p2}
MCChatApprovals == {k1}
MCAborts == {q1}
MCMoves == {"plain", "checkout", "complete"}

VARIABLE part

vars == <<hostVars, sseVars, slotVars, agentVars, idleVars, part>>

Init ==
  /\ part \in {"host", "sse", "slots", "agent", "idle"}
  /\ HostInit /\ SseInit /\ SlotInit /\ AgentInit /\ IdleInit
  /\ part # "host" => daemon = "up"
  /\ part # "idle" => alive

Next ==
  /\ part' = part
  /\ \/ /\ part = "host" /\ HostNext
        /\ UNCHANGED <<sseVars, slotVars, agentVars, idleVars>>
     \/ /\ part = "sse" /\ SseNext
        /\ UNCHANGED <<hostVars, slotVars, agentVars, idleVars>>
     \/ /\ part = "slots" /\ SlotNext
        /\ UNCHANGED <<hostVars, sseVars, agentVars, idleVars>>
     \/ /\ part = "agent" /\ AgentNext
        /\ UNCHANGED <<hostVars, sseVars, slotVars, idleVars>>
     \/ /\ part = "idle" /\ IdleNext
        /\ UNCHANGED <<hostVars, sseVars, slotVars, agentVars>>

Spec ==
  /\ Init /\ [][Next]_vars
  /\ HostFairness /\ SseFairness /\ SlotFairness /\ AgentFairness

=============================================================================
