---------------------------- MODULE RequestReply ----------------------------
(***************************************************************************)
(* What a caller of an MCP connection may rely on: a request that is made  *)
(* returns once, with the verdict that the other side gave on this very    *)
(* request, or with a failure of the connection.                           *)
(***************************************************************************)
CONSTANTS Calls, Cancelling

VARIABLES
  phase,     \* "idle", "open", "done"
  response,  \* the verdict of the other side on the request, "none" before
  outcome    \* what the request returned, "none" before

rrVars == <<phase, response, outcome>>

Verdicts == {"result", "error"}
Failures == {"unsent", "timeout", "dropped"}

Init ==
  /\ phase = [c \in Calls |-> "idle"]
  /\ response = [c \in Calls |-> "none"]
  /\ outcome = [c \in Calls |-> "none"]

Issue(c) ==
  /\ phase[c] = "idle"
  /\ phase' = [phase EXCEPT ![c] = "open"]
  /\ UNCHANGED <<response, outcome>>

\* The other side answers a request once, even if nobody waits any more.
Respond(c, v) ==
  /\ phase[c] # "idle"
  /\ response[c] = "none"
  /\ response' = [response EXCEPT ![c] = v]
  /\ UNCHANGED <<phase, outcome>>

Return(c, o) ==
  /\ phase[c] = "open"
  /\ \/ o \in Verdicts /\ response[c] = o
     \/ o \in Failures /\ (o = "dropped" => c \in Cancelling)
  /\ phase' = [phase EXCEPT ![c] = "done"]
  /\ outcome' = [outcome EXCEPT ![c] = o]
  /\ UNCHANGED response

Next ==
  \E c \in Calls :
    \/ Issue(c)
    \/ \E v \in Verdicts : Respond(c, v)
    \/ \E o \in Verdicts \cup Failures : Return(c, o)

Spec == Init /\ [][Next]_rrVars
=============================================================================
