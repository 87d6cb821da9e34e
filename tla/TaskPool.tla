------------------------------ MODULE TaskPool ------------------------------
(***************************************************************************)
(* What the task scheduler of the MCP engine promises to the dispatcher,   *)
(* without lanes, quotas, ageing or wake-ups: a pool of submitted tasks    *)
(* from which every task is handed to a worker at most once, in which a    *)
(* task leaves unserved only because it was cancelled, and in which        *)
(* nothing waits for ever.  MultiLaneScheduler implements it.              *)
(***************************************************************************)
CONSTANT Tasks

VARIABLES
  phase,      \* "new", "pooled" (submitted), "taken" (given to a worker), "gone"
  cancelled   \* the tasks whose cancellation token has fired

poolVars == <<phase, cancelled>>

Init ==
  /\ phase = [t \in Tasks |-> "new"]
  /\ cancelled = {}

Submit(t) ==
  /\ phase[t] = "new"
  /\ phase' = [phase EXCEPT ![t] = "pooled"]
  /\ UNCHANGED cancelled

Cancel(t) ==
  /\ phase[t] # "new"
  /\ cancelled' = cancelled \cup {t}
  /\ UNCHANGED phase

\* Only a task that is not cancelled at that instant is handed out.
Take(t) ==
  /\ phase[t] = "pooled"
  /\ t \notin cancelled
  /\ phase' = [phase EXCEPT ![t] = "taken"]
  /\ UNCHANGED cancelled

\* Only a cancelled task is thrown away.
Drop(t) ==
  /\ phase[t] = "pooled"
  /\ t \in cancelled
  /\ phase' = [phase EXCEPT ![t] = "gone"]
  /\ UNCHANGED cancelled

Finish(t) ==
  /\ phase[t] = "taken"
  /\ phase' = [phase EXCEPT ![t] = "gone"]
  /\ UNCHANGED cancelled

Next ==
  \E t \in Tasks : Submit(t) \/ Cancel(t) \/ Take(t) \/ Drop(t) \/ Finish(t)

\* A pooled task does not stay in the pool for ever.
Spec ==
  /\ Init
  /\ [][Next]_poolVars
  /\ \A t \in Tasks : WF_poolVars(Take(t) \/ Drop(t))
=============================================================================
