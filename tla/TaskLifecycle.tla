--------------------------- MODULE TaskLifecycle ---------------------------
(***************************************************************************)
(* What a client of the task dispatcher may rely on, whatever the workers  *)
(* and the scheduler do: the record of a task only moves forward, and the  *)
(* answer that waiting on its handle yields agrees with that record.       *)
(***************************************************************************)
CONSTANT Tasks

VARIABLES
  record,  \* the state in the task's record; "none" before dispatch
  answer   \* what wait() returned; "none" until it has

lifecycleVars == <<record, answer>>

Final == {"Completed", "Failed", "Cancelled"}

Init ==
  /\ record = [t \in Tasks |-> "none"]
  /\ answer = [t \in Tasks |-> "none"]

\* A record only moves forward, and a final one never moves again.
Forward(t, r) ==
  /\ \/ record[t] = "none" /\ r = "Queued"
     \/ record[t] = "Queued" /\ r \in {"Running", "Cancelled"}
     \/ record[t] = "Running" /\ r \in Final
  /\ record' = [record EXCEPT ![t] = r]
  /\ UNCHANGED answer

\* A result is passed on only after the record states it.  Being told
\* "Cancelled", or that the worker vanished, promises nothing of the record.
Answer(t, a) ==
  /\ record[t] # "none"
  /\ answer[t] = "none"
  /\ \/ a \in {"Completed", "Failed"} /\ record[t] = a
     \/ a = "Cancelled"
     \/ a = "Internal" /\ record[t] = "Running"
  /\ answer' = [answer EXCEPT ![t] = a]
  /\ UNCHANGED record

Next ==
  \E t \in Tasks :
    \/ \E r \in Final \cup {"Queued", "Running"} : Forward(t, r)
    \/ \E a \in Final \cup {"Internal"} : Answer(t, a)

Spec == Init /\ [][Next]_lifecycleVars
=============================================================================
