------------------------------- MODULE JobQueue -------------------------------
(***************************************************************************)
(* What the rest_rl daemon promises to the IDE, without threads and flags: *)
(* jobs are settled one at a time in the order they were enqueued; a       *)
(* settled job may leave a result, and results are collected in order,     *)
(* each of them once.                                                      *)
(***************************************************************************)
EXTENDS Sequences

CONSTANT Ids          \* names of jobs; two jobs may bear the same name

VARIABLES
  jobs,               \* the jobs not settled yet, oldest first
  results             \* the results not collected yet, oldest first

vars == <<jobs, results>>

Init == jobs = <<>> /\ results = <<>>

\* A client adds a job.
Submit ==
  /\ \E id \in Ids : jobs' = Append(jobs, id)
  /\ UNCHANGED results

\* The oldest job is settled, with a result ...
Complete ==
  /\ jobs # <<>>
  /\ jobs' = Tail(jobs)
  /\ results' = Append(results, Head(jobs))

\* ... or without one.
Fail ==
  /\ jobs # <<>>
  /\ jobs' = Tail(jobs)
  /\ UNCHANGED results

\* A client takes all results.
Collect ==
  /\ results' = <<>>
  /\ UNCHANGED jobs

Next == Submit \/ Complete \/ Fail \/ Collect

Spec == Init /\ [][Next]_vars
===============================================================================
