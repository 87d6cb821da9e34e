----------------------------- MODULE RestRLDaemon -----------------------------
(***************************************************************************)
(* The rest_rl daemon (src/IDE/rest_rl/rest_rl_daemon.py): RPC threads     *)
(* that enqueue tasks, report the IDE idle or active, collect resolutions  *)
(* and shut the daemon down, and the worker thread that takes the head of  *)
(* the queue through an adapter's rollout.  The rollout is that of         *)
(* adapters/tier3_minimal.py (tiers 1 and 2 have its shape) with the test  *)
(* process of sandbox.py.                                                  *)
(*                                                                         *)
(* A step reads or writes one thing other threads see: a flag, the queue   *)
(* under its lock, a task's state, a row of the database, the process.     *)
(***************************************************************************)
EXTENDS Integers, Sequences

CONSTANTS
  Tasks,       \* calls of agent/enqueue_task, and the DaemonTask each creates
  Ids,         \* task ids; two calls may carry the same one
  IdOf,        \* the id of each call ...
  TargetOf,    \* ... and its target file
  Starts,      \* calls of ide/idle_start
  Stops,       \* calls of ide/idle_stop
  Quits,       \* calls of system/shutdown
  Samples,     \* iterations of a rollout (max_iterations)
  None

ASSUME TaskAssumption ==
  /\ IdOf \in [Tasks -> Ids]
  /\ Samples \in Nat \ {0}
  /\ None \notin Tasks \cup Ids \cup Int

ASSUME CallAssumption ==
  /\ Starts \cap Stops = {}
  /\ Starts \cap Quits = {}
  /\ Stops \cap Quits = {}
  /\ Tasks \cap (Starts \cup Stops \cup Quits) = {}

VARIABLES
  call,        \* how far the thread of each RPC call has come
  isIdle, pauseSet, running,             \* is_idle, pause_event, running
  taskQueue, tasks, currentTaskId,       \* under task_lock
  state,       \* DaemonTask.state
  resolved,    \* resolved_tasks: the finished tasks nobody has polled
  delivered,   \* the tasks whose resolution a poll has returned
  dbState, dbResolutions,                \* the tables tasks and resolutions
  adapter,     \* _task_states: samples done of a rollout that can be resumed
  pc, job,     \* the worker: where it is and the task it holds
  reads,       \* the flag it reads next in a check of several flags
  sample,      \* current_sample
  last,        \* the task of _last_target_filename and _last_task_id
  proc,        \* the test process of the sandbox
  calm,        \* history: stops that no step of a start has followed
  stray        \* history: work begun since the last of them returned

flags == <<isIdle, pauseSet, running>>
queueVars == <<taskQueue, tasks, currentTaskId>>
dbVars == <<dbState, dbResolutions>>
results == <<resolved, delivered>>
place == <<pc, job, reads, sample, last>>
history == <<calm, stray>>
vars == <<call, flags, queueVars, state, results, dbVars, adapter, place, proc, history>>

Calls == Tasks \cup Starts \cup Stops \cup Quits
Rollout == {"baseline", "before", "sample", "after", "candidate"}
Holding == Rollout \cup {"mark", "saveRunning", "enter", "pause", "savePaused",
                         "complete", "resolve", "fail", "saveFailed", "drop"}
States == {"QUEUED", "RUNNING", "PAUSED", "COMPLETED", "FAILED"}

Init ==
  /\ call = [c \in Calls |-> "todo"]
  /\ isIdle = FALSE /\ pauseSet = TRUE /\ running = TRUE
  /\ taskQueue = <<>> /\ tasks = [i \in Ids |-> None] /\ currentTaskId = None
  /\ state = [t \in Tasks |-> None]
  /\ resolved = <<>> /\ delivered = <<>>
  /\ dbState = [i \in Ids |-> None] /\ dbResolutions = <<>>
  /\ adapter = [i \in Ids |-> None]
  /\ pc = "loop" /\ job = None /\ reads = 1 /\ sample = 0 /\ last = None
  /\ proc = "none"
  /\ calm = {} /\ stray = 0

(***************************************************************************)
(* RPC threads.                                                            *)
(***************************************************************************)

\* agent/enqueue_task: the task and its place in the queue, under the lock.
Enqueue(t) ==
  /\ call[t] = "todo"
  /\ call' = [call EXCEPT ![t] = "saving"]
  /\ state' = [state EXCEPT ![t] = "QUEUED"]
  /\ tasks' = [tasks EXCEPT ![IdOf[t]] = t]
  /\ taskQueue' = Append(taskQueue, IdOf[t])
  /\ UNCHANGED <<flags, currentTaskId, results, dbVars, adapter, place, proc, history>>

\* Its row in the database, written after the lock is released.
EnqueueSave(t) ==
  /\ call[t] = "saving"
  /\ call' = [call EXCEPT ![t] = "done"]
  /\ dbState' = [dbState EXCEPT ![IdOf[t]] = "QUEUED"]
  /\ UNCHANGED <<flags, queueVars, state, results, dbResolutions, adapter, place, proc, history>>

\* ide/idle_start sets the flag, then clears the pause event.
Disturb == calm' = {} /\ stray' = 0

StartIdle(c) ==
  /\ call[c] = "todo"
  /\ call' = [call EXCEPT ![c] = "half"]
  /\ isIdle' = TRUE
  /\ Disturb
  /\ UNCHANGED <<pauseSet, running, queueVars, state, results, dbVars, adapter, place, proc>>

StartResume(c) ==
  /\ call[c] = "half"
  /\ call' = [call EXCEPT ![c] = "done"]
  /\ pauseSet' = FALSE
  /\ Disturb
  /\ UNCHANGED <<isIdle, running, queueVars, state, results, dbVars, adapter, place, proc>>

\* ide/idle_stop clears the flag, sets the pause event and kills the test
\* process, if the sandbox has it on its list.
StopIdle(c) ==
  /\ call[c] = "todo"
  /\ call' = [call EXCEPT ![c] = "half"]
  /\ isIdle' = FALSE
  /\ calm' = calm \cup {c}
  /\ UNCHANGED <<pauseSet, running, queueVars, state, results, dbVars, adapter, place, proc, stray>>

StopPause(c) ==
  /\ call[c] = "half"
  /\ call' = [call EXCEPT ![c] = "killing"]
  /\ pauseSet' = TRUE
  /\ UNCHANGED <<isIdle, running, queueVars, state, results, dbVars, adapter, place, proc, history>>

StopKill(c) ==
  /\ call[c] = "killing"
  /\ call' = [call EXCEPT ![c] = "done"]
  /\ proc' = IF proc = "listed" THEN "killed" ELSE proc
  /\ UNCHANGED <<flags, queueVars, state, results, dbVars, adapter, place, history>>

\* A mutant: polling does not clear the list.
MutPoll ==
  /\ resolved # <<>> /\ Len(delivered) < 4
  /\ delivered' = delivered \o resolved
  /\ UNCHANGED <<call, flags, queueVars, state, resolved, dbVars, adapter, place, proc, history>>

\* agent/poll_resolutions hands out and clears the list, under the lock.
Poll ==
  /\ resolved # <<>>
  /\ delivered' = delivered \o resolved
  /\ resolved' = <<>>
  /\ UNCHANGED <<call, flags, queueVars, state, dbVars, adapter, place, proc, history>>

\* system/shutdown starts a thread for stop.
QuitRun(c) ==
  /\ call[c] = "todo"
  /\ call' = [call EXCEPT ![c] = "half"]
  /\ running' = FALSE
  /\ UNCHANGED <<isIdle, pauseSet, queueVars, state, results, dbVars, adapter, place, proc, history>>

QuitPause(c) ==
  /\ call[c] = "half"
  /\ call' = [call EXCEPT ![c] = "done"]
  /\ pauseSet' = TRUE
  /\ UNCHANGED <<isIdle, running, queueVars, state, results, dbVars, adapter, place, proc, history>>

Finishing ==
  \/ \E t \in Tasks : EnqueueSave(t)
  \/ \E c \in Starts : StartResume(c)
  \/ \E c \in Stops : StopPause(c) \/ StopKill(c)
  \/ \E c \in Quits : QuitPause(c)

Arriving ==
  \/ \E t \in Tasks : Enqueue(t)
  \/ \E c \in Starts : StartIdle(c)
  \/ \E c \in Stops : StopIdle(c)
  \/ \E c \in Quits : QuitRun(c)

(***************************************************************************)
(* The worker's checks: the head of its loop reads running, is_idle and    *)
(* the pause event, _is_paused_check reads them in another order.          *)
(***************************************************************************)
ReadOrder == IF pc = "loop" THEN <<"running", "idle", "pause">>
                            ELSE <<"idle", "pause", "running">>

Clear(flag) == CASE flag = "idle"    -> isIdle
                 [] flag = "pause"   -> ~pauseSet
                 [] flag = "running" -> running

Checking == pc \in {"loop", "before", "after"}
ReadClear == Checking /\ Clear(ReadOrder[reads])
ReadBlocked == Checking /\ ~Clear(ReadOrder[reads])

ReadOn ==
  /\ ReadClear /\ reads < 3
  /\ reads' = reads + 1
  /\ UNCHANGED <<call, flags, queueVars, state, results, dbVars, adapter, pc, job, sample, last, proc, history>>

\* All flags allow it: on to the queue, to a sample, to its test.
GoOn ==
  /\ ReadClear /\ reads = 3
  /\ reads' = 1
  /\ pc' = CASE pc = "loop" -> "peek" [] pc = "before" -> "sample" [] pc = "after" -> "candidate"
  /\ UNCHANGED <<call, flags, queueVars, state, results, dbVars, adapter, job, sample, last, proc, history>>

\* The loop sleeps and looks again, or ends.
Sleep ==
  /\ pc = "loop" /\ ReadBlocked
  /\ pc' = IF reads = 1 THEN "ended" ELSE "loop"
  /\ reads' = 1
  /\ UNCHANGED <<call, flags, queueVars, state, results, dbVars, adapter, job, sample, last, proc, history>>

\* The rollout saves its place and returns PAUSED.
Yield ==
  /\ pc \in {"before", "after"} /\ ReadBlocked
  /\ pc' = "pause" /\ reads' = 1 /\ sample' = 0
  /\ adapter' = [adapter EXCEPT ![IdOf[job]] = sample]
  /\ UNCHANGED <<call, flags, queueVars, state, results, dbVars, job, last, proc, history>>

(***************************************************************************)
(* The worker's loop around the rollout.                                   *)
(***************************************************************************)
Step(from, to) == pc = from /\ pc' = to

\* The head of the queue, read under the lock.
Peek ==
  /\ IF taskQueue = <<>> THEN Step("peek", "loop") /\ UNCHANGED job
                         ELSE Step("peek", "mark") /\ job' = tasks[Head(taskQueue)]
  /\ UNCHANGED <<call, flags, queueVars, state, results, dbVars, adapter, reads, sample, last, proc, history>>

\* Another target file than the last one drops the last task's saved place.
Mark ==
  /\ Step("mark", "saveRunning")
  /\ adapter' = IF last # None /\ TargetOf[last] # TargetOf[job]
                  THEN [adapter EXCEPT ![IdOf[last]] = None] ELSE adapter
  /\ last' = job
  /\ currentTaskId' = IdOf[job]
  /\ state' = [state EXCEPT ![job] = "RUNNING"]
  /\ UNCHANGED <<call, flags, taskQueue, tasks, results, dbVars, job, reads, sample, proc, history>>

Save(s) == dbState' = [dbState EXCEPT ![IdOf[job]] = s]

SaveRunning ==
  /\ Step("saveRunning", "enter")
  /\ Save("RUNNING")
  /\ UNCHANGED <<call, flags, queueVars, state, results, dbResolutions, adapter, job, reads, sample, last, proc, history>>

Pause ==
  /\ Step("pause", "savePaused")
  /\ state' = [state EXCEPT ![job] = "PAUSED"]
  /\ UNCHANGED <<call, flags, queueVars, results, dbVars, adapter, job, reads, sample, last, proc, history>>

SavePaused ==
  /\ Step("savePaused", "loop") /\ job' = None
  /\ Save("PAUSED")
  /\ UNCHANGED <<call, flags, queueVars, state, results, dbResolutions, adapter, reads, sample, last, proc, history>>

Complete ==
  /\ Step("complete", "resolve")
  /\ state' = [state EXCEPT ![job] = "COMPLETED"]
  /\ UNCHANGED <<call, flags, queueVars, results, dbVars, adapter, job, reads, sample, last, proc, history>>

\* The worker's own task leaves the queue, under the lock.
PopOwn ==
  /\ taskQueue' = IF taskQueue # <<>> /\ Head(taskQueue) = IdOf[job] THEN Tail(taskQueue) ELSE taskQueue
  /\ currentTaskId' = None
  /\ UNCHANGED tasks

\* A mutant: a completed task stays in the queue.
MutResolve ==
  /\ Step("resolve", "saveDone")
  /\ resolved' = Append(resolved, job)
  /\ UNCHANGED <<call, flags, queueVars, state, delivered, dbVars, adapter, job, reads, sample, last, proc, history>>

Resolve ==
  /\ Step("resolve", "saveDone")
  /\ resolved' = Append(resolved, job)
  /\ PopOwn
  /\ UNCHANGED <<call, flags, state, delivered, dbVars, adapter, job, reads, sample, last, proc, history>>

SaveDone ==
  /\ Step("saveDone", "saveResolution")
  /\ Save("COMPLETED")
  /\ UNCHANGED <<call, flags, queueVars, state, results, dbResolutions, adapter, job, reads, sample, last, proc, history>>

SaveResolution ==
  /\ Step("saveResolution", "loop") /\ job' = None
  /\ dbResolutions' = Append(dbResolutions, job)
  /\ adapter' = [adapter EXCEPT ![IdOf[job]] = None]
  /\ last' = None
  /\ UNCHANGED <<call, flags, queueVars, state, results, dbState, reads, sample, proc, history>>

\* An exception left the rollout: FAILED is saved first, the queue comes after.
Fail ==
  /\ Step("fail", "saveFailed")
  /\ state' = [state EXCEPT ![job] = "FAILED"]
  /\ UNCHANGED <<call, flags, queueVars, results, dbVars, adapter, job, reads, sample, last, proc, history>>

SaveFailed ==
  /\ Step("saveFailed", "drop")
  /\ Save("FAILED")
  /\ adapter' = [adapter EXCEPT ![IdOf[job]] = None]
  /\ last' = None
  /\ UNCHANGED <<call, flags, queueVars, state, results, dbResolutions, job, reads, sample, proc, history>>

\* A mutant: a task that failed stays in the queue.
MutDrop ==
  /\ Step("drop", "loop") /\ job' = None
  /\ UNCHANGED <<call, flags, queueVars, state, results, dbVars, adapter, reads, sample, last, proc, history>>

Drop ==
  /\ Step("drop", "loop") /\ job' = None
  /\ PopOwn
  /\ UNCHANGED <<call, flags, state, results, dbVars, adapter, reads, sample, last, proc, history>>

(***************************************************************************)
(* The rollout and its test processes.                                     *)
(***************************************************************************)
Quiet == \E c \in calm : call[c] = "done"
BeginWork == stray' = (IF Quiet THEN stray + 1 ELSE stray) /\ UNCHANGED calm

\* A saved place is resumed, otherwise the original code is tested first.
Enter ==
  /\ pc = "enter"
  /\ IF adapter[IdOf[job]] = None THEN pc' = "baseline" /\ UNCHANGED sample
                                  ELSE pc' = "before" /\ sample' = adapter[IdOf[job]]
  /\ UNCHANGED <<call, flags, queueVars, state, results, dbVars, adapter, job, reads, last, proc, history>>

\* A mutant: the rollout does not check again between a sample and its test.
MutSample ==
  /\ Step("sample", "candidate")
  /\ BeginWork
  /\ UNCHANGED <<call, flags, queueVars, state, results, dbVars, adapter, job, reads, sample, last, proc>>

\* The model is asked for a candidate.
Sample ==
  /\ Step("sample", "after")
  /\ BeginWork
  /\ UNCHANGED <<call, flags, queueVars, state, results, dbVars, adapter, job, reads, sample, last, proc>>

\* The sandbox starts a process, then puts it on the list of active ones.
Spawn ==
  /\ pc \in {"baseline", "candidate"} /\ proc = "none"
  /\ proc' = "fresh"
  /\ BeginWork
  /\ UNCHANGED <<call, flags, queueVars, state, results, dbVars, adapter, place>>

Register ==
  /\ proc = "fresh"
  /\ proc' = "listed"
  /\ UNCHANGED <<call, flags, queueVars, state, results, dbVars, adapter, place, history>>

\* What the rollout makes of a test: a pass ends it, a failed baseline opens
\* it, a failed candidate counts as a sample.
Judge(passed) ==
  LET done == IF pc = "candidate" THEN sample + 1 ELSE 0
      over == passed \/ done = Samples
  IN /\ pc' = IF over THEN "complete" ELSE "before"
     /\ sample' = IF over THEN 0 ELSE done
     /\ adapter' = CASE over -> [adapter EXCEPT ![IdOf[job]] = None]
                     [] ~over /\ pc = "baseline" -> [adapter EXCEPT ![IdOf[job]] = 0]
                     [] OTHER -> adapter

\* The process has ended by itself, by its timeout or by a kill; a kill may come
\* when it has already passed.
TestEnds(passed) ==
  /\ proc \in {"listed", "killed"}
  /\ Judge(passed)
  /\ proc' = "none"
  /\ UNCHANGED <<call, flags, queueVars, state, results, dbVars, job, reads, last, history>>

\* The candidate does not parse or is blocked: reward 0 without a process.
Reject ==
  /\ pc \in {"baseline", "candidate"} /\ proc = "none"
  /\ Judge(FALSE)
  /\ UNCHANGED <<call, flags, queueVars, state, results, dbVars, job, reads, last, proc, history>>

\* The sandbox could not set up its directory: an exception.
Raise ==
  /\ pc \in {"baseline", "candidate"} /\ proc = "none"
  /\ pc' = "fail" /\ sample' = 0
  /\ UNCHANGED <<call, flags, queueVars, state, results, dbVars, adapter, job, reads, last, proc, history>>

Loop == Peek \/ Mark \/ SaveRunning \/ Pause \/ SavePaused \/ Complete \/ Resolve
          \/ SaveDone \/ SaveResolution \/ Fail \/ SaveFailed \/ Drop
Check == ReadOn \/ GoOn \/ Sleep \/ Yield
Roll == Enter \/ Sample \/ Spawn \/ Register \/ Reject \/ Raise
          \/ \E passed \in BOOLEAN : TestEnds(passed)
Worker == Loop \/ Check \/ Roll

Next == Arriving \/ Finishing \/ Poll \/ Worker

Spec == Init /\ [][Next]_vars

\* The operating system runs the worker, and tests end because the sandbox
\* gives them five seconds.  No RPC need ever arrive or finish.
FairSpec == Spec /\ WF_vars(Worker)

(***************************************************************************)
(* Properties.                                                             *)
(***************************************************************************)
Entries(s) == {s[i] : i \in DOMAIN s}

\* Every variable keeps its type, and the worker holds a task exactly in the
\* steps in which the code has one in task_to_run.
TypeOK ==
  /\ call \in [Calls -> {"todo", "saving", "half", "killing", "done"}]
  /\ isIdle \in BOOLEAN /\ pauseSet \in BOOLEAN /\ running \in BOOLEAN
  /\ taskQueue \in Seq(Ids)
  /\ tasks \in [Ids -> Tasks \cup {None}]
  /\ currentTaskId \in Ids \cup {None}
  /\ state \in [Tasks -> States \cup {None}]
  /\ resolved \in Seq(Tasks) /\ delivered \in Seq(Tasks) /\ dbResolutions \in Seq(Tasks)
  /\ dbState \in [Ids -> States \cup {None}]
  /\ adapter \in [Ids -> (0 .. Samples - 1) \cup {None}]
  /\ pc \in Holding \cup {"loop", "peek", "saveDone", "saveResolution", "ended"}
  /\ job \in IF pc \in {"loop", "peek", "ended"} THEN {None} ELSE Tasks
  /\ reads \in 1 .. 3 /\ (reads # 1 => Checking)
  /\ sample \in 0 .. Samples - 1
  /\ last \in Tasks \cup {None}
  /\ proc \in {"none", "fresh", "listed", "killed"}
  /\ (proc # "none" => pc \in {"baseline", "candidate"})
  /\ calm \subseteq Stops /\ stray \in Nat

\* The queue entry the worker peeked at under the lock is still the head when
\* it pops it, after a whole rollout without the lock; and the current task
\* id, which a pause leaves set, never names anything but the head.
WorksOnHead ==
  /\ pc \in Holding => taskQueue # <<>> /\ Head(taskQueue) = IdOf[job]
  /\ currentTaskId # None => taskQueue # <<>> /\ Head(taskQueue) = currentTaskId

\* A task whose resolution is in the list or polled is out of the queue and
\* COMPLETED for good: agent/get_result never contradicts a resolution.
Sole(t) == \A u \in Tasks : IdOf[u] = IdOf[t] => u = t
ResolutionFinal ==
  \A t \in Entries(resolved) \cup Entries(delivered) :
    Sole(t) => /\ state[t] = "COMPLETED"
               /\ IdOf[t] \notin Entries(taskQueue)
               /\ currentTaskId # IdOf[t]

\* The row of a task holds its state, unless the worker is about to write it
\* or the QUEUED of agent/enqueue_task overtook what the worker wrote.
Unsaved(t) == job = t /\ pc \in {"saveRunning", "savePaused", "resolve", "saveDone", "saveFailed"}
DbStateOrQueued ==
  \A t \in Tasks :
    Sole(t) /\ call[t] = "done" /\ ~Unsaved(t) => dbState[IdOf[t]] \in {state[t], "QUEUED"}

\* The table of resolutions holds what polls have returned and will return,
\* each once and in order, but for the one the worker is saving.
ResolutionsFiled ==
  LET all == delivered \o resolved
  IN dbResolutions = IF pc \in {"saveDone", "saveResolution"}
                       THEN SubSeq(all, 1, Len(all) - 1) ELSE all

\* After an idle_stop has returned and until the next idle_start the worker
\* begins at most one more piece of work (a sample or a test), the one whose
\* check it had passed before, whatever starts and stops overlapped earlier.
AtMostOneStray == stray <= 1

\* Each task is settled once, in the order of the queue, and each resolution
\* is collected once.
Jobs == INSTANCE JobQueue WITH jobs <- taskQueue, results <- [i \in DOMAIN resolved |-> IdOf[resolved[i]]]
ImplementsJobQueue == Jobs!Spec

\* If the IDE stays idle in the end, every task is settled, unless a shutdown
\* ended the worker: pauses, saved places, failures and late database writes
\* never wedge the queue.
StaysIdle == <>[](isIdle /\ ~pauseSet)
QueueDrains == StaysIdle => []<>(taskQueue = <<>> \/ pc = "ended")

\* The worker's task is the head of the queue over its whole rollout, and a
\* stop leaves it at most one more piece of work.
HeadConsistent == TypeOK /\ WorksOnHead /\ AtMostOneStray

\* What a poll returned, the task table and the database agree.
ResolutionsConsistent == ResolutionFinal /\ DbStateOrQueued /\ ResolutionsFiled
===============================================================================
