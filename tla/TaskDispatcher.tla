--------------------------- MODULE TaskDispatcher ---------------------------
(***************************************************************************)
(* The task dispatcher of the MCP engine (mcp-core, registry.rs): clients  *)
(* dispatch commands and wait on handles, worker loops run the handlers,   *)
(* tasks are cancelled through their handle, by their id or by shutting    *)
(* the engine down, and a handler that panics takes its worker with it.    *)
(*                                                                         *)
(* The scheduler appears as the pool that module MultiLaneScheduler is     *)
(* shown to implement: next_task drops cancelled tasks and returns some    *)
(* other one; which one the lanes choose does not matter here.             *)
(*                                                                         *)
(* A step is one write that somebody else can read: of the lanes, a        *)
(* counter, a record, the event bus or a channel.  Three groups of writes  *)
(* are merged.  dispatch() writes the record, the payload and the map of   *)
(* active tasks before it pushes the task, and nobody knows of the task    *)
(* until then.  A payload is removed by the one worker that was given its  *)
(* task, with the pop.  And EngineTask.state is written together with the  *)
(* token, queue or counter next to it: is_cancelled, its only reader,      *)
(* reads the token first, which stays cancelled once it is.                *)
(***************************************************************************)
EXTENDS Integers, FiniteSets, Sequences

CONSTANTS
  Tasks,       \* the dispatches that may be made
  Workers,     \* the worker loops, two at least in the code
  Panicking,   \* tasks whose handler may panic
  Cancelling,  \* tasks somebody may cancel one by one
  MayShutdown, \* whether somebody may shut the engine down
  Hanging,     \* tasks whose handler returns only when it is cancelled
  NoTask       \* stands for "no task in hand"

ASSUME DispatcherAssumption ==
  /\ Panicking \subseteq Tasks
  /\ Cancelling \subseteq Tasks
  /\ Hanging \subseteq Tasks
  /\ MayShutdown \in BOOLEAN
  /\ NoTask \notin Tasks
  /\ IsFiniteSet(Tasks)
  /\ IsFiniteSet(Workers)

Final == {"Completed", "Failed", "Cancelled"}

VARIABLES
  call,      \* progress of dispatch() for each task
  queue,     \* tasks submitted to the scheduler and not yet popped
  payload,   \* payload_map: arguments and result sender of undelivered tasks
  token,     \* tasks whose own cancellation token is cancelled
  root,      \* root_token is cancelled: the engine is shut down
  state,     \* EngineTask.state
  record,    \* TaskRecord.state
  events,    \* the events published about each task, in order
  counter,   \* telemetry: the *_total counters and the active_tasks gauge
  permit,    \* the permit Notify can store
  pc,        \* where each worker is
  cur,       \* the task in a worker's hands
  result,    \* what its execution came to
  reply,     \* the oneshot channel of each task: "open", "closed", or a result
  answer     \* what TaskHandle::wait returned

workerVars == <<pc, cur, result>>
vars == <<call, queue, payload, token, root, state, record, events, counter, permit,
          workerVars, reply, answer>>

Step == {"loop", "next", "dropping", "dropped", "gate", "start", "run", "settle", "record",
         "publish", "deliver", "reply", "park", "asleep", "stopped", "dead"}

TypeOK ==
  /\ call \in [Tasks -> {"none", "pushed", "submitted", "notified", "counted", "handed"}]
  /\ queue \subseteq Tasks
  /\ payload \subseteq Tasks
  /\ token \subseteq Tasks
  /\ root \in BOOLEAN
  /\ state \in [Tasks -> Final \cup {"none", "Queued", "Running"}]
  /\ record \in [Tasks -> Final \cup {"none", "Queued", "Running"}]
  /\ events \in [Tasks -> Seq(Final \cup {"Queued"})]
  /\ counter \in [Final \cup {"dispatched", "active"} -> Int]
  /\ permit \in BOOLEAN
  /\ pc \in [Workers -> Step]
  /\ cur \in [Workers -> Tasks \cup {NoTask}]
  /\ result \in [Workers -> Final]
  /\ reply \in [Tasks -> Final \cup {"open", "closed"}]
  /\ answer \in [Tasks -> Final \cup {"none", "waiting", "Internal"}]

Init ==
  /\ call = [t \in Tasks |-> "none"]
  /\ queue = {}
  /\ payload = {}
  /\ token = {}
  /\ root = FALSE
  /\ state = [t \in Tasks |-> "none"]
  /\ record = [t \in Tasks |-> "none"]
  /\ events = [t \in Tasks |-> <<>>]
  /\ counter = [c \in Final \cup {"dispatched", "active"} |-> 0]
  /\ permit = FALSE
  /\ pc = [w \in Workers |-> "loop"]
  /\ cur = [w \in Workers |-> NoTask]
  /\ result = [w \in Workers |-> "Completed"]
  /\ reply = [t \in Tasks |-> "open"]
  /\ answer = [t \in Tasks |-> "none"]

\* A task's token is linked to the root token.
TokenCancelled(t) == root \/ t \in token

\* EngineTask::is_cancelled
IsCancelled(t) == TokenCancelled(t) \/ state[t] = "Cancelled"

-----------------------------------------------------------------------------
(* TaskDispatcher::dispatch, for a registered command.  An unknown command *)
(* is refused before anything changes.                                     *)

\* The record and the payload are stored and submit() pushes the task.
DispatchSubmit(t) ==
  /\ call[t] = "none"
  /\ record' = [record EXCEPT ![t] = "Queued"]
  /\ payload' = payload \cup {t}
  /\ state' = [state EXCEPT ![t] = "Queued"]
  /\ queue' = queue \cup {t}
  /\ call' = [call EXCEPT ![t] = "pushed"]
  /\ UNCHANGED <<token, root, events, counter, permit, workerVars, reply, answer>>

\* The gauge grows after the push: the task may have ended, and been taken off
\* the gauge, by now.
DispatchCount(t) ==
  /\ call[t] = "pushed"
  /\ counter' = [counter EXCEPT !["active"] = @ + 1]
  /\ call' = [call EXCEPT ![t] = "submitted"]
  /\ UNCHANGED <<queue, payload, token, root, state, record, events, permit, workerVars,
                 reply, answer>>

NotifyOne ==
  LET sleeping == {w \in Workers : pc[w] = "asleep"} IN
  \/ /\ \E w \in sleeping : pc' = [pc EXCEPT ![w] = "loop"]
     /\ UNCHANGED permit
  \/ /\ sleeping = {}
     /\ permit' = TRUE
     /\ UNCHANGED pc

\* Mutant: notify_waiters() wakes those who wait now and leaves no permit.
MutDispatchNotify(t) ==
  /\ call[t] = "submitted"
  /\ pc' = [w \in Workers |-> IF pc[w] = "asleep" THEN "loop" ELSE pc[w]]
  /\ call' = [call EXCEPT ![t] = "notified"]
  /\ UNCHANGED <<queue, payload, token, root, state, record, events, counter, permit, cur,
                 result, reply, answer>>

DispatchNotify(t) ==
  /\ call[t] = "submitted"
  /\ NotifyOne
  /\ call' = [call EXCEPT ![t] = "notified"]
  /\ UNCHANGED <<queue, payload, token, root, state, record, events, counter, cur, result,
                 reply, answer>>

\* Only now is the dispatch counted, and then TaskQueued published: the task
\* may have run by this time.
DispatchTotal(t) ==
  /\ call[t] = "notified"
  /\ counter' = [counter EXCEPT !["dispatched"] = @ + 1]
  /\ call' = [call EXCEPT ![t] = "counted"]
  /\ UNCHANGED <<queue, payload, token, root, state, record, events, permit, workerVars,
                 reply, answer>>

DispatchReport(t) ==
  /\ call[t] = "counted"
  /\ events' = [events EXCEPT ![t] = Append(@, "Queued")]
  /\ call' = [call EXCEPT ![t] = "handed"]
  /\ UNCHANGED <<queue, payload, token, root, state, record, counter, permit, workerVars,
                 reply, answer>>

-----------------------------------------------------------------------------
(* Cancellation: by the handle, by the id, and of the whole engine.        *)

HandleCancel(t) ==
  /\ t \in Cancelling
  /\ call[t] = "handed"
  /\ answer[t] = "none"
  /\ token' = token \cup {t}
  /\ UNCHANGED <<call, queue, payload, root, state, record, events, counter, permit,
                 workerVars, reply, answer>>

\* Mutant: the record is set to Cancelled as well.
MutCancelTask(t) ==
  /\ t \in Cancelling
  /\ call[t] # "none"
  /\ token' = token \cup {t}
  /\ state' = [state EXCEPT ![t] = "Cancelled"]
  /\ record' = [record EXCEPT ![t] = "Cancelled"]
  /\ UNCHANGED <<call, queue, payload, root, events, counter, permit, workerVars, reply,
                 answer>>

\* cancel_task -> MultiLaneScheduler::cancel: any task ever submitted is
\* found, and its state is overwritten whatever it was.
CancelTask(t) ==
  /\ t \in Cancelling
  /\ call[t] # "none"
  /\ token' = token \cup {t}
  /\ state' = [state EXCEPT ![t] = "Cancelled"]
  /\ UNCHANGED <<call, queue, payload, root, record, events, counter, permit, workerVars,
                 reply, answer>>

Shutdown ==
  /\ MayShutdown
  /\ ~ root
  /\ root' = TRUE
  /\ UNCHANGED <<call, queue, payload, token, state, record, events, counter, permit,
                 workerVars, reply, answer>>

-----------------------------------------------------------------------------
(* worker_loop.                                                            *)

LoopTop(w) ==
  /\ pc[w] = "loop"
  /\ pc' = [pc EXCEPT ![w] = IF root THEN "stopped" ELSE "next"]
  /\ UNCHANGED <<call, queue, payload, token, root, state, record, events, counter,
                 permit, cur, result, reply, answer>>

\* Inside next_task: a task cancelled in its lane is dropped on the way.
DropQueued(w, t) ==
  /\ pc[w] = "next"
  /\ t \in queue
  /\ IsCancelled(t)
  /\ queue' = queue \ {t}
  /\ state' = [state EXCEPT ![t] = "Cancelled"]
  /\ pc' = [pc EXCEPT ![w] = "dropping"]
  /\ UNCHANGED <<call, payload, token, root, record, events, counter, permit, cur, result,
                 reply, answer>>

DropTotal(w) ==
  /\ pc[w] = "dropping"
  /\ counter' = [counter EXCEPT !["Cancelled"] = @ + 1]
  /\ pc' = [pc EXCEPT ![w] = "dropped"]
  /\ UNCHANGED <<call, queue, payload, token, root, state, record, events, permit, cur,
                 result, reply, answer>>

\* Mutant: the active gauge keeps counting the dropped task.
MutDropUncount(w) ==
  /\ pc[w] = "dropped"
  /\ pc' = [pc EXCEPT ![w] = "next"]
  /\ UNCHANGED <<call, queue, payload, token, root, state, record, events, counter, permit,
                 cur, result, reply, answer>>

DropUncount(w) ==
  /\ pc[w] = "dropped"
  /\ counter' = [counter EXCEPT !["active"] = @ - 1]
  /\ pc' = [pc EXCEPT ![w] = "next"]
  /\ UNCHANGED <<call, queue, payload, token, root, state, record, events, permit, cur,
                 result, reply, answer>>

\* Mutant: the task is read but not popped.
MutTakeTask(w, t) ==
  /\ pc[w] = "next"
  /\ t \in queue
  /\ ~ IsCancelled(t)
  /\ payload' = payload \ {t}
  /\ cur' = [cur EXCEPT ![w] = t]
  /\ pc' = [pc EXCEPT ![w] = "gate"]
  /\ UNCHANGED <<call, queue, token, root, state, record, events, counter, permit, result,
                 reply, answer>>

\* next_task returns t and the worker removes its payload.
TakeTask(w, t) ==
  /\ pc[w] = "next"
  /\ t \in queue
  /\ ~ IsCancelled(t)
  /\ queue' = queue \ {t}
  /\ payload' = payload \ {t}
  /\ cur' = [cur EXCEPT ![w] = t]
  /\ pc' = [pc EXCEPT ![w] = "gate"]
  /\ UNCHANGED <<call, token, root, state, record, events, counter, permit, result, reply,
                 answer>>

\* next_task returns None although tasks may be queued: another worker has
\* drained their lane or used up its quota, and will look again itself.
FindNothing(w) ==
  /\ pc[w] = "next"
  /\ \/ queue = {}
     \/ \E v \in Workers \ {w} : pc[v] \notin {"park", "asleep", "stopped", "dead"}
  /\ pc' = [pc EXCEPT ![w] = "park"]
  /\ UNCHANGED <<call, queue, payload, token, root, state, record, events, counter,
                 permit, cur, result, reply, answer>>

\* A task cancelled after it was popped is settled without being run.
Gate(w) ==
  /\ pc[w] = "gate"
  /\ \/ /\ IsCancelled(cur[w])
        /\ result' = [result EXCEPT ![w] = "Cancelled"]
        /\ pc' = [pc EXCEPT ![w] = "settle"]
     \/ /\ ~ IsCancelled(cur[w])
        /\ pc' = [pc EXCEPT ![w] = "start"]
        /\ UNCHANGED result
  /\ UNCHANGED <<call, queue, payload, token, root, state, record, events, counter,
                 permit, cur, reply, answer>>

\* A cancellation since the gate is overwritten; only the token keeps it.
Start(w) ==
  /\ pc[w] = "start"
  /\ state' = [state EXCEPT ![cur[w]] = "Running"]
  /\ record' = [record EXCEPT ![cur[w]] = "Running"]
  /\ pc' = [pc EXCEPT ![w] = "run"]
  /\ UNCHANGED <<call, queue, payload, token, root, events, counter, permit, cur, result,
                 reply, answer>>

\* Mutant: the task's token is not linked to the root token.
MutRunEnd(w) ==
  /\ pc[w] = "run"
  /\ \E r \in Final :
       /\ r = "Cancelled" => cur[w] \in token
       /\ r # "Cancelled" => cur[w] \notin Hanging
       /\ result' = [result EXCEPT ![w] = r]
  /\ pc' = [pc EXCEPT ![w] = "settle"]
  /\ UNCHANGED <<call, queue, payload, token, root, state, record, events, counter,
                 permit, cur, reply, answer>>

\* The select! of the handler and the token; both may be ready.
RunEnd(w) ==
  /\ pc[w] = "run"
  /\ \E r \in Final :
       /\ r = "Cancelled" => TokenCancelled(cur[w])
       /\ r # "Cancelled" => cur[w] \notin Hanging
       /\ result' = [result EXCEPT ![w] = r]
  /\ pc' = [pc EXCEPT ![w] = "settle"]
  /\ UNCHANGED <<call, queue, payload, token, root, state, record, events, counter,
                 permit, cur, reply, answer>>

\* Nothing catches a panic: the loop is unwound and the sender dropped.
RunPanic(w) ==
  /\ pc[w] = "run"
  /\ cur[w] \in Panicking
  /\ reply' = [reply EXCEPT ![cur[w]] = "closed"]
  /\ cur' = [cur EXCEPT ![w] = NoTask]
  /\ pc' = [pc EXCEPT ![w] = "dead"]
  /\ UNCHANGED <<call, queue, payload, token, root, state, record, events, counter,
                 permit, result, answer>>

\* The outcome: state and total, then the record, under its lock.
SettleTotal(w) ==
  /\ pc[w] = "settle"
  /\ state' = [state EXCEPT ![cur[w]] = result[w]]
  /\ counter' = [counter EXCEPT ![result[w]] = @ + 1]
  /\ pc' = [pc EXCEPT ![w] = "record"]
  /\ UNCHANGED <<call, queue, payload, token, root, record, events, permit, cur, result,
                 reply, answer>>

SettleRecord(w) ==
  /\ pc[w] = "record"
  /\ record' = [record EXCEPT ![cur[w]] = result[w]]
  /\ pc' = [pc EXCEPT ![w] = "publish"]
  /\ UNCHANGED <<call, queue, payload, token, root, state, events, counter, permit, cur,
                 result, reply, answer>>

\* Mutant: a cancelled outcome is not published.
MutPublish(w) ==
  /\ pc[w] = "publish"
  /\ events' = IF result[w] = "Cancelled" THEN events
               ELSE [events EXCEPT ![cur[w]] = Append(@, result[w])]
  /\ pc' = [pc EXCEPT ![w] = "deliver"]
  /\ UNCHANGED <<call, queue, payload, token, root, state, record, counter, permit, cur,
                 result, reply, answer>>

\* The record's lock is released before the event goes out.
Publish(w) ==
  /\ pc[w] = "publish"
  /\ events' = [events EXCEPT ![cur[w]] = Append(@, result[w])]
  /\ pc' = [pc EXCEPT ![w] = "deliver"]
  /\ UNCHANGED <<call, queue, payload, token, root, state, record, counter, permit, cur,
                 result, reply, answer>>

\* The gauge falls, then the result is sent to the handle.
SettleUncount(w) ==
  /\ pc[w] = "deliver"
  /\ counter' = [counter EXCEPT !["active"] = @ - 1]
  /\ pc' = [pc EXCEPT ![w] = "reply"]
  /\ UNCHANGED <<call, queue, payload, token, root, state, record, events, permit, cur,
                 result, reply, answer>>

\* The sender is used up, and what the worker held goes out of scope.
Deliver(w) ==
  /\ pc[w] = "reply"
  /\ reply' = [reply EXCEPT ![cur[w]] = result[w]]
  /\ cur' = [cur EXCEPT ![w] = NoTask]
  /\ result' = [result EXCEPT ![w] = "Completed"]
  /\ pc' = [pc EXCEPT ![w] = "loop"]
  /\ UNCHANGED <<call, queue, payload, token, root, state, record, events, counter, permit,
                 answer>>

\* The select! of Notified and the root token: sleep if neither is ready.
Park(w) ==
  /\ pc[w] = "park"
  /\ \/ permit /\ permit' = FALSE /\ pc' = [pc EXCEPT ![w] = "loop"]
     \/ root /\ pc' = [pc EXCEPT ![w] = "stopped"] /\ UNCHANGED permit
     \/ ~ permit /\ ~ root /\ pc' = [pc EXCEPT ![w] = "asleep"] /\ UNCHANGED permit
  /\ UNCHANGED <<call, queue, payload, token, root, state, record, events, counter, cur,
                 result, reply, answer>>

WakeToStop(w) ==
  /\ pc[w] = "asleep"
  /\ root
  /\ pc' = [pc EXCEPT ![w] = "stopped"]
  /\ UNCHANGED <<call, queue, payload, token, root, state, record, events, counter,
                 permit, cur, result, reply, answer>>

Worker(w) ==
  \/ LoopTop(w)
  \/ \E t \in Tasks : DropQueued(w, t) \/ TakeTask(w, t)
  \/ DropTotal(w)
  \/ DropUncount(w)
  \/ FindNothing(w)
  \/ Gate(w)
  \/ Start(w)
  \/ RunEnd(w)
  \/ RunPanic(w)
  \/ SettleTotal(w)
  \/ SettleRecord(w)
  \/ Publish(w)
  \/ SettleUncount(w)
  \/ Deliver(w)
  \/ Park(w)
  \/ WakeToStop(w)

-----------------------------------------------------------------------------
(* TaskHandle::wait.                                                       *)

WaitBegin(t) ==
  /\ call[t] = "handed"
  /\ answer[t] = "none"
  /\ answer' = [answer EXCEPT ![t] = IF TokenCancelled(t) THEN "Cancelled" ELSE "waiting"]
  /\ UNCHANGED <<call, queue, payload, token, root, state, record, events, counter,
                 permit, workerVars, reply>>

\* The select! of the token and the channel; both may be ready.
WaitEnd(t) ==
  /\ answer[t] = "waiting"
  /\ \/ TokenCancelled(t) /\ answer' = [answer EXCEPT ![t] = "Cancelled"]
     \/ reply[t] \in Final /\ answer' = [answer EXCEPT ![t] = reply[t]]
     \/ /\ reply[t] = "closed"
        /\ answer' = [answer EXCEPT ![t] = IF TokenCancelled(t) THEN "Cancelled" ELSE "Internal"]
  /\ UNCHANGED <<call, queue, payload, token, root, state, record, events, counter,
                 permit, workerVars, reply>>

Dispatch(t) ==
  \/ DispatchSubmit(t)
  \/ DispatchCount(t)
  \/ DispatchNotify(t)
  \/ DispatchTotal(t)
  \/ DispatchReport(t)

Client(t) == HandleCancel(t) \/ CancelTask(t) \/ WaitBegin(t) \/ WaitEnd(t)

Next ==
  \/ \E t \in Tasks : Dispatch(t) \/ Client(t)
  \/ \E w \in Workers : Worker(w)
  \/ Shutdown

Spec == Init /\ [][Next]_vars

\* The runtime polls a worker or a waiting client whose future is ready, and
\* a dispatch() once begun runs to its end.  No client has to call anything.
Fairness ==
  /\ \A w \in Workers : WF_vars(Worker(w))
  /\ \A t \in Tasks : WF_vars(call[t] # "none" /\ Dispatch(t)) /\ WF_vars(WaitEnd(t))

FairSpec == Spec /\ Fairness

-----------------------------------------------------------------------------
(* Safety.                                                                 *)

InHand(t) == \E w \in Workers : cur[w] = t

\* The tasks the active gauge has been raised for.
Counted == {t \in Tasks : call[t] \notin {"none", "pushed"}}

\* The workers that have added to a total and have yet to lower the gauge.
Owing == {w \in Workers : pc[w] \in {"dropped", "record", "publish", "deliver"}}

Booked == counter["Completed"] + counter["Failed"] + counter["Cancelled"] + counter["active"]

\* Every task is booked once: by the active gauge, or by one of the totals, and
\* by both, or neither, only between two updates of its submitter or worker.
GaugeBalances == Booked = Cardinality(Counted) + Cardinality(Owing)

\* A total runs ahead of the records only by the workers that have added to it
\* and have yet to write theirs.  Cancelled also counts in-queue drops, whose
\* records stay Queued.
TotalMatches(r) ==
  counter[r] = Cardinality({t \in Tasks : record[t] = r})
               + Cardinality({w \in Workers : pc[w] = "record" /\ result[w] = r})

\* The books balance at every moment, in-queue drops, panics and late
\* cancellations included, but for the updates still to come.
BooksBalance == GaugeBalances /\ TotalMatches("Completed") /\ TotalMatches("Failed")

\* Where an event stream tells of the end of its task.
Ends(stream) == {i \in DOMAIN stream : stream[i] # "Queued"}

\* A task whose record is final and whose end has yet to be published.
Unannounced(t) == \E w \in Workers : cur[w] = t /\ pc[w] = "publish"

\* The event stream tells of a task's end once, after the record says so and
\* with the same outcome; only the worker about to publish it may still owe it.
EventsMatchRecord ==
  \A t \in Tasks :
    IF record[t] \in Final /\ ~ Unannounced(t)
    THEN \E i \in DOMAIN events[t] : Ends(events[t]) = {i} /\ events[t][i] = record[t]
    ELSE Ends(events[t]) = {}

\* A task is queued, in the hands of one worker, or neither; while it is
\* queued its payload waits for the worker that will pop it.
OneOwner ==
  \A t \in Tasks :
    /\ t \in queue => t \in payload /\ ~ InHand(t)
    /\ \A v, w \in Workers : cur[v] = t /\ cur[w] = t => v = w

\* How the place of a task fixes its record and its reply: the strengthening
\* of OneOwner on which the proofs rest.
HoldingTask(w) ==
  pc[w] \in {"gate", "start", "run", "settle", "record", "publish", "deliver", "reply"}

TaskPlace(t) ==
  /\ record[t] = "none" <=> call[t] = "none"
  /\ record[t] = "none" => t \notin queue /\ ~ InHand(t) /\ reply[t] = "open"
  /\ t \in queue => record[t] = "Queued" /\ reply[t] = "open"
  /\ InHand(t) => reply[t] = "open"
  /\ reply[t] \in Final => record[t] = reply[t]
  /\ reply[t] = "closed" => record[t] = "Running"
  /\ answer[t] # "none" => record[t] # "none"

WorkerPlace(w) ==
  /\ HoldingTask(w) <=> cur[w] # NoTask
  /\ pc[w] \in {"gate", "start"} => record[cur[w]] = "Queued"
  /\ pc[w] = "run" => record[cur[w]] = "Running"
  /\ pc[w] \in {"settle", "record"} =>
       \/ record[cur[w]] = "Running"
       \/ record[cur[w]] = "Queued" /\ result[w] = "Cancelled"
  /\ pc[w] \in {"publish", "deliver", "reply"} => record[cur[w]] = result[w]

PlaceFixesRecord ==
  /\ \A t \in Tasks : TaskPlace(t)
  /\ \A w \in Workers : WorkerPlace(w)

Lifecycle == INSTANCE TaskLifecycle
  WITH answer <- [t \in Tasks |-> IF answer[t] = "waiting" THEN "none" ELSE answer[t]]

\* Records only move forward and a final one stays, in spite of cancellations
\* at any moment; a waiter is told a result only after the record shows it.
ImplementsTaskLifecycle == Lifecycle!Spec

-----------------------------------------------------------------------------
(* Liveness.                                                               *)

\* A handler that returns only when cancelled has a worker.
Hung == \E w \in Workers : pc[w] = "run" /\ cur[w] \in Hanging

\* While no handler panics, no wait() is left without an answer for ever,
\* unless a handler hangs for ever: no wake-up is lost between a submit() and
\* a worker going to sleep, and what waited behind a hung handler is served
\* once that handler is cancelled.
WaitsAnswered == Hung \/ \A t \in Tasks : answer[t] # "waiting"

\* After a shutdown every worker loop ends, also one whose handler hangs.
ShutdownStops == root => \A w \in Workers : pc[w] \in {"stopped", "dead"}

\* The workers serve as long as they must, and no longer: again and again both
\* of the above hold.  A shutdown and the end of a loop are for good, so that
\* this is as much as to say that either of them comes about.
WorkersServe == []<>(WaitsAnswered /\ ShutdownStops)

\* Whatever is cancelled, dropped or panics, a task and its payload have one
\* owner, and every record, counter and answer keeps its type.
TasksOwned == TypeOK /\ OneOwner
=============================================================================
