------------------------- MODULE MultiLaneScheduler -------------------------
(***************************************************************************)
(* The five-lane priority scheduler of the MCP engine (mcp-core,           *)
(* scheduler.rs) under concurrent submitters and workers.                  *)
(*                                                                         *)
(* Every lane is a lock-free FIFO queue, every counter an atomic, and      *)
(* nothing else protects next_task: two workers may be anywhere in it at   *)
(* once.  A step below is one access to a shared queue, counter or to the  *)
(* Notify permit, so every interleaving of the code is an interleaving of  *)
(* steps.  Two merges remain.  submit() registers the task before it       *)
(* pushes it: a cancellation between the two is one right after the push,  *)
(* for nobody reads the token of a task that is in no lane.  And promoting *)
(* writes the priority of the task in hand together with the push, since   *)
(* only the worker that holds a task reads its priority.  What a worker    *)
(* does with a task it was given, and the task's own lifecycle state, are  *)
(* the subject of module TaskDispatcher.                                   *)
(***************************************************************************)
EXTENDS Integers, Sequences, FiniteSets

CONSTANTS
  Tasks,         \* the tasks that may be submitted
  Workers,       \* the dispatcher's worker loops
  NumLanes,      \* 5 in the code; lane 0 is the most urgent
  Priorities,    \* the priorities tasks are submitted with
  Cancelling,    \* the tasks somebody may cancel
  Weights,       \* the quota of each lane in a weighted round
  AgeThreshold,  \* the wait after which a task of a lane is promoted
  MaxNow,        \* bound on the clock
  NoTask         \* stands for "no task in hand"

Lane == 0 .. NumLanes - 1

ASSUME SchedulerAssumption ==
  /\ NumLanes \in Nat \ {0}
  /\ Priorities \subseteq Lane
  /\ Weights \in [Lane -> Nat \ {0}]
  /\ AgeThreshold \in [Lane -> Nat]
  /\ MaxNow \in Nat
  /\ IsFiniteSet(Workers)
  /\ NoTask \notin Tasks

VARIABLES
  lanes,     \* the queue of each lane
  base,      \* the priority a task was created with
  prio,      \* its effective_priority
  token,     \* tasks whose cancellation token is cancelled
  created,   \* created_at of each task
  now,       \* the engine clock
  consumed,  \* consumed_in_round
  gauge,     \* telemetry: queued_tasks_by_priority (negative = wrapped around)
  active,    \* telemetry: the active_tasks gauge
  permit,    \* the single permit Notify can store
  sub,       \* progress of submit() for each task
  left,      \* tasks dropped by next_task or finished by a worker
  pc,        \* where each worker is
  at,        \* the lane a worker is looking at
  pass,      \* 1 or 2: the scan of next_task a worker is in
  hold,      \* the task a worker has in hand
  temp,      \* temp_tasks of promote_aged_tasks
  snap       \* "now" as read at the start of promote_aged_tasks

shared == <<lanes, base, prio, token, created, now, consumed, gauge, active, permit, sub, left>>
local  == <<pc, at, pass, hold, temp, snap>>
vars   == <<shared, local>>

Step == {"loop", "drain", "aging", "promoted", "raised", "restore", "check", "pop",
         "popped", "judge", "dropped", "charge", "reset", "park", "asleep", "busy",
         "finished"}

TaskTypes ==
  /\ base \in [Tasks -> Lane]
  /\ prio \in [Tasks -> Lane]
  /\ token \subseteq Tasks
  /\ created \in [Tasks -> 0 .. MaxNow]
  /\ now \in 0 .. MaxNow
  /\ sub \in [Tasks -> {"new", "pushed", "gauged", "counted", "done"}]
  /\ left \subseteq Tasks

LaneTypes ==
  /\ lanes \in [Lane -> Seq(Tasks)]
  /\ consumed \in [Lane -> Nat]
  /\ gauge \in [Lane -> Int]
  /\ active \in Int
  /\ permit \in BOOLEAN

WorkerTypes ==
  /\ pc \in [Workers -> Step]
  /\ at \in [Workers -> Lane]
  /\ pass \in [Workers -> {1, 2}]
  /\ hold \in [Workers -> Tasks \cup {NoTask}]
  /\ temp \in [Workers -> Seq(Tasks)]
  /\ snap \in [Workers -> 0 .. MaxNow]

TypeOK == TaskTypes /\ LaneTypes /\ WorkerTypes

Init ==
  /\ lanes = [l \in Lane |-> <<>>]
  /\ base = [t \in Tasks |-> 0]
  /\ prio = [t \in Tasks |-> 0]
  /\ token = {}
  /\ created = [t \in Tasks |-> 0]
  /\ now = 0
  /\ consumed = [l \in Lane |-> 0]
  /\ gauge = [l \in Lane |-> 0]
  /\ active = 0
  /\ permit = FALSE
  /\ sub = [t \in Tasks |-> "new"]
  /\ left = {}
  /\ pc = [w \in Workers |-> "loop"]
  /\ at = [w \in Workers |-> 0]
  /\ pass = [w \in Workers |-> 1]
  /\ hold = [w \in Workers |-> NoTask]
  /\ temp = [w \in Workers |-> <<>>]
  /\ snap = [w \in Workers |-> 0]

-----------------------------------------------------------------------------
(* Submission, cancellation and time.                                      *)

\* A task is created with priority p and pushed on its lane.
SubmitPush(t, p) ==
  /\ sub[t] = "new"
  /\ base' = [base EXCEPT ![t] = p]
  /\ prio' = [prio EXCEPT ![t] = p]
  /\ created' = [created EXCEPT ![t] = now]
  /\ lanes' = [lanes EXCEPT ![p] = Append(@, t)]
  /\ sub' = [sub EXCEPT ![t] = "pushed"]
  /\ UNCHANGED <<token, now, consumed, gauge, active, permit, left, local>>

\* The gauge that grows is that of the lane the task was pushed to, even if
\* the task has been promoted, or taken, in the meantime.
SubmitGauge(t) ==
  /\ sub[t] = "pushed"
  /\ gauge' = [gauge EXCEPT ![base[t]] = @ + 1]
  /\ sub' = [sub EXCEPT ![t] = "gauged"]
  /\ UNCHANGED <<lanes, base, prio, token, created, now, consumed, active, permit, left,
                 local>>

SubmitCount(t) ==
  /\ sub[t] = "gauged"
  /\ active' = active + 1
  /\ sub' = [sub EXCEPT ![t] = "counted"]
  /\ UNCHANGED <<lanes, base, prio, token, created, now, consumed, gauge, permit, left,
                 local>>

\* Notify::notify_one wakes one sleeping worker, or leaves a permit.
NotifyOne ==
  LET sleeping == {w \in Workers : pc[w] = "asleep"} IN
  \/ /\ \E w \in sleeping : pc' = [pc EXCEPT ![w] = "loop"]
     /\ UNCHANGED permit
  \/ /\ sleeping = {}
     /\ permit' = TRUE
     /\ UNCHANGED pc

\* Mutant: notify_waiters() wakes those who wait now and leaves no permit.
MutSubmitNotify(t) ==
  /\ sub[t] = "counted"
  /\ sub' = [sub EXCEPT ![t] = "done"]
  /\ pc' = [w \in Workers |-> IF pc[w] = "asleep" THEN "loop" ELSE pc[w]]
  /\ UNCHANGED <<lanes, base, prio, token, created, now, consumed, gauge, active,
                 permit, left, at, pass, hold, temp, snap>>

SubmitNotify(t) ==
  /\ sub[t] = "counted"
  /\ sub' = [sub EXCEPT ![t] = "done"]
  /\ NotifyOne
  /\ UNCHANGED <<lanes, base, prio, token, created, now, consumed, gauge, active,
                 left, at, pass, hold, temp, snap>>

\* Cancelling a task that has left the scheduler no longer concerns it.
Cancel(t) ==
  /\ t \in Cancelling
  /\ sub[t] # "new"
  /\ t \notin token \cup left
  /\ token' = token \cup {t}
  /\ UNCHANGED <<lanes, base, prio, created, now, consumed, gauge, active, permit,
                 sub, left, local>>

Tick ==
  /\ now < MaxNow
  /\ now' = now + 1
  /\ UNCHANGED <<lanes, base, prio, token, created, consumed, gauge, active, permit,
                 sub, left, local>>

-----------------------------------------------------------------------------
(* promote_aged_tasks: the lanes below the most urgent one are drained,    *)
(* last lane first; aged tasks go one lane up, the others are put back.    *)

StartPromotion(w) ==
  /\ pc[w] = "loop"
  /\ snap' = [snap EXCEPT ![w] = now]
  /\ at' = [at EXCEPT ![w] = NumLanes - 1]
  /\ pc' = [pc EXCEPT ![w] = IF NumLanes > 1 THEN "drain" ELSE "check"]
  /\ UNCHANGED <<shared, pass, hold, temp>>

WaitTime(t, w) == IF snap[w] >= created[t] THEN snap[w] - created[t] ELSE 0

Aged(t, w) == WaitTime(t, w) >= AgeThreshold[at[w]] /\ t \notin token

\* Lane 0 cannot be promoted any further.
Promote(p) == IF p = 0 THEN 0 ELSE p - 1

\* SegQueue::pop into the worker's hand.
PopLane(w) ==
  /\ lanes[at[w]] # <<>>
  /\ hold' = [hold EXCEPT ![w] = Head(lanes[at[w]])]
  /\ lanes' = [lanes EXCEPT ![at[w]] = Tail(@)]

DrainPop(w) ==
  /\ pc[w] = "drain"
  /\ PopLane(w)
  /\ pc' = [pc EXCEPT ![w] = "aging"]
  /\ UNCHANGED <<base, prio, token, created, now, consumed, gauge, active, permit, sub,
                 left, at, pass, temp, snap>>

PromoteTask(w) ==
  /\ pc[w] = "aging"
  /\ Aged(hold[w], w)
  /\ LET up == Promote(prio[hold[w]]) IN
       /\ prio' = [prio EXCEPT ![hold[w]] = up]
       /\ lanes' = [lanes EXCEPT ![up] = Append(@, hold[w])]
  /\ hold' = [hold EXCEPT ![w] = NoTask]
  /\ pc' = [pc EXCEPT ![w] = "promoted"]
  /\ UNCHANGED <<base, token, created, now, consumed, gauge, active, permit, sub, left,
                 at, pass, temp, snap>>

\* A promoted task left the lane it was popped from for the lane above: one
\* gauge is taken down, then the other is raised.
PromoteUncount(w) ==
  /\ pc[w] = "promoted"
  /\ gauge' = [gauge EXCEPT ![at[w]] = @ - 1]
  /\ pc' = [pc EXCEPT ![w] = "raised"]
  /\ UNCHANGED <<lanes, base, prio, token, created, now, consumed, active, permit, sub,
                 left, at, pass, hold, temp, snap>>

PromoteCount(w) ==
  /\ pc[w] = "raised"
  /\ gauge' = [gauge EXCEPT ![Promote(at[w])] = @ + 1]
  /\ pc' = [pc EXCEPT ![w] = "drain"]
  /\ UNCHANGED <<lanes, base, prio, token, created, now, consumed, active, permit, sub,
                 left, at, pass, hold, temp, snap>>

KeepTask(w) ==
  /\ pc[w] = "aging"
  /\ ~ Aged(hold[w], w)
  /\ temp' = [temp EXCEPT ![w] = Append(@, hold[w])]
  /\ hold' = [hold EXCEPT ![w] = NoTask]
  /\ pc' = [pc EXCEPT ![w] = "drain"]
  /\ UNCHANGED <<shared, at, pass, snap>>

\* On to the next lane up.  Lane 0 is never drained: after lane 1 the two
\* scans begin.
LeaveLane(w) ==
  /\ at' = [at EXCEPT ![w] = @ - 1]
  /\ pc' = [pc EXCEPT ![w] = IF at[w] > 1 THEN "drain" ELSE "check"]
  /\ snap' = [snap EXCEPT ![w] = IF at[w] > 1 THEN @ ELSE 0]

DrainEmpty(w) ==
  /\ pc[w] = "drain"
  /\ lanes[at[w]] = <<>>
  /\ \/ temp[w] = <<>> /\ LeaveLane(w)
     \/ temp[w] # <<>> /\ pc' = [pc EXCEPT ![w] = "restore"] /\ UNCHANGED <<at, snap>>
  /\ UNCHANGED <<shared, pass, hold, temp>>

RestoreTask(w) ==
  /\ pc[w] = "restore"
  /\ lanes' = [lanes EXCEPT ![at[w]] = Append(@, Head(temp[w]))]
  /\ temp' = [temp EXCEPT ![w] = Tail(@)]
  /\ \/ Len(temp[w]) = 1 /\ LeaveLane(w)
     \/ Len(temp[w]) > 1 /\ UNCHANGED <<pc, at, snap>>
  /\ UNCHANGED <<base, prio, token, created, now, consumed, gauge, active, permit, sub,
                 left, pass, hold>>

-----------------------------------------------------------------------------
(* next_task: scan the lanes under the quotas of the round, reset the      *)
(* quotas, scan again.  pass[w] tells the two scans apart.                 *)

NextLane(w) ==
  /\ at' = [at EXCEPT ![w] = IF @ + 1 < NumLanes THEN @ + 1 ELSE 0]
  /\ pc' = [pc EXCEPT ![w] = IF at[w] + 1 < NumLanes THEN "check"
                             ELSE IF pass[w] = 1 THEN "reset" ELSE "park"]
  /\ UNCHANGED <<shared, pass, hold, temp, snap>>

\* Mutant: one task more than the quota is let through.
MutQuotaLeft(w) ==
  /\ pc[w] = "check"
  /\ consumed[at[w]] <= Weights[at[w]]
  /\ pc' = [pc EXCEPT ![w] = "pop"]
  /\ UNCHANGED <<shared, at, pass, hold, temp, snap>>

QuotaLeft(w) ==
  /\ pc[w] = "check"
  /\ consumed[at[w]] < Weights[at[w]]
  /\ pc' = [pc EXCEPT ![w] = "pop"]
  /\ UNCHANGED <<shared, at, pass, hold, temp, snap>>

QuotaUsed(w) ==
  /\ pc[w] = "check"
  /\ consumed[at[w]] >= Weights[at[w]]
  /\ NextLane(w)

ScanEmpty(w) ==
  /\ pc[w] = "pop"
  /\ lanes[at[w]] = <<>>
  /\ NextLane(w)

ScanPop(w) ==
  /\ pc[w] = "pop"
  /\ PopLane(w)
  /\ pc' = [pc EXCEPT ![w] = "popped"]
  /\ UNCHANGED <<base, prio, token, created, now, consumed, gauge, active, permit, sub,
                 left, at, pass, temp, snap>>

\* Mutant: the gauge of the lane the task was submitted to is taken down.
MutScanUncount(w) ==
  /\ pc[w] = "popped"
  /\ gauge' = [gauge EXCEPT ![base[hold[w]]] = @ - 1]
  /\ pc' = [pc EXCEPT ![w] = "judge"]
  /\ UNCHANGED <<lanes, base, prio, token, created, now, consumed, active, permit, sub,
                 left, at, pass, hold, temp, snap>>

\* The task is off its lane before the lane's gauge is taken down.
ScanUncount(w) ==
  /\ pc[w] = "popped"
  /\ gauge' = [gauge EXCEPT ![at[w]] = @ - 1]
  /\ pc' = [pc EXCEPT ![w] = "judge"]
  /\ UNCHANGED <<lanes, base, prio, token, created, now, consumed, active, permit, sub,
                 left, at, pass, hold, temp, snap>>

\* A task cancelled in the queue is dropped and the same lane tried again.
DropCancelled(w) ==
  /\ pc[w] = "judge"
  /\ hold[w] \in token
  /\ left' = left \cup {hold[w]}
  /\ hold' = [hold EXCEPT ![w] = NoTask]
  /\ pc' = [pc EXCEPT ![w] = "dropped"]
  /\ UNCHANGED <<lanes, base, prio, token, created, now, consumed, gauge, active, permit,
                 sub, at, pass, temp, snap>>

DropUncount(w) ==
  /\ pc[w] = "dropped"
  /\ active' = active - 1
  /\ pc' = [pc EXCEPT ![w] = "check"]
  /\ UNCHANGED <<lanes, base, prio, token, created, now, consumed, gauge, permit, sub,
                 left, at, pass, hold, temp, snap>>

\* Mutant: a cancelled task is returned like any other.
MutTakeTask(w) ==
  /\ pc[w] = "judge"
  /\ pc' = [pc EXCEPT ![w] = "charge"]
  /\ UNCHANGED <<shared, at, pass, hold, temp, snap>>

\* Any other task will be returned, whether or not it is cancelled from now on.
TakeTask(w) ==
  /\ pc[w] = "judge"
  /\ hold[w] \notin token
  /\ pc' = [pc EXCEPT ![w] = "charge"]
  /\ UNCHANGED <<shared, at, pass, hold, temp, snap>>

\* The quota of its lane is charged only now.
ChargeLane(w) ==
  /\ pc[w] = "charge"
  /\ consumed' = [consumed EXCEPT ![at[w]] = @ + 1]
  /\ at' = [at EXCEPT ![w] = 0]
  /\ pass' = [pass EXCEPT ![w] = 1]
  /\ pc' = [pc EXCEPT ![w] = "busy"]
  /\ UNCHANGED <<lanes, base, prio, token, created, now, gauge, active, permit, sub,
                 left, hold, temp, snap>>

\* Mutant: the lane looked at keeps its old quota spent.
MutResetLane(w) ==
  /\ pc[w] = "reset"
  /\ at' = [at EXCEPT ![w] = IF @ + 1 < NumLanes THEN @ + 1 ELSE 0]
  /\ \/ at[w] + 1 < NumLanes /\ UNCHANGED <<pass, pc>>
     \/ /\ at[w] + 1 = NumLanes
        /\ pass' = [pass EXCEPT ![w] = 2]
        /\ pc' = [pc EXCEPT ![w] = "check"]
  /\ UNCHANGED <<shared, hold, temp, snap>>

\* reset_round_quotas stores zero lane by lane; the second scan follows.
ResetLane(w) ==
  /\ pc[w] = "reset"
  /\ consumed' = [consumed EXCEPT ![at[w]] = 0]
  /\ at' = [at EXCEPT ![w] = IF @ + 1 < NumLanes THEN @ + 1 ELSE 0]
  /\ \/ at[w] + 1 < NumLanes /\ UNCHANGED <<pass, pc>>
     \/ /\ at[w] + 1 = NumLanes
        /\ pass' = [pass EXCEPT ![w] = 2]
        /\ pc' = [pc EXCEPT ![w] = "check"]
  /\ UNCHANGED <<lanes, base, prio, token, created, now, gauge, active, permit, sub,
                 left, hold, temp, snap>>

\* The dispatcher loop awaits Notified: it takes the stored permit, or sleeps.
Park(w) ==
  /\ pc[w] = "park"
  /\ permit' = FALSE
  /\ pass' = [pass EXCEPT ![w] = 1]
  /\ pc' = [pc EXCEPT ![w] = IF permit THEN "loop" ELSE "asleep"]
  /\ UNCHANGED <<lanes, base, prio, token, created, now, consumed, gauge, active, sub,
                 left, at, hold, temp, snap>>

\* The dispatcher has run the task: completed, failed or cancelled meanwhile.
FinishTask(w) ==
  /\ pc[w] = "busy"
  /\ left' = left \cup {hold[w]}
  /\ hold' = [hold EXCEPT ![w] = NoTask]
  /\ pc' = [pc EXCEPT ![w] = "finished"]
  /\ UNCHANGED <<lanes, base, prio, token, created, now, consumed, gauge, active, permit,
                 sub, at, pass, temp, snap>>

FinishUncount(w) ==
  /\ pc[w] = "finished"
  /\ active' = active - 1
  /\ pc' = [pc EXCEPT ![w] = "loop"]
  /\ UNCHANGED <<lanes, base, prio, token, created, now, consumed, gauge, permit, sub,
                 left, at, pass, hold, temp, snap>>

-----------------------------------------------------------------------------

Promotion(w) ==
  \/ StartPromotion(w)
  \/ DrainPop(w)
  \/ PromoteTask(w)
  \/ PromoteUncount(w)
  \/ PromoteCount(w)
  \/ KeepTask(w)
  \/ DrainEmpty(w)
  \/ RestoreTask(w)

Scan(w) ==
  \/ QuotaLeft(w)
  \/ QuotaUsed(w)
  \/ ScanEmpty(w)
  \/ ScanPop(w)
  \/ ScanUncount(w)
  \/ DropCancelled(w)
  \/ DropUncount(w)
  \/ TakeTask(w)
  \/ ChargeLane(w)
  \/ ResetLane(w)

Worker(w) == Promotion(w) \/ Scan(w) \/ Park(w) \/ FinishTask(w) \/ FinishUncount(w)

SubmitRest(t) == SubmitGauge(t) \/ SubmitCount(t) \/ SubmitNotify(t)

Next ==
  \/ \E t \in Tasks : (\E p \in Priorities : SubmitPush(t, p)) \/ SubmitRest(t) \/ Cancel(t)
  \/ \E w \in Workers : Worker(w)
  \/ Tick

\* The runtime polls every worker that is not asleep, a handler returns, and
\* a submit() that has begun runs to its end.
Fairness ==
  /\ \A w \in Workers : WF_vars(Worker(w))
  /\ \A t \in Tasks : WF_vars(SubmitRest(t))

Spec == Init /\ [][Next]_vars

FairSpec == Spec /\ Fairness

-----------------------------------------------------------------------------
(* Where a task is.                                                        *)

RangeOf(s) == {s[i] : i \in DOMAIN s}

\* The positions of t in the lanes, in the workers' vectors and in hands.
Places(t) ==
  (UNION { {<<l, i>> : i \in {j \in DOMAIN lanes[l] : lanes[l][j] = t}} : l \in Lane })
    \cup (UNION { {<<w, i>> : i \in {j \in DOMAIN temp[w] : temp[w][j] = t}} : w \in Workers })
    \cup {<<w, 0>> : w \in {v \in Workers : hold[v] = t}}

\* The tasks the gauge of lane l is about: in the lane or drained from it.
Stored(l) ==
  RangeOf(lanes[l])
    \cup (UNION {RangeOf(temp[w]) : w \in {v \in Workers : at[v] = l}})
    \cup {hold[w] : w \in {v \in Workers : pc[v] = "aging" /\ at[v] = l}}

Given(t) == \E w \in Workers : hold[w] = t /\ pc[w] \in {"charge", "busy"}

-----------------------------------------------------------------------------
(* Safety.                                                                 *)

\* Draining, restoring, promoting and popping by several workers at once
\* never lose a submitted task and never give it to two of them.
TaskInOnePlace ==
  \A t \in Tasks :
    Cardinality(Places(t)) = IF sub[t] = "new" \/ t \in left THEN 0 ELSE 1

\* A task waits in the lane its effective priority names, also while a worker
\* that drained the lane keeps it aside.
LaneIsPriority ==
  /\ \A l \in Lane : \A t \in RangeOf(lanes[l]) : prio[t] = l
  /\ \A w \in Workers :
       /\ \A t \in RangeOf(temp[w]) : prio[t] = at[w]
       /\ pc[w] \in {"aging", "popped", "judge", "charge"} => prio[hold[w]] = at[w]

\* A task has left a lane upwards only if it has waited that lane's threshold.
PromotedOnlyByAge ==
  \A t \in Tasks :
    \A l \in prio[t] + 1 .. base[t] : now - created[t] >= AgeThreshold[l]

\* The workers past the quota test of lane l that have yet to charge it.
Past(l) ==
  {w \in Workers : pc[w] \in {"pop", "popped", "judge", "charge"} /\ at[w] = l}

\* The quota test, the pop and the charge are three separate accesses; still a
\* lane exceeds its quota in a round by less than the number of workers.
QuotaOvershootBounded ==
  \A l \in Lane : consumed[l] + Cardinality(Past(l)) <= Weights[l] + Cardinality(Workers) - 1

\* What a worker carries where it is: the strengthening of TypeOK on which the
\* proofs rest.
WorkerFits(w) ==
  /\ pc[w] \in {"drain", "aging", "promoted", "raised", "restore"} => at[w] > 0
  /\ pc[w] \in {"aging", "popped", "judge", "charge", "busy"} => hold[w] \in Tasks
  /\ pc[w] = "restore" => temp[w] # <<>>

WorkersFit == \A w \in Workers : WorkerFits(w)

\* The depth gauges and the queues never drift apart: they differ by exactly
\* the pushes, pops and promotions whose counter update is still to come.
GaugesTrackLanes ==
  \A l \in Lane :
    gauge[l] = Cardinality(Stored(l))
               - Cardinality({t \in Tasks : sub[t] = "pushed" /\ base[t] = l})
               + Cardinality({w \in Workers : pc[w] \in {"popped", "promoted"} /\ at[w] = l})
               - Cardinality({w \in Workers : pc[w] \in {"promoted", "raised"}
                                               /\ Promote(at[w]) = l})

\* The active gauge counts the submitted tasks nobody has finished or dropped,
\* but for the updates still to come.
ActiveGaugeExact ==
  active = Cardinality({t \in Tasks : sub[t] \in {"counted", "done"}}) - Cardinality(left)
           + Cardinality({w \in Workers : pc[w] \in {"dropped", "finished"}})

\* When every worker sleeps, no permit is stored and no submit() is about to
\* notify, nothing is queued: a drained lane or a spent quota that sent one
\* worker to sleep never leaves a task behind with nobody to serve it.
NoLostWakeup ==
  (/\ \A w \in Workers : pc[w] = "asleep"
   /\ ~ permit
   /\ \A t \in Tasks : sub[t] \in {"new", "done"})
  => \A l \in Lane : lanes[l] = <<>>

-----------------------------------------------------------------------------
(* Refinement: a task is in the pool from its push to the judgement, and   *)
(* taken from then on until the dispatcher is through with it.             *)

PoolPhase ==
  [t \in Tasks |-> IF sub[t] = "new" THEN "new"
                   ELSE IF t \in left THEN "gone"
                   ELSE IF Given(t) THEN "taken" ELSE "pooled"]

Pool == INSTANCE TaskPool WITH phase <- PoolPhase, cancelled <- token

\* Every submitted task is given to one worker at most, a dropped one was
\* cancelled, none given was cancelled when judged, and none waits for ever.
ImplementsTaskPool == Pool!Spec

\* The safety half of it: every step of the scheduler is a step of the pool.
StepsOfTaskPool == Pool!Init /\ [][Pool!Next]_(Pool!poolVars)

\* Every worker's local task fits the step it is at, and however the quota
\* test, the pop and the charge of several workers fall, quotas hold but for
\* the overshoot above.
QuotasHold == TypeOK /\ QuotaOvershootBounded

\* Lanes, temporary vectors and gauges agree: each task is in one place, in the
\* lane of its priority, which only waiting raises, and is counted there.
LanesConsistent ==
  TaskInOnePlace /\ LaneIsPriority /\ PromotedOnlyByAge /\ GaugesTrackLanes /\ ActiveGaugeExact
=============================================================================
