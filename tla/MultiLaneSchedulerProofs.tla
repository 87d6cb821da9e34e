---------------------- MODULE MultiLaneSchedulerProofs ----------------------
(***************************************************************************)
(* Theorems about MultiLaneScheduler, for every number of lanes, tasks and *)
(* workers, every quota and every threshold.                               *)
(***************************************************************************)
EXTENDS MultiLaneScheduler, FiniteSetTheorems, SequenceTheorems, TLAPS

\* The lanes a worker can step to.
LEMMA LaneFacts ==
  /\ 0 \in Lane
  /\ NumLanes - 1 \in Lane
  /\ NumLanes > 1 => NumLanes - 1 > 0
  /\ \A l \in Lane :
       /\ l \in Nat
       /\ Promote(l) \in Lane
       /\ l > 0 => l - 1 \in Lane
       /\ l > 1 => l - 1 > 0
       /\ l + 1 < NumLanes => l + 1 \in Lane
BY SchedulerAssumption DEF Lane, Promote

\* What the steps do to a queue or a counter.
LEMMA QueueFacts ==
  ASSUME NEW s \in Seq(Tasks)
  PROVE  /\ \A t \in Tasks : Append(s, t) \in Seq(Tasks)
         /\ s # <<>> => Head(s) \in Tasks /\ Tail(s) \in Seq(Tasks)
         /\ Len(s) > 1 => s # <<>> /\ Tail(s) # <<>>
         /\ Len(s) = 1 => s # <<>>
<1>1. s # <<>> => Head(s) \in Tasks /\ Tail(s) \in Seq(Tasks) /\ Len(Tail(s)) = Len(s) - 1
  BY HeadTailProperties
<1>2. Len(s) \in Nat /\ (s = <<>> <=> Len(s) = 0)
  BY EmptySeq, LenProperties
<1>3. Len(s) > 1 => Tail(s) # <<>>
  <2>1. Len(s) > 1 => Len(Tail(s)) # 0
    BY <1>1, <1>2
  <2> QED
    BY <2>1
<1>4. \A t \in Tasks : Append(s, t) \in Seq(Tasks)
  BY AppendProperties
<1> QED
  BY <1>1, <1>2, <1>3, <1>4

LEMMA CounterFacts ==
  ASSUME LaneTypes
  PROVE  /\ active + 1 \in Int
         /\ active - 1 \in Int
         /\ \A l \in Lane : gauge[l] + 1 \in Int /\ gauge[l] - 1 \in Int /\ consumed[l] + 1 \in Nat
BY DEF LaneTypes

LEMMA LeaveLaneTypes ==
  ASSUME WorkerTypes, NEW w \in Workers, at[w] > 0, LeaveLane(w)
  PROVE  /\ at' \in [Workers -> Lane]
         /\ pc' \in [Workers -> Step]
         /\ snap' \in [Workers -> 0 .. MaxNow]
<1>1. at[w] - 1 \in Lane
  BY LaneFacts DEF WorkerTypes
<1> QED
  BY <1>1, SchedulerAssumption DEF WorkerTypes, LeaveLane, Step

LEMMA InitTypes == Init => TypeOK /\ WorkersFit
<1> SUFFICES ASSUME Init PROVE TypeOK /\ WorkersFit
  OBVIOUS
<1> USE SchedulerAssumption, LaneFacts DEF Init
<1>1. TaskTypes
  BY DEF TaskTypes
<1>2. LaneTypes
  <2>1. <<>> \in Seq(Tasks) /\ 0 \in Nat /\ 0 \in Int
    OBVIOUS
  <2> QED
    BY <2>1 DEF LaneTypes
<1>3. WorkerTypes
  BY DEF WorkerTypes, Step
<1>4. WorkersFit
  BY DEF WorkersFit, WorkerFits
<1> QED
  BY <1>1, <1>2, <1>3, <1>4 DEF TypeOK

\* Each action keeps the types.
LEMMA TypeStep == TypeOK /\ WorkersFit /\ [Next]_vars => TypeOK'
<1> SUFFICES ASSUME TypeOK, WorkersFit, [Next]_vars PROVE TypeOK'
  OBVIOUS
<1> USE SchedulerAssumption DEF TypeOK, TaskTypes, LaneTypes, WorkerTypes, WorkersFit, WorkerFits, Step, shared, local
<1>1. ASSUME NEW t \in Tasks, NEW p \in Priorities, SubmitPush(t, p) PROVE TypeOK'
  <2>1. TaskTypes'
    BY <1>1, LaneFacts, QueueFacts, CounterFacts DEF SubmitPush
  <2>2. LaneTypes'
    BY <1>1, LaneFacts, QueueFacts, CounterFacts DEF SubmitPush
  <2>3. WorkerTypes'
    BY <1>1 DEF SubmitPush
  <2> QED
    BY <2>1, <2>2, <2>3 DEF TypeOK
<1>1a. ASSUME NEW t \in Tasks, SubmitGauge(t) PROVE TypeOK'
  <2>1. TaskTypes'
    BY <1>1a, LaneFacts, QueueFacts, CounterFacts DEF SubmitGauge
  <2>2. LaneTypes'
    BY <1>1a, LaneFacts, QueueFacts, CounterFacts DEF SubmitGauge
  <2>3. WorkerTypes'
    BY <1>1a DEF SubmitGauge
  <2> QED
    BY <2>1, <2>2, <2>3 DEF TypeOK
<1>2. ASSUME NEW t \in Tasks, SubmitCount(t) PROVE TypeOK'
  <2>1. TaskTypes'
    BY <1>2, LaneFacts, QueueFacts, CounterFacts DEF SubmitCount
  <2>2. LaneTypes'
    BY <1>2, LaneFacts, QueueFacts, CounterFacts DEF SubmitCount
  <2>3. WorkerTypes'
    BY <1>2 DEF SubmitCount
  <2> QED
    BY <2>1, <2>2, <2>3 DEF TypeOK
<1>3. ASSUME NEW t \in Tasks, SubmitNotify(t) PROVE TypeOK'
  <2>1. TaskTypes'
    BY <1>3, LaneFacts, QueueFacts, CounterFacts DEF SubmitNotify, NotifyOne
  <2>2. LaneTypes'
    BY <1>3, LaneFacts, QueueFacts, CounterFacts DEF SubmitNotify, NotifyOne
  <2>3. WorkerTypes'
    BY <1>3, LaneFacts, QueueFacts, CounterFacts DEF SubmitNotify, NotifyOne
  <2> QED
    BY <2>1, <2>2, <2>3 DEF TypeOK
<1>4. ASSUME NEW t \in Tasks, Cancel(t) PROVE TypeOK'
  <2>1. TaskTypes'
    BY <1>4, LaneFacts, QueueFacts, CounterFacts DEF Cancel
  <2>2. LaneTypes'
    BY <1>4 DEF Cancel
  <2>3. WorkerTypes'
    BY <1>4 DEF Cancel
  <2> QED
    BY <2>1, <2>2, <2>3 DEF TypeOK
<1>5. ASSUME NEW w \in Workers, StartPromotion(w) PROVE TypeOK'
  <2>1. TaskTypes'
    BY <1>5 DEF StartPromotion
  <2>2. LaneTypes'
    BY <1>5 DEF StartPromotion
  <2>3. WorkerTypes'
    BY <1>5, LaneFacts, QueueFacts, CounterFacts DEF StartPromotion
  <2> QED
    BY <2>1, <2>2, <2>3 DEF TypeOK
<1>6. ASSUME NEW w \in Workers, DrainPop(w) PROVE TypeOK'
  <2>1. TaskTypes'
    BY <1>6 DEF DrainPop, PopLane
  <2>2. LaneTypes'
    BY <1>6, LaneFacts, QueueFacts, CounterFacts DEF DrainPop, PopLane
  <2>3. WorkerTypes'
    BY <1>6, LaneFacts, QueueFacts, CounterFacts DEF DrainPop, PopLane
  <2> QED
    BY <2>1, <2>2, <2>3 DEF TypeOK
<1>7. ASSUME NEW w \in Workers, PromoteTask(w) PROVE TypeOK'
  <2>1. TaskTypes'
    BY <1>7, LaneFacts, QueueFacts, CounterFacts DEF PromoteTask
  <2>2. LaneTypes'
    BY <1>7, LaneFacts, QueueFacts, CounterFacts DEF PromoteTask
  <2>3. WorkerTypes'
    BY <1>7, LaneFacts, QueueFacts, CounterFacts DEF PromoteTask
  <2> QED
    BY <2>1, <2>2, <2>3 DEF TypeOK
<1>7a. ASSUME NEW w \in Workers, PromoteUncount(w) PROVE TypeOK'
  <2>1. TaskTypes'
    BY <1>7a DEF PromoteUncount
  <2>2. LaneTypes'
    BY <1>7a, LaneFacts, QueueFacts, CounterFacts DEF PromoteUncount
  <2>3. WorkerTypes'
    BY <1>7a, LaneFacts, QueueFacts, CounterFacts DEF PromoteUncount
  <2> QED
    BY <2>1, <2>2, <2>3 DEF TypeOK
<1>8. ASSUME NEW w \in Workers, PromoteCount(w) PROVE TypeOK'
  <2>1. TaskTypes'
    BY <1>8 DEF PromoteCount
  <2>2. LaneTypes'
    BY <1>8, LaneFacts, QueueFacts, CounterFacts DEF PromoteCount
  <2>3. WorkerTypes'
    BY <1>8, LaneFacts, QueueFacts, CounterFacts DEF PromoteCount
  <2> QED
    BY <2>1, <2>2, <2>3 DEF TypeOK
<1>9. ASSUME NEW w \in Workers, KeepTask(w) PROVE TypeOK'
  <2>1. TaskTypes'
    BY <1>9 DEF KeepTask
  <2>2. LaneTypes'
    BY <1>9 DEF KeepTask
  <2>3. WorkerTypes'
    BY <1>9, LaneFacts, QueueFacts, CounterFacts DEF KeepTask
  <2> QED
    BY <2>1, <2>2, <2>3 DEF TypeOK
<1>10. ASSUME NEW w \in Workers, DrainEmpty(w) PROVE TypeOK'
  <2>1. TaskTypes'
    BY <1>10 DEF DrainEmpty, LeaveLane
  <2>2. LaneTypes'
    BY <1>10 DEF DrainEmpty, LeaveLane
  <2>3. WorkerTypes'
    <3>1. pass' \in [Workers -> {1, 2}] /\ hold' \in [Workers -> Tasks \cup {NoTask}]
      BY <1>10 DEF DrainEmpty
    <3>2. temp' \in [Workers -> Seq(Tasks)]
      BY <1>10, QueueFacts DEF DrainEmpty
    <3>3. at[w] > 0
      BY <1>10 DEF DrainEmpty
    <3>4. CASE LeaveLane(w)
      BY <3>1, <3>2, <3>3, <3>4, LeaveLaneTypes
    <3>5. CASE ~ LeaveLane(w)
      BY <1>10, <3>1, <3>2, <3>5 DEF DrainEmpty
    <3> QED
      BY <3>4, <3>5
  <2> QED
    BY <2>1, <2>2, <2>3 DEF TypeOK
<1>11. ASSUME NEW w \in Workers, RestoreTask(w) PROVE TypeOK'
  <2>1. TaskTypes'
    BY <1>11 DEF RestoreTask, LeaveLane
  <2>2. LaneTypes'
    BY <1>11, LaneFacts, QueueFacts, CounterFacts DEF RestoreTask, LeaveLane
  <2>3. WorkerTypes'
    <3>1. pass' \in [Workers -> {1, 2}] /\ hold' \in [Workers -> Tasks \cup {NoTask}]
      BY <1>11 DEF RestoreTask
    <3>2. temp' \in [Workers -> Seq(Tasks)]
      BY <1>11, QueueFacts DEF RestoreTask
    <3>3. at[w] > 0
      BY <1>11 DEF RestoreTask
    <3>4. CASE LeaveLane(w)
      BY <3>1, <3>2, <3>3, <3>4, LeaveLaneTypes
    <3>5. CASE ~ LeaveLane(w)
      BY <1>11, <3>1, <3>2, <3>5 DEF RestoreTask
    <3> QED
      BY <3>4, <3>5
  <2> QED
    BY <2>1, <2>2, <2>3 DEF TypeOK
<1>12. ASSUME NEW w \in Workers, QuotaLeft(w) PROVE TypeOK'
  <2>1. TaskTypes'
    BY <1>12 DEF QuotaLeft
  <2>2. LaneTypes'
    BY <1>12 DEF QuotaLeft
  <2>3. WorkerTypes'
    BY <1>12, LaneFacts, QueueFacts, CounterFacts DEF QuotaLeft
  <2> QED
    BY <2>1, <2>2, <2>3 DEF TypeOK
<1>13. ASSUME NEW w \in Workers, QuotaUsed(w) PROVE TypeOK'
  <2>1. TaskTypes'
    BY <1>13 DEF QuotaUsed, NextLane
  <2>2. LaneTypes'
    BY <1>13 DEF QuotaUsed, NextLane
  <2>3. WorkerTypes'
    BY <1>13, LaneFacts, QueueFacts, CounterFacts DEF QuotaUsed, NextLane
  <2> QED
    BY <2>1, <2>2, <2>3 DEF TypeOK
<1>14. ASSUME NEW w \in Workers, ScanEmpty(w) PROVE TypeOK'
  <2>1. TaskTypes'
    BY <1>14 DEF ScanEmpty, NextLane
  <2>2. LaneTypes'
    BY <1>14 DEF ScanEmpty, NextLane
  <2>3. WorkerTypes'
    BY <1>14, LaneFacts, QueueFacts, CounterFacts DEF ScanEmpty, NextLane
  <2> QED
    BY <2>1, <2>2, <2>3 DEF TypeOK
<1>15. ASSUME NEW w \in Workers, ScanPop(w) PROVE TypeOK'
  <2>1. TaskTypes'
    BY <1>15 DEF ScanPop, PopLane
  <2>2. LaneTypes'
    BY <1>15, LaneFacts, QueueFacts, CounterFacts DEF ScanPop, PopLane
  <2>3. WorkerTypes'
    BY <1>15, LaneFacts, QueueFacts, CounterFacts DEF ScanPop, PopLane
  <2> QED
    BY <2>1, <2>2, <2>3 DEF TypeOK
<1>15a. ASSUME NEW w \in Workers, ScanUncount(w) PROVE TypeOK'
  <2>1. TaskTypes'
    BY <1>15a DEF ScanUncount
  <2>2. LaneTypes'
    BY <1>15a, LaneFacts, QueueFacts, CounterFacts DEF ScanUncount
  <2>3. WorkerTypes'
    BY <1>15a, LaneFacts, QueueFacts, CounterFacts DEF ScanUncount
  <2> QED
    BY <2>1, <2>2, <2>3 DEF TypeOK
<1>16. ASSUME NEW w \in Workers, DropCancelled(w) PROVE TypeOK'
  <2>1. TaskTypes'
    BY <1>16, LaneFacts, QueueFacts, CounterFacts DEF DropCancelled
  <2>2. LaneTypes'
    BY <1>16, LaneFacts, QueueFacts, CounterFacts DEF DropCancelled
  <2>3. WorkerTypes'
    BY <1>16, LaneFacts, QueueFacts, CounterFacts DEF DropCancelled
  <2> QED
    BY <2>1, <2>2, <2>3 DEF TypeOK
<1>16a. ASSUME NEW w \in Workers, DropUncount(w) PROVE TypeOK'
  <2>1. TaskTypes'
    BY <1>16a DEF DropUncount
  <2>2. LaneTypes'
    BY <1>16a, LaneFacts, QueueFacts, CounterFacts DEF DropUncount
  <2>3. WorkerTypes'
    BY <1>16a, LaneFacts, QueueFacts, CounterFacts DEF DropUncount
  <2> QED
    BY <2>1, <2>2, <2>3 DEF TypeOK
<1>17. ASSUME NEW w \in Workers, TakeTask(w) PROVE TypeOK'
  <2>1. TaskTypes'
    BY <1>17 DEF TakeTask
  <2>2. LaneTypes'
    BY <1>17, LaneFacts, QueueFacts, CounterFacts DEF TakeTask
  <2>3. WorkerTypes'
    BY <1>17, LaneFacts, QueueFacts, CounterFacts DEF TakeTask
  <2> QED
    BY <2>1, <2>2, <2>3 DEF TypeOK
<1>17a. ASSUME NEW w \in Workers, ChargeLane(w) PROVE TypeOK'
  <2>1. TaskTypes'
    BY <1>17a DEF ChargeLane
  <2>2. LaneTypes'
    BY <1>17a, LaneFacts, QueueFacts, CounterFacts DEF ChargeLane
  <2>3. WorkerTypes'
    BY <1>17a, LaneFacts, QueueFacts, CounterFacts DEF ChargeLane
  <2> QED
    BY <2>1, <2>2, <2>3 DEF TypeOK
<1>18. ASSUME NEW w \in Workers, ResetLane(w) PROVE TypeOK'
  <2>1. TaskTypes'
    BY <1>18 DEF ResetLane
  <2>2. LaneTypes'
    BY <1>18, LaneFacts, QueueFacts, CounterFacts DEF ResetLane
  <2>3. WorkerTypes'
    BY <1>18, LaneFacts, QueueFacts, CounterFacts DEF ResetLane
  <2> QED
    BY <2>1, <2>2, <2>3 DEF TypeOK
<1>19. ASSUME NEW w \in Workers, Park(w) PROVE TypeOK'
  <2>1. TaskTypes'
    BY <1>19 DEF Park
  <2>2. LaneTypes'
    BY <1>19, LaneFacts, QueueFacts, CounterFacts DEF Park
  <2>3. WorkerTypes'
    BY <1>19, LaneFacts, QueueFacts, CounterFacts DEF Park
  <2> QED
    BY <2>1, <2>2, <2>3 DEF TypeOK
<1>20. ASSUME NEW w \in Workers, FinishTask(w) PROVE TypeOK'
  <2>1. TaskTypes'
    BY <1>20, LaneFacts, QueueFacts, CounterFacts DEF FinishTask
  <2>2. LaneTypes'
    BY <1>20, LaneFacts, QueueFacts, CounterFacts DEF FinishTask
  <2>3. WorkerTypes'
    BY <1>20, LaneFacts, QueueFacts, CounterFacts DEF FinishTask
  <2> QED
    BY <2>1, <2>2, <2>3 DEF TypeOK
<1>20a. ASSUME NEW w \in Workers, FinishUncount(w) PROVE TypeOK'
  <2>1. TaskTypes'
    BY <1>20a DEF FinishUncount
  <2>2. LaneTypes'
    BY <1>20a, LaneFacts, QueueFacts, CounterFacts DEF FinishUncount
  <2>3. WorkerTypes'
    BY <1>20a, LaneFacts, QueueFacts, CounterFacts DEF FinishUncount
  <2> QED
    BY <2>1, <2>2, <2>3 DEF TypeOK
<1>21. CASE Tick
  BY <1>21 DEF Tick
<1>22. CASE UNCHANGED vars
  BY <1>22 DEF vars
<1> QED
  BY <1>1, <1>1a, <1>2, <1>3, <1>4, <1>5, <1>6, <1>7, <1>7a, <1>8, <1>9, <1>10, <1>11,
     <1>12, <1>13, <1>14, <1>15, <1>15a, <1>16, <1>16a, <1>17, <1>17a, <1>18, <1>19, <1>20,
     <1>20a, <1>21, <1>22
     DEF Next, SubmitRest, Worker, Promotion, Scan

\* Each action leaves every worker with what its next step needs.
LEMMA FitStep == TypeOK /\ WorkersFit /\ [Next]_vars => WorkersFit'
<1> SUFFICES ASSUME TypeOK, WorkersFit, [Next]_vars PROVE WorkersFit'
  OBVIOUS
<1> USE SchedulerAssumption, LaneFacts, QueueFacts DEF TypeOK, LaneTypes, WorkerTypes, WorkersFit, WorkerFits, Step, shared, local
<1>1. ASSUME NEW t \in Tasks, NEW p \in Priorities, SubmitPush(t, p) PROVE WorkersFit'
  BY <1>1 DEF SubmitPush
<1>1a. ASSUME NEW t \in Tasks, SubmitGauge(t) PROVE WorkersFit'
  BY <1>1a DEF SubmitGauge
<1>2. ASSUME NEW t \in Tasks, SubmitCount(t) PROVE WorkersFit'
  BY <1>2 DEF SubmitCount
<1>3. ASSUME NEW t \in Tasks, SubmitNotify(t) PROVE WorkersFit'
  BY <1>3 DEF SubmitNotify, NotifyOne
<1>4. ASSUME NEW t \in Tasks, Cancel(t) PROVE WorkersFit'
  BY <1>4 DEF Cancel
<1>5. ASSUME NEW w \in Workers, StartPromotion(w) PROVE WorkersFit'
  BY <1>5 DEF StartPromotion
<1>6. ASSUME NEW w \in Workers, DrainPop(w) PROVE WorkersFit'
  BY <1>6 DEF DrainPop, PopLane
<1>7. ASSUME NEW w \in Workers, PromoteTask(w) PROVE WorkersFit'
  BY <1>7 DEF PromoteTask
<1>7a. ASSUME NEW w \in Workers, PromoteUncount(w) PROVE WorkersFit'
  BY <1>7a DEF PromoteUncount
<1>8. ASSUME NEW w \in Workers, PromoteCount(w) PROVE WorkersFit'
  BY <1>8 DEF PromoteCount
<1>9. ASSUME NEW w \in Workers, KeepTask(w) PROVE WorkersFit'
  BY <1>9 DEF KeepTask
<1>10. ASSUME NEW w \in Workers, DrainEmpty(w) PROVE WorkersFit'
  <2>1. CASE LeaveLane(w)
    BY <1>10, <2>1 DEF DrainEmpty, LeaveLane
  <2>2. CASE ~ LeaveLane(w)
    BY <1>10, <2>2 DEF DrainEmpty
  <2> QED
    BY <2>1, <2>2
<1>11. ASSUME NEW w \in Workers, RestoreTask(w) PROVE WorkersFit'
  <2>1. CASE LeaveLane(w)
    BY <1>11, <2>1 DEF RestoreTask, LeaveLane
  <2>2. CASE ~ LeaveLane(w)
    BY <1>11, <2>2 DEF RestoreTask
  <2> QED
    BY <2>1, <2>2
<1>12. ASSUME NEW w \in Workers, QuotaLeft(w) PROVE WorkersFit'
  BY <1>12 DEF QuotaLeft
<1>13. ASSUME NEW w \in Workers, QuotaUsed(w) PROVE WorkersFit'
  BY <1>13 DEF QuotaUsed, NextLane
<1>14. ASSUME NEW w \in Workers, ScanEmpty(w) PROVE WorkersFit'
  BY <1>14 DEF ScanEmpty, NextLane
<1>15. ASSUME NEW w \in Workers, ScanPop(w) PROVE WorkersFit'
  BY <1>15 DEF ScanPop, PopLane
<1>15a. ASSUME NEW w \in Workers, ScanUncount(w) PROVE WorkersFit'
  BY <1>15a DEF ScanUncount
<1>16. ASSUME NEW w \in Workers, DropCancelled(w) PROVE WorkersFit'
  BY <1>16 DEF DropCancelled
<1>16a. ASSUME NEW w \in Workers, DropUncount(w) PROVE WorkersFit'
  BY <1>16a DEF DropUncount
<1>17. ASSUME NEW w \in Workers, TakeTask(w) PROVE WorkersFit'
  BY <1>17 DEF TakeTask
<1>17a. ASSUME NEW w \in Workers, ChargeLane(w) PROVE WorkersFit'
  BY <1>17a DEF ChargeLane
<1>18. ASSUME NEW w \in Workers, ResetLane(w) PROVE WorkersFit'
  BY <1>18 DEF ResetLane
<1>19. ASSUME NEW w \in Workers, Park(w) PROVE WorkersFit'
  BY <1>19 DEF Park
<1>20. ASSUME NEW w \in Workers, FinishTask(w) PROVE WorkersFit'
  BY <1>20 DEF FinishTask
<1>20a. ASSUME NEW w \in Workers, FinishUncount(w) PROVE WorkersFit'
  BY <1>20a DEF FinishUncount
<1>21. CASE Tick
  BY <1>21 DEF Tick
<1>22. CASE UNCHANGED vars
  BY <1>22 DEF vars
<1> QED
  BY <1>1, <1>1a, <1>2, <1>3, <1>4, <1>5, <1>6, <1>7, <1>7a, <1>8, <1>9, <1>10, <1>11,
     <1>12, <1>13, <1>14, <1>15, <1>15a, <1>16, <1>16a, <1>17, <1>17a, <1>18, <1>19, <1>20,
     <1>20a, <1>21, <1>22
     DEF Next, SubmitRest, Worker, Promotion, Scan

-----------------------------------------------------------------------------
(* The overshoot of the quotas.                                            *)

LEMMA PastFinite ==
  \A l \in Lane :
    /\ IsFiniteSet(Past(l))
    /\ Past(l) \subseteq Workers
    /\ Cardinality(Past(l)) \in Nat
    /\ Cardinality(Past(l)) <= Cardinality(Workers)
    /\ Cardinality(Workers) \in Nat
BY SchedulerAssumption, FS_Subset, FS_CardinalityType DEF Past

LEMMA InitQuota == Init => QuotaOvershootBounded
<1> SUFFICES ASSUME Init, NEW l \in Lane
             PROVE  consumed[l] + Cardinality(Past(l)) <= Weights[l] + Cardinality(Workers) - 1
  BY DEF QuotaOvershootBounded
<1>1. consumed[l] = 0 /\ Past(l) = {}
  BY DEF Init, Past
<1>2. Cardinality(Past(l)) = 0
  BY <1>1, FS_EmptySet
<1>3. Weights[l] \in Nat /\ Weights[l] >= 1
  BY SchedulerAssumption
<1> QED
  BY <1>1, <1>2, <1>3, PastFinite

\* A step that charges no quota and lets no worker past a quota test.
LEMMA QuotaKept ==
  ASSUME LaneTypes, LaneTypes', QuotaOvershootBounded,
         \A l \in Lane : consumed'[l] <= consumed[l] /\ Past(l)' \subseteq Past(l)
  PROVE  QuotaOvershootBounded'
<1> SUFFICES ASSUME NEW l \in Lane
             PROVE  consumed'[l] + Cardinality(Past(l)') <= Weights[l] + Cardinality(Workers) - 1
  BY DEF QuotaOvershootBounded
<1>1. Cardinality(Past(l)') <= Cardinality(Past(l)) /\ Cardinality(Past(l)') \in Nat
  BY PastFinite, FS_Subset, FS_CardinalityType
<1>2. consumed'[l] \in Nat /\ consumed[l] \in Nat /\ consumed'[l] <= consumed[l]
  BY DEF LaneTypes
<1>3. Weights[l] \in Nat
  BY SchedulerAssumption
<1>4. consumed[l] + Cardinality(Past(l)) <= Weights[l] + Cardinality(Workers) - 1
  BY DEF QuotaOvershootBounded
<1> QED
  BY <1>1, <1>2, <1>3, <1>4, PastFinite

LEMMA QuotaStep == TypeOK /\ TypeOK' /\ QuotaOvershootBounded /\ [Next]_vars => QuotaOvershootBounded'
<1> SUFFICES ASSUME TypeOK, TypeOK', QuotaOvershootBounded, [Next]_vars
             PROVE  QuotaOvershootBounded'
  OBVIOUS
<1> LaneTypes /\ LaneTypes' /\ WorkerTypes
  BY DEF TypeOK
<1>0. \A l \in Lane : consumed[l] <= consumed[l]
  BY DEF LaneTypes
<1> USE DEF Past, WorkerTypes, shared, local
<1>1. ASSUME NEW t \in Tasks, NEW p \in Priorities, SubmitPush(t, p) PROVE QuotaOvershootBounded'
  BY <1>0, <1>1, QuotaKept DEF SubmitPush
<1>1a. ASSUME NEW t \in Tasks, SubmitGauge(t) PROVE QuotaOvershootBounded'
  BY <1>0, <1>1a, QuotaKept DEF SubmitGauge
<1>2. ASSUME NEW t \in Tasks, SubmitCount(t) PROVE QuotaOvershootBounded'
  BY <1>0, <1>2, QuotaKept DEF SubmitCount
<1>3. ASSUME NEW t \in Tasks, SubmitNotify(t) PROVE QuotaOvershootBounded'
  BY <1>0, <1>3, QuotaKept DEF SubmitNotify, NotifyOne
<1>4. ASSUME NEW t \in Tasks, Cancel(t) PROVE QuotaOvershootBounded'
  BY <1>0, <1>4, QuotaKept DEF Cancel
<1>5. ASSUME NEW w \in Workers, StartPromotion(w) PROVE QuotaOvershootBounded'
  BY <1>0, <1>5, QuotaKept DEF StartPromotion
<1>6. ASSUME NEW w \in Workers, DrainPop(w) PROVE QuotaOvershootBounded'
  BY <1>0, <1>6, QuotaKept DEF DrainPop, PopLane
<1>7. ASSUME NEW w \in Workers, PromoteTask(w) PROVE QuotaOvershootBounded'
  BY <1>0, <1>7, QuotaKept DEF PromoteTask
<1>7a. ASSUME NEW w \in Workers, PromoteUncount(w) PROVE QuotaOvershootBounded'
  BY <1>0, <1>7a, QuotaKept DEF PromoteUncount
<1>8. ASSUME NEW w \in Workers, PromoteCount(w) PROVE QuotaOvershootBounded'
  BY <1>0, <1>8, QuotaKept DEF PromoteCount
<1>9. ASSUME NEW w \in Workers, KeepTask(w) PROVE QuotaOvershootBounded'
  BY <1>0, <1>9, QuotaKept DEF KeepTask
<1>10. ASSUME NEW w \in Workers, DrainEmpty(w) PROVE QuotaOvershootBounded'
  BY <1>0, <1>10, QuotaKept DEF DrainEmpty, LeaveLane
<1>11. ASSUME NEW w \in Workers, RestoreTask(w) PROVE QuotaOvershootBounded'
  BY <1>0, <1>11, QuotaKept DEF RestoreTask, LeaveLane
<1>12. ASSUME NEW w \in Workers, QuotaLeft(w) PROVE QuotaOvershootBounded'
  <2> SUFFICES ASSUME NEW l \in Lane
               PROVE  consumed'[l] + Cardinality(Past(l)') <= Weights[l] + Cardinality(Workers) - 1
    BY DEF QuotaOvershootBounded
  <2>0. consumed'[l] = consumed[l] /\ consumed[l] \in Nat /\ Weights[l] \in Nat
    BY <1>12, SchedulerAssumption DEF QuotaLeft, LaneTypes
  <2>1. CASE at[w] = l
    <3>1. Past(l)' = Past(l) \cup {w} /\ w \notin Past(l)
      BY <1>12, <2>1 DEF QuotaLeft
    <3>2. Cardinality(Past(l)') = Cardinality(Past(l)) + 1
      BY <3>1, PastFinite, FS_AddElement
    <3>3. Past(l)' \subseteq Workers
      BY DEF Past
    <3>4. Cardinality(Past(l)') <= Cardinality(Workers)
      BY <3>3, SchedulerAssumption, FS_Subset
    <3>5. consumed[l] < Weights[l]
      BY <1>12, <2>1 DEF QuotaLeft
    <3> HIDE DEF Past
    <3> QED
      BY <2>0, <3>2, <3>4, <3>5, PastFinite
  <2>2. CASE at[w] # l
    <3>1. Past(l)' = Past(l)
      BY <1>12, <2>2 DEF QuotaLeft
    <3> QED
      BY <2>0, <3>1 DEF QuotaOvershootBounded
  <2> QED
    BY <2>1, <2>2
<1>13. ASSUME NEW w \in Workers, QuotaUsed(w) PROVE QuotaOvershootBounded'
  BY <1>0, <1>13, QuotaKept DEF QuotaUsed, NextLane
<1>14. ASSUME NEW w \in Workers, ScanEmpty(w) PROVE QuotaOvershootBounded'
  BY <1>0, <1>14, QuotaKept DEF ScanEmpty, NextLane
<1>15. ASSUME NEW w \in Workers, ScanPop(w) PROVE QuotaOvershootBounded'
  BY <1>0, <1>15, QuotaKept DEF ScanPop, PopLane
<1>15a. ASSUME NEW w \in Workers, ScanUncount(w) PROVE QuotaOvershootBounded'
  BY <1>0, <1>15a, QuotaKept DEF ScanUncount
<1>16. ASSUME NEW w \in Workers, DropCancelled(w) PROVE QuotaOvershootBounded'
  BY <1>0, <1>16, QuotaKept DEF DropCancelled
<1>16a. ASSUME NEW w \in Workers, DropUncount(w) PROVE QuotaOvershootBounded'
  BY <1>0, <1>16a, QuotaKept DEF DropUncount
<1>17. ASSUME NEW w \in Workers, TakeTask(w) PROVE QuotaOvershootBounded'
  BY <1>0, <1>17, QuotaKept DEF TakeTask
<1>17a. ASSUME NEW w \in Workers, ChargeLane(w) PROVE QuotaOvershootBounded'
  <2> SUFFICES ASSUME NEW l \in Lane
               PROVE  consumed'[l] + Cardinality(Past(l)') <= Weights[l] + Cardinality(Workers) - 1
    BY DEF QuotaOvershootBounded
  <2>0. consumed[l] \in Nat /\ Weights[l] \in Nat
    BY SchedulerAssumption DEF LaneTypes
  <2>1. CASE at[w] = l
    <3>1. Past(l)' = Past(l) \ {w} /\ w \in Past(l)
      BY <1>17a, <2>1 DEF ChargeLane
    <3> HIDE DEF Past
    <3>2. Cardinality(Past(l)') = Cardinality(Past(l)) - 1
      BY <3>1, PastFinite, FS_RemoveElement
    <3>3. consumed'[l] = consumed[l] + 1
      BY <1>17a, <2>1 DEF ChargeLane, LaneTypes
    <3> QED
      BY <2>0, <3>2, <3>3, PastFinite DEF QuotaOvershootBounded
  <2>2. CASE at[w] # l
    <3>1. Past(l)' = Past(l)
      BY <1>17a, <2>2 DEF ChargeLane
    <3>2. consumed'[l] = consumed[l]
      BY <1>17a, <2>2 DEF ChargeLane, LaneTypes
    <3> QED
      BY <3>1, <3>2 DEF QuotaOvershootBounded
  <2> QED
    BY <2>1, <2>2
<1>18. ASSUME NEW w \in Workers, ResetLane(w) PROVE QuotaOvershootBounded'
  <2>1. \A l \in Lane : consumed'[l] <= consumed[l]
    BY <1>18 DEF ResetLane, LaneTypes
  <2> QED
    BY <1>18, <2>1, QuotaKept DEF ResetLane
<1>19. ASSUME NEW w \in Workers, Park(w) PROVE QuotaOvershootBounded'
  BY <1>0, <1>19, QuotaKept DEF Park
<1>20. ASSUME NEW w \in Workers, FinishTask(w) PROVE QuotaOvershootBounded'
  BY <1>0, <1>20, QuotaKept DEF FinishTask
<1>20a. ASSUME NEW w \in Workers, FinishUncount(w) PROVE QuotaOvershootBounded'
  BY <1>0, <1>20a, QuotaKept DEF FinishUncount
<1>21. CASE Tick
  BY <1>0, <1>21, QuotaKept DEF Tick
<1>22. CASE UNCHANGED vars
  BY <1>0, <1>22, QuotaKept DEF vars
<1> QED
  BY <1>1, <1>1a, <1>2, <1>3, <1>4, <1>5, <1>6, <1>7, <1>7a, <1>8, <1>9, <1>10, <1>11,
     <1>12, <1>13, <1>14, <1>15, <1>15a, <1>16, <1>16a, <1>17, <1>17a, <1>18, <1>19, <1>20,
     <1>20a, <1>21, <1>22
     DEF Next, SubmitRest, Worker, Promotion, Scan

-----------------------------------------------------------------------------
(* Every submitted task is in one place.                                   *)

\* Submitted, and neither dropped nor finished.
Live(t) == sub[t] # "new" /\ t \notin left

\* A worker has a task in hand only between taking it from a lane and giving
\* it away, and tasks aside only while it drains and restores a lane.
Carrying ==
  \A w \in Workers :
    /\ hold[w] # NoTask <=> pc[w] \in {"aging", "popped", "judge", "charge", "busy"}
    /\ temp[w] # <<>> => pc[w] \in {"drain", "aging", "promoted", "raised", "restore"}

\* What lies in a lane, in a vector or in a hand is live.
AllLive ==
  /\ \A l \in Lane : \A i \in 1 .. Len(lanes[l]) : Live(lanes[l][i])
  /\ \A w \in Workers : \A i \in 1 .. Len(temp[w]) : Live(temp[w][i])
  /\ \A w \in Workers : hold[w] # NoTask => Live(hold[w])

\* No two places hold the same task.
Alone ==
  /\ \A l, m \in Lane : \A i \in 1 .. Len(lanes[l]), j \in 1 .. Len(lanes[m]) :
       lanes[l][i] = lanes[m][j] => l = m /\ i = j
  /\ \A v, w \in Workers : \A i \in 1 .. Len(temp[v]), j \in 1 .. Len(temp[w]) :
       temp[v][i] = temp[w][j] => v = w /\ i = j
  /\ \A v, w \in Workers : hold[v] # NoTask /\ hold[v] = hold[w] => v = w
  /\ \A l \in Lane, w \in Workers : \A i \in 1 .. Len(lanes[l]), j \in 1 .. Len(temp[w]) :
       lanes[l][i] # temp[w][j]
  /\ \A l \in Lane, w \in Workers : \A i \in 1 .. Len(lanes[l]) : lanes[l][i] # hold[w]
  /\ \A v, w \in Workers : \A i \in 1 .. Len(temp[v]) : temp[v][i] # hold[w]

\* A live task lies somewhere.
LiesIn(t) ==
  \/ \E l \in Lane : \E i \in 1 .. Len(lanes[l]) : lanes[l][i] = t
  \/ \E w \in Workers : \E i \in 1 .. Len(temp[w]) : temp[w][i] = t
  \/ \E w \in Workers : hold[w] = t

NoneLost == \A t \in Tasks : Live(t) => LiesIn(t)

\* Nothing leaves that never came.
LeftCame == \A t \in left : sub[t] # "new"

PlacesInv == Carrying /\ LeftCame /\ AllLive /\ Alone /\ NoneLost

LEMMA InitPlaces == Init => PlacesInv
<1> SUFFICES ASSUME Init PROVE PlacesInv
  OBVIOUS
<1>1. \A l \in Lane : Len(lanes[l]) = 0
  BY DEF Init
<1>2. \A w \in Workers : Len(temp[w]) = 0 /\ hold[w] = NoTask
  BY DEF Init
<1>3. Carrying
  BY DEF Init, Carrying
<1>4. AllLive /\ Alone
  BY <1>1, <1>2, SchedulerAssumption DEF AllLive, Alone
<1>5. NoneLost
  BY DEF Init, NoneLost, Live
<1>6. LeftCame
  BY DEF Init, LeftCame
<1> QED BY <1>3, <1>4, <1>5, <1>6 DEF PlacesInv

\* What a pop and an append leave in a queue, entry by entry.
LEMMA PopFacts ==
  ASSUME NEW s \in Seq(Tasks), s # <<>>
  PROVE  /\ Len(s) \in Nat /\ Len(s) >= 1 /\ Head(s) = s[1] /\ s[1] \in Tasks
         /\ Tail(s) \in Seq(Tasks) /\ Len(Tail(s)) = Len(s) - 1
         /\ \A i \in 1 .. (Len(s) - 1) : Tail(s)[i] = s[i + 1]
<1>1. Len(s) \in Nat /\ Len(s) # 0
  BY EmptySeq, LenProperties
<1>2. Len(s) >= 1 /\ 1 \in 1 .. Len(s)
  BY <1>1
<1>3. s[1] \in Tasks
  BY <1>2, ElementOfSeq
<1> QED BY <1>1, <1>2, <1>3, HeadTailProperties, SMT

LEMMA PushFacts ==
  ASSUME NEW s \in Seq(Tasks), NEW t \in Tasks
  PROVE  /\ Len(s) \in Nat
         /\ Append(s, t) \in Seq(Tasks) /\ Len(Append(s, t)) = Len(s) + 1
         /\ \A i \in 1 .. Len(s) : Append(s, t)[i] = s[i]
         /\ Append(s, t)[Len(s) + 1] = t
BY AppendProperties, LenProperties

LEMMA Entries ==
  ASSUME TypeOK
  PROVE  /\ \A l \in Lane : Len(lanes[l]) \in Nat /\ \A i \in 1 .. Len(lanes[l]) : lanes[l][i] \in Tasks
         /\ \A w \in Workers : Len(temp[w]) \in Nat /\ \A i \in 1 .. Len(temp[w]) : temp[w][i] \in Tasks
         /\ \A w \in Workers : hold[w] \in Tasks \cup {NoTask}
         /\ NoTask \notin Tasks
BY SchedulerAssumption, ElementOfSeq, LenProperties DEF TypeOK, LaneTypes, WorkerTypes

\* Steps that move no task.
LEMMA NothingMoved ==
  ASSUME AllLive, Alone, NoneLost, UNCHANGED <<lanes, temp, hold, left>>,
         \A t \in Tasks : sub'[t] = "new" <=> sub[t] = "new", TypeOK
  PROVE  AllLive' /\ Alone' /\ NoneLost'
<1>1. AllLive'
  BY Entries DEF AllLive, Live
<1>2. Alone'
  BY DEF Alone
<1>3. NoneLost'
  BY DEF NoneLost, Live, LiesIn
<1> QED BY <1>1, <1>2, <1>3

\* From the front of a lane into an empty hand.
LEMMA PopMoves ==
  ASSUME TypeOK, TypeOK', AllLive, Alone, NoneLost, NEW w \in Workers, PopLane(w), hold[w] = NoTask,
         UNCHANGED <<temp, left, sub>>
  PROVE  AllLive' /\ Alone' /\ NoneLost'
<1> DEFINE l == at[w]
<1>0. l \in Lane /\ lanes \in [Lane -> Seq(Tasks)] /\ hold \in [Workers -> Tasks \cup {NoTask}] /\ lanes[l] # <<>>
  BY DEF TypeOK, LaneTypes, WorkerTypes, PopLane
<1>1. \A m \in Lane : m # l => lanes'[m] = lanes[m]
  BY <1>0 DEF PopLane
<1>2. /\ Len(lanes[l]) \in Nat /\ Len(lanes[l]) >= 1
      /\ Len(lanes'[l]) = Len(lanes[l]) - 1
      /\ \A i \in 1 .. Len(lanes'[l]) : lanes'[l][i] = lanes[l][i + 1]
      /\ lanes[l][1] \in Tasks
  BY <1>0, PopFacts DEF PopLane
<1>3. hold'[w] = lanes[l][1] /\ \A v \in Workers : v # w => hold'[v] = hold[v]
  BY <1>0, PopFacts DEF PopLane
<1> DEFINE old(m, i) == IF m = l THEN i + 1 ELSE i
<1>4. \A m \in Lane : \A i \in 1 .. Len(lanes'[m]) :
        /\ old(m, i) \in 1 .. Len(lanes[m]) /\ lanes'[m][i] = lanes[m][old(m, i)]
        /\ m = l => old(m, i) # 1
        /\ \A j \in 1 .. Len(lanes'[m]) : old(m, i) = old(m, j) => i = j
  <2> TAKE m \in Lane
  <2> TAKE i \in 1 .. Len(lanes'[m])
  <2>1. CASE m = l
    BY <2>1, <1>2
  <2>2. CASE m # l
    BY <2>2, <1>1, <1>0
  <2> QED BY <2>1, <2>2
<1>5. 1 \in 1 .. Len(lanes[l])
  BY <1>2
<1> HIDE DEF l, old
<1>6. AllLive'
  <2>1. \A m \in Lane : \A i \in 1 .. Len(lanes'[m]) : Live(lanes'[m][i])
    BY <1>4 DEF AllLive
  <2>2. \A v \in Workers : \A i \in 1 .. Len(temp'[v]) : Live(temp'[v][i])
    BY DEF AllLive
  <2>3. \A v \in Workers : hold'[v] # NoTask => Live(hold'[v])
    BY <1>0, <1>3, <1>5 DEF AllLive
  <2> QED BY <2>1, <2>2, <2>3 DEF AllLive, Live
<1>7. Alone'
  <2>1. \A k, m \in Lane : \A i \in 1 .. Len(lanes'[k]), j \in 1 .. Len(lanes'[m]) :
          lanes'[k][i] = lanes'[m][j] => k = m /\ i = j
    <3> SUFFICES ASSUME NEW k \in Lane, NEW m \in Lane, NEW i \in 1 .. Len(lanes'[k]),
                        NEW j \in 1 .. Len(lanes'[m]), lanes'[k][i] = lanes'[m][j]
                 PROVE  k = m /\ i = j
      OBVIOUS
    <3>1. /\ old(k, i) \in 1 .. Len(lanes[k]) /\ old(m, j) \in 1 .. Len(lanes[m])
          /\ lanes[k][old(k, i)] = lanes[m][old(m, j)]
      BY <1>4
    <3>2. k = m /\ old(k, i) = old(m, j)
      BY <3>1 DEF Alone
    <3> QED BY <3>2, <1>4
  <2>2. \A u, v \in Workers : hold'[v] # NoTask /\ hold'[v] = hold'[u] => v = u
    BY <1>0, <1>3, <1>5 DEF Alone
  <2>3. \A m \in Lane, v \in Workers : \A i \in 1 .. Len(lanes'[m]), j \in 1 .. Len(temp'[v]) :
          lanes'[m][i] # temp'[v][j]
    BY <1>4 DEF Alone
  <2>4. \A m \in Lane, v \in Workers : \A i \in 1 .. Len(lanes'[m]) : lanes'[m][i] # hold'[v]
    <3> SUFFICES ASSUME NEW m \in Lane, NEW v \in Workers, NEW i \in 1 .. Len(lanes'[m])
                 PROVE  lanes'[m][i] # hold'[v]
      OBVIOUS
    <3>1. CASE v = w
      <4>1. /\ old(m, i) \in 1 .. Len(lanes[m]) /\ lanes'[m][i] = lanes[m][old(m, i)]
            /\ m = l => old(m, i) # 1
        BY <1>4
      <4>2. lanes[m][old(m, i)] = lanes[l][1] => m = l /\ old(m, i) = 1
        BY <4>1, <1>0, <1>5 DEF Alone
      <4> QED BY <3>1, <4>1, <4>2, <1>3
    <3>2. CASE v # w
      BY <3>2, <1>3, <1>4 DEF Alone
    <3> QED BY <3>1, <3>2
  <2>5. \A u, v \in Workers : \A i \in 1 .. Len(temp'[v]) : temp'[v][i] # hold'[u]
    <3> SUFFICES ASSUME NEW u \in Workers, NEW v \in Workers, NEW i \in 1 .. Len(temp'[v])
                 PROVE  temp'[v][i] # hold'[u]
      OBVIOUS
    <3>1. CASE u = w
      BY <3>1, <1>0, <1>3, <1>5 DEF Alone
    <3>2. CASE u # w
      BY <3>2, <1>3 DEF Alone
    <3> QED BY <3>1, <3>2
  <2>6. \A v, u \in Workers : \A i \in 1 .. Len(temp'[v]), j \in 1 .. Len(temp'[u]) :
          temp'[v][i] = temp'[u][j] => v = u /\ i = j
    BY DEF Alone
  <2> QED BY <2>1, <2>2, <2>3, <2>4, <2>5, <2>6 DEF Alone
<1>8. NoneLost'
  <2> SUFFICES ASSUME NEW t \in Tasks, Live(t)' PROVE LiesIn(t)'
    BY DEF NoneLost
  <2>1. LiesIn(t)
    BY DEF NoneLost, Live
  <2>2. CASE \E m \in Lane : \E i \in 1 .. Len(lanes[m]) : lanes[m][i] = t
    <3>0. PICK m \in Lane : \E i \in 1 .. Len(lanes[m]) : lanes[m][i] = t
      BY <2>2
    <3>1. PICK i \in 1 .. Len(lanes[m]) : lanes[m][i] = t
      BY <3>0
    <3>2. CASE m = l /\ i = 1
      BY <3>1, <3>2, <1>3 DEF LiesIn
    <3>3. CASE m # l
      BY <3>1, <3>3, <1>1 DEF LiesIn
    <3>4. CASE m = l /\ i # 1
      <4>1. i - 1 \in 1 .. Len(lanes'[l]) /\ lanes'[l][i - 1] = lanes[l][i]
        BY <3>1, <3>4, <1>2
      <4> QED BY <3>1, <3>4, <4>1, <1>0 DEF LiesIn
    <3> QED BY <3>2, <3>3, <3>4
  <2>3. CASE \E v \in Workers : \E i \in 1 .. Len(temp[v]) : temp[v][i] = t
    BY <2>3 DEF LiesIn
  <2>4. CASE \E v \in Workers : hold[v] = t
    BY <2>4, <1>3, Entries DEF LiesIn
  <2> QED BY <2>1, <2>2, <2>3, <2>4 DEF LiesIn
<1> QED BY <1>6, <1>7, <1>8

\* A task that lies in no lane or vector goes to the end of a lane: a new one
\* or one from a hand.
LEMMA PushMoves ==
  ASSUME TypeOK, TypeOK', AllLive, Alone, NoneLost, NEW k \in Lane, NEW t \in Tasks,
         lanes' = [lanes EXCEPT ![k] = Append(@, t)], UNCHANGED temp,
         \A l \in Lane : \A i \in 1 .. Len(lanes[l]) : lanes[l][i] # t,
         \A v \in Workers : \A i \in 1 .. Len(temp[v]) : temp[v][i] # t,
         \A v \in Workers : hold'[v] # t /\ (hold'[v] = hold[v] \/ hold'[v] = NoTask),
         \A v \in Workers : hold'[v] # hold[v] => hold[v] = t,
         \A u \in Tasks : Live(u)' <=> (Live(u) \/ u = t)
  PROVE  AllLive' /\ Alone' /\ NoneLost'
<1>0. lanes \in [Lane -> Seq(Tasks)] /\ lanes[k] \in Seq(Tasks)
  BY DEF TypeOK, LaneTypes
<1>1. /\ Len(lanes[k]) \in Nat /\ Len(lanes'[k]) = Len(lanes[k]) + 1
      /\ \A i \in 1 .. Len(lanes[k]) : lanes'[k][i] = lanes[k][i]
      /\ lanes'[k][Len(lanes[k]) + 1] = t
  BY <1>0, PushFacts
<1>2. \A m \in Lane : m # k => lanes'[m] = lanes[m]
  BY <1>0
<1> DEFINE new(m, i) == m = k /\ i = Len(lanes[k]) + 1
<1>3. \A m \in Lane : \A i \in 1 .. Len(lanes'[m]) :
        IF new(m, i) THEN lanes'[m][i] = t
        ELSE i \in 1 .. Len(lanes[m]) /\ lanes'[m][i] = lanes[m][i]
  <2> TAKE m \in Lane
  <2> TAKE i \in 1 .. Len(lanes'[m])
  <2>1. CASE m = k
    BY <2>1, <1>1
  <2>2. CASE m # k
    BY <2>2, <1>2
  <2> QED BY <2>1, <2>2
<1>4. \A m, n \in Lane : \A i, j : new(m, i) /\ new(n, j) => m = n /\ i = j
  OBVIOUS
<1>5. \A m \in Lane : \A i \in 1 .. Len(lanes[m]) : i \in 1 .. Len(lanes'[m]) /\ lanes'[m][i] = lanes[m][i]
  <2> TAKE m \in Lane
  <2>1. CASE m = k
    BY <2>1, <1>1
  <2>2. CASE m # k
    BY <2>2, <1>2
  <2> QED BY <2>1, <2>2
<1>6. Len(lanes[k]) + 1 \in 1 .. Len(lanes'[k])
  BY <1>1
<1> HIDE DEF new
<1>7. AllLive'
  <2>1. \A m \in Lane : \A i \in 1 .. Len(lanes'[m]) : sub'[lanes'[m][i]] # "new" /\ lanes'[m][i] \notin left'
    <3> TAKE m \in Lane
    <3> TAKE i \in 1 .. Len(lanes'[m])
    <3>1. CASE new(m, i)
      BY <3>1, <1>3 DEF Live
    <3>2. CASE ~ new(m, i)
      BY <3>2, <1>3, Entries DEF AllLive, Live
    <3> QED BY <3>1, <3>2
  <2>2. \A v \in Workers : \A i \in 1 .. Len(temp'[v]) : sub'[temp'[v][i]] # "new" /\ temp'[v][i] \notin left'
    BY Entries DEF AllLive, Live
  <2>3. \A v \in Workers : hold'[v] # NoTask => sub'[hold'[v]] # "new" /\ hold'[v] \notin left'
    BY Entries DEF AllLive, Live
  <2> QED BY <2>1, <2>2, <2>3 DEF AllLive, Live
<1>8. Alone'
  <2>1. \A m, n \in Lane : \A i \in 1 .. Len(lanes'[m]), j \in 1 .. Len(lanes'[n]) :
          lanes'[m][i] = lanes'[n][j] => m = n /\ i = j
    <3> SUFFICES ASSUME NEW m \in Lane, NEW n \in Lane, NEW i \in 1 .. Len(lanes'[m]),
                        NEW j \in 1 .. Len(lanes'[n]), lanes'[m][i] = lanes'[n][j]
                 PROVE  m = n /\ i = j
      OBVIOUS
    <3>1. CASE new(m, i) /\ new(n, j)
      BY <3>1, <1>4
    <3>2. CASE ~ new(m, i) /\ ~ new(n, j)
      BY <3>2, <1>3 DEF Alone
    <3>3. CASE new(m, i) /\ ~ new(n, j)
      BY <3>3, <1>3
    <3>4. CASE ~ new(m, i) /\ new(n, j)
      BY <3>4, <1>3
    <3> QED BY <3>1, <3>2, <3>3, <3>4
  <2>2. \A u, v \in Workers : hold'[v] # NoTask /\ hold'[v] = hold'[u] => v = u
    BY DEF Alone
  <2>3. \A m \in Lane, v \in Workers : \A i \in 1 .. Len(lanes'[m]), j \in 1 .. Len(temp'[v]) :
          lanes'[m][i] # temp'[v][j]
    BY <1>3 DEF Alone
  <2>4. \A m \in Lane, v \in Workers : \A i \in 1 .. Len(lanes'[m]) : lanes'[m][i] # hold'[v]
    <3> SUFFICES ASSUME NEW m \in Lane, NEW v \in Workers, NEW i \in 1 .. Len(lanes'[m])
                 PROVE  lanes'[m][i] # hold'[v]
      OBVIOUS
    <3>1. CASE new(m, i)
      BY <3>1, <1>3
    <3>2. CASE ~ new(m, i)
      BY <3>2, <1>3, Entries DEF Alone
    <3> QED BY <3>1, <3>2
  <2>5. \A u, v \in Workers : \A i \in 1 .. Len(temp'[v]) : temp'[v][i] # hold'[u]
    BY Entries DEF Alone
  <2>6. \A v, u \in Workers : \A i \in 1 .. Len(temp'[v]), j \in 1 .. Len(temp'[u]) :
          temp'[v][i] = temp'[u][j] => v = u /\ i = j
    BY DEF Alone
  <2> QED BY <2>1, <2>2, <2>3, <2>4, <2>5, <2>6 DEF Alone
<1>9. NoneLost'
  <2> SUFFICES ASSUME NEW u \in Tasks, Live(u)' PROVE LiesIn(u)'
    BY DEF NoneLost
  <2>1. CASE u = t
    BY <2>1, <1>1, <1>6 DEF LiesIn
  <2>2. CASE u # t
    <3>1. LiesIn(u)
      BY <2>2 DEF NoneLost
    <3>2. CASE \E m \in Lane : \E i \in 1 .. Len(lanes[m]) : lanes[m][i] = u
      BY <3>2, <1>5 DEF LiesIn
    <3>3. CASE \E v \in Workers : \E i \in 1 .. Len(temp[v]) : temp[v][i] = u
      BY <3>3 DEF LiesIn
    <3>4. CASE \E v \in Workers : hold[v] = u
      BY <3>4, <2>2 DEF LiesIn
    <3> QED BY <3>1, <3>2, <3>3, <3>4 DEF LiesIn
  <2> QED BY <2>1, <2>2
<1> QED BY <1>7, <1>8, <1>9

\* A hand is emptied for good.
LEMMA HandEmptied ==
  ASSUME TypeOK, TypeOK', AllLive, Alone, NoneLost, NEW w \in Workers, hold[w] # NoTask,
         hold' = [hold EXCEPT ![w] = NoTask], left' = left \cup {hold[w]}, UNCHANGED <<lanes, temp, sub>>
  PROVE  AllLive' /\ Alone' /\ NoneLost'
<1>0. hold'[w] = NoTask /\ \A v \in Workers : v # w => hold'[v] = hold[v]
  BY DEF TypeOK, WorkerTypes
<1>1. AllLive'
  <2>1. \A m \in Lane : \A i \in 1 .. Len(lanes[m]) : sub'[lanes[m][i]] # "new" /\ lanes[m][i] \notin left'
    BY DEF AllLive, Live, Alone
  <2>2. \A v \in Workers : \A i \in 1 .. Len(temp[v]) : sub'[temp[v][i]] # "new" /\ temp[v][i] \notin left'
    BY DEF AllLive, Live, Alone
  <2>3. \A v \in Workers : hold'[v] # NoTask => sub'[hold'[v]] # "new" /\ hold'[v] \notin left'
    BY <1>0 DEF AllLive, Live, Alone
  <2> QED BY <2>1, <2>2, <2>3 DEF AllLive, Live
<1>2. Alone'
  <2>1. \A m \in Lane, v \in Workers : \A i \in 1 .. Len(lanes[m]) : lanes[m][i] # hold'[v]
    BY <1>0, Entries DEF Alone
  <2>2. \A u, v \in Workers : \A i \in 1 .. Len(temp[v]) : temp[v][i] # hold'[u]
    BY <1>0, Entries DEF Alone
  <2>3. \A u, v \in Workers : hold'[v] # NoTask /\ hold'[v] = hold'[u] => v = u
    BY <1>0 DEF Alone
  <2> QED BY <2>1, <2>2, <2>3 DEF Alone
<1>3. NoneLost'
  <2> SUFFICES ASSUME NEW u \in Tasks, Live(u)' PROVE LiesIn(u)'
    BY DEF NoneLost
  <2>1. u # hold[w] /\ Live(u)
    BY DEF Live
  <2> QED BY <2>1, <1>0 DEF NoneLost, LiesIn
<1> QED BY <1>1, <1>2, <1>3

\* A task goes from the hand to the end of the worker's vector.
LEMMA KeepMoves ==
  ASSUME TypeOK, TypeOK', AllLive, Alone, NoneLost, NEW w \in Workers, hold[w] # NoTask,
         temp' = [temp EXCEPT ![w] = Append(@, hold[w])], hold' = [hold EXCEPT ![w] = NoTask],
         UNCHANGED <<lanes, left, sub>>
  PROVE  AllLive' /\ Alone' /\ NoneLost'
<1> DEFINE t == hold[w]
<1>0. temp \in [Workers -> Seq(Tasks)] /\ temp[w] \in Seq(Tasks) /\ t \in Tasks /\ Live(t)
  BY DEF TypeOK, WorkerTypes, AllLive
<1>h. hold'[w] = NoTask /\ \A v \in Workers : v # w => hold'[v] = hold[v] /\ hold[v] # t
  BY DEF TypeOK, WorkerTypes, Alone
<1>a. /\ \A l \in Lane : \A i \in 1 .. Len(lanes[l]) : lanes[l][i] # t
      /\ \A v \in Workers : \A i \in 1 .. Len(temp[v]) : temp[v][i] # t
      /\ NoTask # t
  BY Entries DEF Alone
<1>1. /\ Len(temp[w]) \in Nat /\ Len(temp'[w]) = Len(temp[w]) + 1
      /\ \A i \in 1 .. Len(temp[w]) : temp'[w][i] = temp[w][i]
      /\ temp'[w][Len(temp[w]) + 1] = t
  BY <1>0, PushFacts
<1>2. \A v \in Workers : v # w => temp'[v] = temp[v]
  BY <1>0
<1> DEFINE new(v, i) == v = w /\ i = Len(temp[w]) + 1
<1>3. \A v \in Workers : \A i \in 1 .. Len(temp'[v]) :
        IF new(v, i) THEN temp'[v][i] = t
        ELSE i \in 1 .. Len(temp[v]) /\ temp'[v][i] = temp[v][i]
  <2> TAKE v \in Workers
  <2> TAKE i \in 1 .. Len(temp'[v])
  <2>1. CASE v = w
    BY <2>1, <1>1
  <2>2. CASE v # w
    BY <2>2, <1>2
  <2> QED BY <2>1, <2>2
<1>4. \A u, v \in Workers : \A i, j : new(u, i) /\ new(v, j) => u = v /\ i = j
  OBVIOUS
<1>5. \A v \in Workers : \A i \in 1 .. Len(temp[v]) : i \in 1 .. Len(temp'[v]) /\ temp'[v][i] = temp[v][i]
  <2> TAKE v \in Workers
  <2>1. CASE v = w
    BY <2>1, <1>1
  <2>2. CASE v # w
    BY <2>2, <1>2
  <2> QED BY <2>1, <2>2
<1>6. Len(temp[w]) + 1 \in 1 .. Len(temp'[w])
  BY <1>1
<1>l. \A u \in Tasks : Live(u)' <=> Live(u)
  BY DEF Live
<1> HIDE DEF new, t
<1>7. AllLive'
  <2>1. \A m \in Lane : \A i \in 1 .. Len(lanes'[m]) : sub'[lanes'[m][i]] # "new" /\ lanes'[m][i] \notin left'
    BY Entries DEF AllLive, Live
  <2>2. \A v \in Workers : \A i \in 1 .. Len(temp'[v]) : sub'[temp'[v][i]] # "new" /\ temp'[v][i] \notin left'
    <3> TAKE v \in Workers
    <3> TAKE i \in 1 .. Len(temp'[v])
    <3>1. CASE new(v, i)
      BY <3>1, <1>3, <1>0 DEF Live
    <3>2. CASE ~ new(v, i)
      BY <3>2, <1>3, Entries DEF AllLive, Live
    <3> QED BY <3>1, <3>2
  <2>3. \A v \in Workers : hold'[v] # NoTask => sub'[hold'[v]] # "new" /\ hold'[v] \notin left'
    BY <1>h DEF AllLive, Live
  <2> QED BY <2>1, <2>2, <2>3 DEF AllLive, Live
<1>8. Alone'
  <2>1. \A u, v \in Workers : \A i \in 1 .. Len(temp'[u]), j \in 1 .. Len(temp'[v]) :
          temp'[u][i] = temp'[v][j] => u = v /\ i = j
    <3> SUFFICES ASSUME NEW u \in Workers, NEW v \in Workers, NEW i \in 1 .. Len(temp'[u]),
                        NEW j \in 1 .. Len(temp'[v]), temp'[u][i] = temp'[v][j]
                 PROVE  u = v /\ i = j
      OBVIOUS
    <3>1. CASE new(u, i) /\ new(v, j)
      BY <3>1, <1>4
    <3>2. CASE ~ new(u, i) /\ ~ new(v, j)
      BY <3>2, <1>3 DEF Alone
    <3>3. CASE new(u, i) /\ ~ new(v, j)
      BY <3>3, <1>3, <1>a
    <3>4. CASE ~ new(u, i) /\ new(v, j)
      BY <3>4, <1>3, <1>a
    <3> QED BY <3>1, <3>2, <3>3, <3>4
  <2>2. \A u, v \in Workers : hold'[v] # NoTask /\ hold'[v] = hold'[u] => v = u
    BY <1>h DEF Alone
  <2>3. \A m \in Lane, v \in Workers : \A i \in 1 .. Len(lanes'[m]), j \in 1 .. Len(temp'[v]) :
          lanes'[m][i] # temp'[v][j]
    <3> SUFFICES ASSUME NEW m \in Lane, NEW v \in Workers, NEW i \in 1 .. Len(lanes[m]),
                        NEW j \in 1 .. Len(temp'[v])
                 PROVE  lanes[m][i] # temp'[v][j]
      OBVIOUS
    <3>1. CASE new(v, j)
      BY <3>1, <1>3, <1>a
    <3>2. CASE ~ new(v, j)
      BY <3>2, <1>3 DEF Alone
    <3> QED BY <3>1, <3>2
  <2>4. \A m \in Lane, v \in Workers : \A i \in 1 .. Len(lanes'[m]) : lanes'[m][i] # hold'[v]
    BY <1>h, Entries DEF Alone
  <2>5. \A u, v \in Workers : \A i \in 1 .. Len(temp'[v]) : temp'[v][i] # hold'[u]
    <3> SUFFICES ASSUME NEW u \in Workers, NEW v \in Workers, NEW i \in 1 .. Len(temp'[v])
                 PROVE  temp'[v][i] # hold'[u]
      OBVIOUS
    <3>1. CASE new(v, i)
      BY <3>1, <1>3, <1>h, <1>a
    <3>2. CASE ~ new(v, i)
      BY <3>2, <1>3, <1>h, Entries DEF Alone
    <3> QED BY <3>1, <3>2
  <2>6. \A l, m \in Lane : \A i \in 1 .. Len(lanes'[l]), j \in 1 .. Len(lanes'[m]) :
          lanes'[l][i] = lanes'[m][j] => l = m /\ i = j
    BY DEF Alone
  <2> QED BY <2>1, <2>2, <2>3, <2>4, <2>5, <2>6 DEF Alone
<1>9. NoneLost'
  <2> SUFFICES ASSUME NEW u \in Tasks, Live(u)' PROVE LiesIn(u)'
    BY DEF NoneLost
  <2>1. CASE u = t
    BY <2>1, <1>1, <1>6 DEF LiesIn
  <2>2. CASE u # t
    <3>1. LiesIn(u)
      BY <1>l DEF NoneLost
    <3>2. CASE \E m \in Lane : \E i \in 1 .. Len(lanes[m]) : lanes[m][i] = u
      BY <3>2 DEF LiesIn
    <3>3. CASE \E v \in Workers : \E i \in 1 .. Len(temp[v]) : temp[v][i] = u
      BY <3>3, <1>5 DEF LiesIn
    <3>4. CASE \E v \in Workers : hold[v] = u
      BY <3>4, <2>2, <1>h DEF LiesIn, t
    <3> QED BY <3>1, <3>2, <3>3, <3>4 DEF LiesIn
  <2> QED BY <2>1, <2>2
<1> QED BY <1>7, <1>8, <1>9

\* The head of a vector goes back to the end of a lane.
LEMMA RestoreMoves ==
  ASSUME TypeOK, TypeOK', AllLive, Alone, NoneLost, NEW w \in Workers, temp[w] # <<>>,
         lanes' = [lanes EXCEPT ![at[w]] = Append(@, Head(temp[w]))], temp' = [temp EXCEPT ![w] = Tail(@)],
         UNCHANGED <<hold, left, sub>>
  PROVE  AllLive' /\ Alone' /\ NoneLost'
<1> DEFINE k == at[w]
           t == temp[w][1]
<1>0. k \in Lane /\ lanes \in [Lane -> Seq(Tasks)] /\ lanes[k] \in Seq(Tasks)
      /\ temp \in [Workers -> Seq(Tasks)] /\ temp[w] \in Seq(Tasks)
  BY DEF TypeOK, LaneTypes, WorkerTypes
<1>t. /\ Head(temp[w]) = t /\ t \in Tasks
      /\ Len(temp[w]) \in Nat /\ Len(temp[w]) >= 1
      /\ Len(temp'[w]) = Len(temp[w]) - 1
      /\ \A i \in 1 .. Len(temp'[w]) : temp'[w][i] = temp[w][i + 1]
  BY <1>0, PopFacts
<1>u. \A v \in Workers : v # w => temp'[v] = temp[v]
  BY <1>0
<1>1. /\ Len(lanes[k]) \in Nat /\ Len(lanes'[k]) = Len(lanes[k]) + 1
      /\ \A i \in 1 .. Len(lanes[k]) : lanes'[k][i] = lanes[k][i]
      /\ lanes'[k][Len(lanes[k]) + 1] = t
  BY <1>0, <1>t, PushFacts
<1>2. \A m \in Lane : m # k => lanes'[m] = lanes[m]
  BY <1>0
<1>i. 1 \in 1 .. Len(temp[w])
  BY <1>t
<1>a. /\ \A l \in Lane : \A i \in 1 .. Len(lanes[l]) : lanes[l][i] # t
      /\ \A v \in Workers : hold[v] # t
      /\ Live(t)
  BY <1>i DEF Alone, AllLive
<1>l. \A u \in Tasks : Live(u)' <=> Live(u)
  BY DEF Live
<1> DEFINE new(m, i) == m = k /\ i = Len(lanes[k]) + 1
           old(v, i) == IF v = w THEN i + 1 ELSE i
<1>3. \A m \in Lane : \A i \in 1 .. Len(lanes'[m]) :
        IF new(m, i) THEN lanes'[m][i] = t
        ELSE i \in 1 .. Len(lanes[m]) /\ lanes'[m][i] = lanes[m][i]
  <2> TAKE m \in Lane
  <2> TAKE i \in 1 .. Len(lanes'[m])
  <2>1. CASE m = k
    BY <2>1, <1>1
  <2>2. CASE m # k
    BY <2>2, <1>2
  <2> QED BY <2>1, <2>2
<1>4. \A m, n \in Lane : \A i, j : new(m, i) /\ new(n, j) => m = n /\ i = j
  OBVIOUS
<1>5. \A m \in Lane : \A i \in 1 .. Len(lanes[m]) : i \in 1 .. Len(lanes'[m]) /\ lanes'[m][i] = lanes[m][i]
  <2> TAKE m \in Lane
  <2>1. CASE m = k
    BY <2>1, <1>1
  <2>2. CASE m # k
    BY <2>2, <1>2
  <2> QED BY <2>1, <2>2
<1>6. Len(lanes[k]) + 1 \in 1 .. Len(lanes'[k])
  BY <1>1
<1>o. \A v \in Workers : \A i \in 1 .. Len(temp'[v]) :
        /\ old(v, i) \in 1 .. Len(temp[v]) /\ temp'[v][i] = temp[v][old(v, i)]
        /\ v = w => old(v, i) # 1
        /\ \A j \in 1 .. Len(temp'[v]) : old(v, i) = old(v, j) => i = j
  <2> TAKE v \in Workers
  <2> TAKE i \in 1 .. Len(temp'[v])
  <2>1. CASE v = w
    BY <2>1, <1>t
  <2>2. CASE v # w
    BY <2>2, <1>u, <1>0, Entries
  <2> QED BY <2>1, <2>2
<1> HIDE DEF new, old
<1>n. \A v \in Workers : \A i \in 1 .. Len(temp'[v]) : temp'[v][i] # t
  <2> TAKE v \in Workers
  <2> TAKE i \in 1 .. Len(temp'[v])
  <2>1. temp[v][old(v, i)] = temp[w][1] => v = w /\ old(v, i) = 1
    BY <1>o, <1>i DEF Alone
  <2> QED BY <2>1, <1>o
<1> HIDE DEF t, k
<1>7. AllLive'
  <2>1. \A m \in Lane : \A i \in 1 .. Len(lanes'[m]) : sub'[lanes'[m][i]] # "new" /\ lanes'[m][i] \notin left'
    <3> TAKE m \in Lane
    <3> TAKE i \in 1 .. Len(lanes'[m])
    <3>1. CASE new(m, i)
      BY <3>1, <1>3, <1>a DEF Live
    <3>2. CASE ~ new(m, i)
      BY <3>2, <1>3 DEF AllLive, Live
    <3> QED BY <3>1, <3>2
  <2>2. \A v \in Workers : \A i \in 1 .. Len(temp'[v]) : sub'[temp'[v][i]] # "new" /\ temp'[v][i] \notin left'
    BY <1>o DEF AllLive, Live
  <2>3. \A v \in Workers : hold'[v] # NoTask => sub'[hold'[v]] # "new" /\ hold'[v] \notin left'
    BY DEF AllLive, Live
  <2> QED BY <2>1, <2>2, <2>3 DEF AllLive, Live
<1>8. Alone'
  <2>1. \A m, n \in Lane : \A i \in 1 .. Len(lanes'[m]), j \in 1 .. Len(lanes'[n]) :
          lanes'[m][i] = lanes'[n][j] => m = n /\ i = j
    <3> SUFFICES ASSUME NEW m \in Lane, NEW n \in Lane, NEW i \in 1 .. Len(lanes'[m]),
                        NEW j \in 1 .. Len(lanes'[n]), lanes'[m][i] = lanes'[n][j]
                 PROVE  m = n /\ i = j
      OBVIOUS
    <3>1. CASE new(m, i) /\ new(n, j)
      BY <3>1, <1>4
    <3>2. CASE ~ new(m, i) /\ ~ new(n, j)
      <4>1. /\ i \in 1 .. Len(lanes[m]) /\ lanes'[m][i] = lanes[m][i]
            /\ j \in 1 .. Len(lanes[n]) /\ lanes'[n][j] = lanes[n][j]
        BY <3>2, <1>3
      <4> QED BY <4>1 DEF Alone
    <3>3. CASE new(m, i) /\ ~ new(n, j)
      BY <3>3, <1>3, <1>a
    <3>4. CASE ~ new(m, i) /\ new(n, j)
      BY <3>4, <1>3, <1>a
    <3> QED BY <3>1, <3>2, <3>3, <3>4
  <2>2. \A u, v \in Workers : hold'[v] # NoTask /\ hold'[v] = hold'[u] => v = u
    BY DEF Alone
  <2>3. \A m \in Lane, v \in Workers : \A i \in 1 .. Len(lanes'[m]), j \in 1 .. Len(temp'[v]) :
          lanes'[m][i] # temp'[v][j]
    <3> SUFFICES ASSUME NEW m \in Lane, NEW v \in Workers, NEW i \in 1 .. Len(lanes'[m]),
                        NEW j \in 1 .. Len(temp'[v])
                 PROVE  lanes'[m][i] # temp'[v][j]
      OBVIOUS
    <3>1. CASE new(m, i)
      BY <3>1, <1>3, <1>n
    <3>2. CASE ~ new(m, i)
      BY <3>2, <1>3, <1>o DEF Alone
    <3> QED BY <3>1, <3>2
  <2>4. \A m \in Lane, v \in Workers : \A i \in 1 .. Len(lanes'[m]) : lanes'[m][i] # hold'[v]
    <3> SUFFICES ASSUME NEW m \in Lane, NEW v \in Workers, NEW i \in 1 .. Len(lanes'[m])
                 PROVE  lanes'[m][i] # hold[v]
      OBVIOUS
    <3>1. CASE new(m, i)
      BY <3>1, <1>3, <1>a
    <3>2. CASE ~ new(m, i)
      BY <3>2, <1>3 DEF Alone
    <3> QED BY <3>1, <3>2
  <2>5. \A u, v \in Workers : \A i \in 1 .. Len(temp'[v]) : temp'[v][i] # hold'[u]
    BY <1>o DEF Alone
  <2>6. \A v, u \in Workers : \A i \in 1 .. Len(temp'[v]), j \in 1 .. Len(temp'[u]) :
          temp'[v][i] = temp'[u][j] => v = u /\ i = j
    <3> SUFFICES ASSUME NEW u \in Workers, NEW v \in Workers, NEW i \in 1 .. Len(temp'[v]),
                        NEW j \in 1 .. Len(temp'[u]), temp'[v][i] = temp'[u][j]
                 PROVE  v = u /\ i = j
      OBVIOUS
    <3>0. /\ temp'[v][i] = temp[v][old(v, i)] /\ old(v, i) \in 1 .. Len(temp[v])
          /\ temp'[u][j] = temp[u][old(u, j)] /\ old(u, j) \in 1 .. Len(temp[u])
      BY <1>o
    <3>1. v = u /\ old(v, i) = old(u, j)
      BY <3>0 DEF Alone
    <3>2. \A m \in 1 .. Len(temp'[v]) : old(v, i) = old(v, m) => i = m
      BY <1>o
    <3>3. j \in 1 .. Len(temp'[v]) /\ old(v, i) = old(v, j)
      BY <3>1
    <3> HIDE DEF old
    <3> QED BY <3>1, <3>2, <3>3
  <2> QED BY <2>1, <2>2, <2>3, <2>4, <2>5, <2>6, SMTT(30) DEF Alone
<1>9. NoneLost'
  <2> SUFFICES ASSUME NEW u \in Tasks, Live(u)' PROVE LiesIn(u)'
    BY DEF NoneLost
  <2>0. LiesIn(u)
    BY <1>l DEF NoneLost
  <2>1. CASE u = t
    BY <2>1, <1>0, <1>1, <1>6 DEF LiesIn, k
  <2>2. CASE \E m \in Lane : \E i \in 1 .. Len(lanes[m]) : lanes[m][i] = u
    BY <2>2, <1>5 DEF LiesIn
  <2>3. CASE u # t /\ \E v \in Workers : \E i \in 1 .. Len(temp[v]) : temp[v][i] = u
    <3>0. PICK v \in Workers : \E i \in 1 .. Len(temp[v]) : temp[v][i] = u
      BY <2>3
    <3>1. PICK i \in 1 .. Len(temp[v]) : temp[v][i] = u
      BY <3>0
    <3>2. CASE v # w
      BY <3>1, <3>2, <1>u DEF LiesIn
    <3>3. CASE v = w
      <4>1. i # 1
        BY <3>1, <3>3, <2>3 DEF t
      <4>2. i - 1 \in 1 .. Len(temp'[w]) /\ temp'[w][i - 1] = temp[w][i]
        BY <3>1, <3>3, <4>1, <1>t
      <4> QED BY <3>1, <3>3, <4>2 DEF LiesIn
    <3> QED BY <3>2, <3>3
  <2>4. CASE \E v \in Workers : hold[v] = u
    BY <2>4 DEF LiesIn
  <2> QED BY <2>0, <2>1, <2>2, <2>3, <2>4 DEF LiesIn
<1> QED BY <1>7, <1>8, <1>9

LEMMA LastTaken ==
  ASSUME NEW s \in Seq(Tasks), Len(s) = 1
  PROVE  Tail(s) = <<>>
<1>1. s # <<>>
  BY EmptySeq
<1>2. Tail(s) \in Seq(Tasks) /\ Len(Tail(s)) = 0
  BY <1>1, HeadTailProperties
<1> QED BY <1>2, EmptySeq

\* Each action leaves hands and vectors as the step that follows expects them.
LEMMA CarryingStep == TypeOK /\ WorkersFit /\ Carrying /\ [Next]_vars => Carrying'
<1> SUFFICES ASSUME TypeOK, WorkersFit, Carrying, [Next]_vars PROVE Carrying'
  OBVIOUS
<1> USE SchedulerAssumption DEF TypeOK, WorkerTypes, WorkersFit, WorkerFits, Carrying, Step, shared, local
<1>1. ASSUME NEW t \in Tasks, NEW p \in Priorities, SubmitPush(t, p) PROVE Carrying'
  BY <1>1 DEF SubmitPush
<1>1a. ASSUME NEW t \in Tasks, SubmitGauge(t) PROVE Carrying'
  BY <1>1a DEF SubmitGauge
<1>2. ASSUME NEW t \in Tasks, SubmitCount(t) PROVE Carrying'
  BY <1>2 DEF SubmitCount
<1>3. ASSUME NEW t \in Tasks, SubmitNotify(t) PROVE Carrying'
  BY <1>3 DEF SubmitNotify, NotifyOne
<1>4. ASSUME NEW t \in Tasks, Cancel(t) PROVE Carrying'
  BY <1>4 DEF Cancel
<1>5. ASSUME NEW w \in Workers, StartPromotion(w) PROVE Carrying'
  BY <1>5 DEF StartPromotion
<1>6. ASSUME NEW w \in Workers, DrainPop(w) PROVE Carrying'
  <2>1. Head(lanes[at[w]]) \in Tasks
    BY <1>6, QueueFacts DEF DrainPop, PopLane, LaneTypes
  <2> QED BY <1>6, <2>1 DEF DrainPop, PopLane
<1>7. ASSUME NEW w \in Workers, PromoteTask(w) PROVE Carrying'
  BY <1>7 DEF PromoteTask
<1>7a. ASSUME NEW w \in Workers, PromoteUncount(w) PROVE Carrying'
  BY <1>7a DEF PromoteUncount
<1>8. ASSUME NEW w \in Workers, PromoteCount(w) PROVE Carrying'
  BY <1>8 DEF PromoteCount
<1>9. ASSUME NEW w \in Workers, KeepTask(w) PROVE Carrying'
  BY <1>9 DEF KeepTask
<1>10. ASSUME NEW w \in Workers, DrainEmpty(w) PROVE Carrying'
  BY <1>10 DEF DrainEmpty, LeaveLane
<1>11. ASSUME NEW w \in Workers, RestoreTask(w) PROVE Carrying'
  <2>1. CASE Len(temp[w]) = 1 /\ LeaveLane(w)
    <3>1. temp'[w] = <<>>
      BY <1>11, <2>1, LastTaken DEF RestoreTask
    <3> QED BY <1>11, <2>1, <3>1 DEF RestoreTask, LeaveLane
  <2>2. CASE UNCHANGED <<pc, at, snap>>
    BY <1>11, <2>2 DEF RestoreTask
  <2> QED BY <1>11, <2>1, <2>2 DEF RestoreTask
<1>12. ASSUME NEW w \in Workers, QuotaLeft(w) PROVE Carrying'
  BY <1>12 DEF QuotaLeft
<1>13. ASSUME NEW w \in Workers, QuotaUsed(w) PROVE Carrying'
  BY <1>13 DEF QuotaUsed, NextLane
<1>14. ASSUME NEW w \in Workers, ScanEmpty(w) PROVE Carrying'
  BY <1>14 DEF ScanEmpty, NextLane
<1>15. ASSUME NEW w \in Workers, ScanPop(w) PROVE Carrying'
  <2>1. Head(lanes[at[w]]) \in Tasks
    BY <1>15, QueueFacts DEF ScanPop, PopLane, LaneTypes
  <2> QED BY <1>15, <2>1 DEF ScanPop, PopLane
<1>15a. ASSUME NEW w \in Workers, ScanUncount(w) PROVE Carrying'
  BY <1>15a DEF ScanUncount
<1>16. ASSUME NEW w \in Workers, DropCancelled(w) PROVE Carrying'
  BY <1>16 DEF DropCancelled
<1>16a. ASSUME NEW w \in Workers, DropUncount(w) PROVE Carrying'
  BY <1>16a DEF DropUncount
<1>17. ASSUME NEW w \in Workers, TakeTask(w) PROVE Carrying'
  BY <1>17 DEF TakeTask
<1>17a. ASSUME NEW w \in Workers, ChargeLane(w) PROVE Carrying'
  BY <1>17a DEF ChargeLane
<1>18. ASSUME NEW w \in Workers, ResetLane(w) PROVE Carrying'
  BY <1>18 DEF ResetLane
<1>19. ASSUME NEW w \in Workers, Park(w) PROVE Carrying'
  BY <1>19 DEF Park
<1>20. ASSUME NEW w \in Workers, FinishTask(w) PROVE Carrying'
  BY <1>20 DEF FinishTask
<1>20a. ASSUME NEW w \in Workers, FinishUncount(w) PROVE Carrying'
  BY <1>20a DEF FinishUncount
<1>21. CASE Tick
  BY <1>21 DEF Tick
<1>22. CASE UNCHANGED vars
  BY <1>22 DEF vars
<1> QED
  BY <1>1, <1>1a, <1>2, <1>3, <1>4, <1>5, <1>6, <1>7, <1>7a, <1>8, <1>9, <1>10, <1>11,
     <1>12, <1>13, <1>14, <1>15, <1>15a, <1>16, <1>16a, <1>17, <1>17a, <1>18, <1>19, <1>20,
     <1>20a, <1>21, <1>22
     DEF Next, SubmitRest, Worker, Promotion, Scan

\* A worker changes neither the clock nor what a submission wrote.
LEMMA WorkerKeeps ==
  ASSUME NEW w \in Workers, Worker(w)
  PROVE  UNCHANGED <<base, token, created, now, sub>>
<1>1. CASE Promotion(w)
  BY <1>1 DEF Promotion, StartPromotion, DrainPop, PromoteTask, PromoteUncount, PromoteCount, KeepTask,
     DrainEmpty, RestoreTask, shared
<1>2. CASE Scan(w)
  BY <1>2 DEF Scan, QuotaLeft, QuotaUsed, ScanEmpty, NextLane, ScanPop, ScanUncount, DropCancelled,
     DropUncount, TakeTask, ChargeLane, ResetLane, shared
<1>3. CASE Park(w) \/ FinishTask(w) \/ FinishUncount(w)
  BY <1>3 DEF Park, FinishTask, FinishUncount
<1> QED BY <1>1, <1>2, <1>3 DEF Worker

\* The clock ticks and a task is created at the time of the clock.
LEMMA TimeMoves ==
  ASSUME [Next]_vars
  PROVE  /\ now' = now \/ now' = now + 1
         /\ created' = created \/ \E t \in Tasks : created' = [created EXCEPT ![t] = now]
<1>1. ASSUME NEW t \in Tasks, NEW p \in Priorities, SubmitPush(t, p)
      PROVE  now' = now /\ created' = [created EXCEPT ![t] = now]
  BY <1>1 DEF SubmitPush
<1>2. ASSUME NEW t \in Tasks, SubmitRest(t) \/ Cancel(t) PROVE UNCHANGED <<now, created>>
  BY <1>2 DEF SubmitRest, SubmitGauge, SubmitCount, SubmitNotify, Cancel
<1>3. ASSUME NEW w \in Workers, Worker(w) PROVE UNCHANGED <<now, created>>
  BY <1>3, WorkerKeeps
<1>4. Tick \/ UNCHANGED vars => (now' = now \/ now' = now + 1) /\ created' = created
  BY DEF Tick, vars, shared
<1> QED BY <1>1, <1>2, <1>3, <1>4 DEF Next

\* What becomes of the progress of submissions.
LEMMA SubMoves ==
  ASSUME [Next]_vars
  PROVE  \/ sub' = sub
         \/ \E t \in Tasks, s \in {"pushed", "gauged", "counted", "done"} : sub' = [sub EXCEPT ![t] = s]
<1>1. ASSUME NEW t \in Tasks, (\E p \in Priorities : SubmitPush(t, p)) \/ SubmitRest(t)
      PROVE  \E s \in {"pushed", "gauged", "counted", "done"} : sub' = [sub EXCEPT ![t] = s]
  BY <1>1 DEF SubmitPush, SubmitRest, SubmitGauge, SubmitCount, SubmitNotify
<1>2. ASSUME NEW t \in Tasks, Cancel(t) PROVE sub' = sub
  BY <1>2 DEF Cancel
<1>3. ASSUME NEW w \in Workers, Worker(w) PROVE sub' = sub
  BY <1>3, WorkerKeeps
<1>4. Tick \/ UNCHANGED vars => sub' = sub
  BY DEF Tick, vars, shared
<1> QED BY <1>1, <1>2, <1>3, <1>4 DEF Next

\* A task leaves from a hand, and what lies in a hand was submitted.
LEMMA LeftCameStep == TypeOK /\ Carrying /\ AllLive /\ LeftCame /\ [Next]_vars => LeftCame'
<1> SUFFICES ASSUME TypeOK, Carrying, AllLive, LeftCame, [Next]_vars PROVE LeftCame'
  OBVIOUS
<1>1. \A t \in Tasks : sub[t] # "new" => sub'[t] # "new"
  BY SubMoves DEF TypeOK, TaskTypes
<1>2. left' = left \/ \E w \in Workers : hold[w] # NoTask /\ left' = left \cup {hold[w]}
  <2>1. ASSUME NEW t \in Tasks, (\E p \in Priorities : SubmitPush(t, p)) \/ SubmitRest(t) \/ Cancel(t)
        PROVE  left' = left
    BY <2>1 DEF SubmitPush, SubmitRest, SubmitGauge, SubmitCount, SubmitNotify, Cancel
  <2>2. ASSUME NEW w \in Workers, DropCancelled(w) \/ FinishTask(w)
        PROVE  hold[w] # NoTask /\ left' = left \cup {hold[w]}
    BY <2>2 DEF DropCancelled, FinishTask, Carrying
  <2>3. ASSUME NEW w \in Workers, Worker(w), ~ DropCancelled(w), ~ FinishTask(w) PROVE left' = left
    <3>1. CASE Promotion(w)
      BY <3>1 DEF Promotion, StartPromotion, DrainPop, PromoteTask, PromoteUncount, PromoteCount, KeepTask,
         DrainEmpty, RestoreTask, shared
    <3>2. CASE Scan(w)
      BY <2>3, <3>2 DEF Scan, QuotaLeft, QuotaUsed, ScanEmpty, NextLane, ScanPop, ScanUncount, DropUncount,
         TakeTask, ChargeLane, ResetLane, shared
    <3>3. CASE Park(w) \/ FinishUncount(w)
      BY <3>3 DEF Park, FinishUncount
    <3> QED BY <2>3, <3>1, <3>2, <3>3 DEF Worker
  <2>4. Tick \/ UNCHANGED vars => left' = left
    BY DEF Tick, vars, shared
  <2> QED BY <2>1, <2>2, <2>3, <2>4 DEF Next
<1>3. \A w \in Workers : hold[w] # NoTask => hold[w] \in Tasks /\ sub[hold[w]] # "new"
  BY DEF AllLive, Live, TypeOK, WorkerTypes
<1> QED BY <1>1, <1>2, <1>3 DEF LeftCame, TypeOK, TaskTypes

\* No action loses a task or leaves it in two places.
LEMMA PlacesStep == TypeOK /\ TypeOK' /\ WorkersFit /\ PlacesInv /\ [Next]_vars => PlacesInv'
<1> SUFFICES ASSUME TypeOK, TypeOK', WorkersFit, Carrying, LeftCame, AllLive, Alone, NoneLost, [Next]_vars
             PROVE  AllLive' /\ Alone' /\ NoneLost'
  BY CarryingStep, LeftCameStep DEF PlacesInv
<1> DEFINE Kept == AllLive' /\ Alone' /\ NoneLost'
<1>a. ASSUME UNCHANGED <<lanes, temp, hold, left, sub>> PROVE Kept
  BY <1>a, NothingMoved
<1>b. \A w \in Workers : /\ pc[w] \in {"aging", "popped", "judge", "charge", "busy"} => hold[w] \in Tasks /\ hold[w] # NoTask
                         /\ pc[w] \notin {"aging", "popped", "judge", "charge", "busy"} => hold[w] = NoTask
                         /\ pc[w] = "restore" => temp[w] # <<>>
  BY SchedulerAssumption DEF WorkersFit, WorkerFits, Carrying, TypeOK, WorkerTypes
<1> USE DEF shared, local
<1>1. ASSUME NEW t \in Tasks, NEW p \in Priorities, SubmitPush(t, p) PROVE Kept
  <2>1. p \in Lane
    BY SchedulerAssumption
  <2>2. ~ Live(t)
    BY <1>1 DEF SubmitPush, Live
  <2>3. /\ \A l \in Lane : \A i \in 1 .. Len(lanes[l]) : lanes[l][i] # t
        /\ \A v \in Workers : \A i \in 1 .. Len(temp[v]) : temp[v][i] # t
    BY <2>2 DEF AllLive
  <2>4. \A v \in Workers : hold'[v] = hold[v] /\ hold'[v] # t
    <3>1. hold' = hold
      BY <1>1 DEF SubmitPush
    <3>2. t # NoTask
      BY SchedulerAssumption
    <3> QED BY <3>1, <3>2, <2>2 DEF AllLive
  <2>5. \A u \in Tasks : Live(u)' <=> (Live(u) \/ u = t)
    BY <1>1 DEF SubmitPush, Live, LeftCame, TypeOK, TaskTypes
  <2>6. lanes' = [lanes EXCEPT ![p] = Append(@, t)] /\ UNCHANGED temp
    BY <1>1 DEF SubmitPush
  <2> QED BY <2>1, <2>3, <2>4, <2>5, <2>6, PushMoves
<1>1a. ASSUME NEW t \in Tasks, SubmitGauge(t) PROVE Kept
  <2>1. \A u \in Tasks : sub'[u] = "new" <=> sub[u] = "new"
    BY <1>1a DEF SubmitGauge, TypeOK, TaskTypes
  <2> QED BY <1>1a, <2>1, NothingMoved DEF SubmitGauge
<1>2. ASSUME NEW t \in Tasks, SubmitCount(t) PROVE Kept
  <2>1. \A u \in Tasks : sub'[u] = "new" <=> sub[u] = "new"
    BY <1>2 DEF SubmitCount, TypeOK, TaskTypes
  <2> QED BY <1>2, <2>1, NothingMoved DEF SubmitCount
<1>3. ASSUME NEW t \in Tasks, SubmitNotify(t) PROVE Kept
  <2>1. \A u \in Tasks : sub'[u] = "new" <=> sub[u] = "new"
    BY <1>3 DEF SubmitNotify, TypeOK, TaskTypes
  <2> QED BY <1>3, <2>1, NothingMoved DEF SubmitNotify
<1>4. ASSUME NEW t \in Tasks, Cancel(t) PROVE Kept
  BY <1>4, <1>a DEF Cancel
<1>5. ASSUME NEW w \in Workers, StartPromotion(w) PROVE Kept
  BY <1>5, <1>a DEF StartPromotion
<1>6. ASSUME NEW w \in Workers, DrainPop(w) PROVE Kept
  BY <1>6, <1>b, PopMoves DEF DrainPop
<1>7. ASSUME NEW w \in Workers, PromoteTask(w) PROVE Kept
  <2> DEFINE t == hold[w]
             k == Promote(prio[t])
  <2>1. t \in Tasks /\ Live(t) /\ k \in Lane /\ t # NoTask
    BY <1>7, <1>b, LaneFacts DEF PromoteTask, AllLive, TypeOK, TaskTypes
  <2>2. lanes' = [lanes EXCEPT ![k] = Append(@, t)] /\ UNCHANGED temp
    BY <1>7 DEF PromoteTask
  <2>3. /\ \A l \in Lane : \A i \in 1 .. Len(lanes[l]) : lanes[l][i] # t
        /\ \A v \in Workers : \A i \in 1 .. Len(temp[v]) : temp[v][i] # t
    BY DEF Alone
  <2>4. \A v \in Workers : IF v = w THEN hold'[v] = NoTask ELSE hold'[v] = hold[v] /\ hold[v] # t
    BY <1>7, <2>1 DEF PromoteTask, Alone, TypeOK, WorkerTypes
  <2>5. /\ \A v \in Workers : hold'[v] # t /\ (hold'[v] = hold[v] \/ hold'[v] = NoTask)
        /\ \A v \in Workers : hold'[v] # hold[v] => hold[v] = t
    BY <2>1, <2>4
  <2>6. \A u \in Tasks : Live(u)' <=> (Live(u) \/ u = t)
    BY <1>7, <2>1 DEF PromoteTask, Live
  <2> HIDE DEF t, k
  <2> QED BY <2>1, <2>2, <2>3, <2>5, <2>6, PushMoves
<1>7a. ASSUME NEW w \in Workers, PromoteUncount(w) PROVE Kept
  BY <1>7a, <1>a DEF PromoteUncount
<1>8. ASSUME NEW w \in Workers, PromoteCount(w) PROVE Kept
  BY <1>8, <1>a DEF PromoteCount
<1>9. ASSUME NEW w \in Workers, KeepTask(w) PROVE Kept
  BY <1>9, <1>b, KeepMoves DEF KeepTask
<1>10. ASSUME NEW w \in Workers, DrainEmpty(w) PROVE Kept
  BY <1>10, <1>a DEF DrainEmpty
<1>11. ASSUME NEW w \in Workers, RestoreTask(w) PROVE Kept
  BY <1>11, <1>b, RestoreMoves DEF RestoreTask
<1>12. ASSUME NEW w \in Workers, QuotaLeft(w) PROVE Kept
  BY <1>12, <1>a DEF QuotaLeft
<1>13. ASSUME NEW w \in Workers, QuotaUsed(w) PROVE Kept
  BY <1>13, <1>a DEF QuotaUsed, NextLane
<1>14. ASSUME NEW w \in Workers, ScanEmpty(w) PROVE Kept
  BY <1>14, <1>a DEF ScanEmpty, NextLane
<1>15. ASSUME NEW w \in Workers, ScanPop(w) PROVE Kept
  BY <1>15, <1>b, PopMoves DEF ScanPop
<1>15a. ASSUME NEW w \in Workers, ScanUncount(w) PROVE Kept
  BY <1>15a, <1>a DEF ScanUncount
<1>16. ASSUME NEW w \in Workers, DropCancelled(w) PROVE Kept
  BY <1>16, <1>b, HandEmptied DEF DropCancelled
<1>16a. ASSUME NEW w \in Workers, DropUncount(w) PROVE Kept
  BY <1>16a, <1>a DEF DropUncount
<1>17. ASSUME NEW w \in Workers, TakeTask(w) PROVE Kept
  BY <1>17, <1>a DEF TakeTask
<1>17a. ASSUME NEW w \in Workers, ChargeLane(w) PROVE Kept
  BY <1>17a, <1>a DEF ChargeLane
<1>18. ASSUME NEW w \in Workers, ResetLane(w) PROVE Kept
  BY <1>18, <1>a DEF ResetLane
<1>19. ASSUME NEW w \in Workers, Park(w) PROVE Kept
  BY <1>19, <1>a DEF Park
<1>20. ASSUME NEW w \in Workers, FinishTask(w) PROVE Kept
  BY <1>20, <1>b, HandEmptied DEF FinishTask
<1>20a. ASSUME NEW w \in Workers, FinishUncount(w) PROVE Kept
  BY <1>20a, <1>a DEF FinishUncount
<1>21. CASE Tick
  BY <1>21, <1>a DEF Tick
<1>22. CASE UNCHANGED vars
  BY <1>22, <1>a DEF vars
<1> QED
  BY <1>1, <1>1a, <1>2, <1>3, <1>4, <1>5, <1>6, <1>7, <1>7a, <1>8, <1>9, <1>10, <1>11,
     <1>12, <1>13, <1>14, <1>15, <1>15a, <1>16, <1>16a, <1>17, <1>17a, <1>18, <1>19, <1>20,
     <1>20a, <1>21, <1>22
     DEF Next, SubmitRest, Worker, Promotion, Scan

\* The invariant read as a count of positions.
LEMMA PlacesCounted == TypeOK /\ PlacesInv => TaskInOnePlace
<1> SUFFICES ASSUME TypeOK, AllLive, Alone, NoneLost, NEW t \in Tasks
             PROVE  Cardinality(Places(t)) = IF sub[t] = "new" \/ t \in left THEN 0 ELSE 1
  BY DEF TaskInOnePlace, PlacesInv
<1>0. /\ \A l \in Lane : DOMAIN lanes[l] = 1 .. Len(lanes[l])
      /\ \A w \in Workers : DOMAIN temp[w] = 1 .. Len(temp[w])
  BY LenProperties DEF TypeOK, LaneTypes, WorkerTypes
<1> DEFINE P == Places(t)
           InLane(p, l, i) == l \in Lane /\ i \in 1 .. Len(lanes[l]) /\ lanes[l][i] = t /\ p = <<l, i>>
           Aside(p, w, i) == w \in Workers /\ i \in 1 .. Len(temp[w]) /\ temp[w][i] = t /\ p = <<w, i>>
           InHand(p, w) == w \in Workers /\ hold[w] = t /\ p = <<w, 0>>
<1>1. \A p : p \in P <=> \/ \E l, i : InLane(p, l, i)
                         \/ \E w, i : Aside(p, w, i)
                         \/ \E w : InHand(p, w)
  <2>1. \A p : p \in UNION { {<<l, i>> : i \in {j \in DOMAIN lanes[l] : lanes[l][j] = t}} : l \in Lane }
               <=> \E l, i : InLane(p, l, i)
    BY <1>0
  <2>2. \A p : p \in UNION { {<<w, i>> : i \in {j \in DOMAIN temp[w] : temp[w][j] = t}} : w \in Workers }
               <=> \E w, i : Aside(p, w, i)
    BY <1>0
  <2>3. \A p : p \in {<<w, 0>> : w \in {v \in Workers : hold[v] = t}} <=> \E w : InHand(p, w)
    OBVIOUS
  <2> HIDE DEF InLane, Aside, InHand
  <2> QED BY <2>1, <2>2, <2>3 DEF Places
<1>2. t # NoTask
  BY SchedulerAssumption
<1> HIDE DEF P
<1>3. CASE ~ Live(t)
  <2>1. P = {}
    BY <1>1, <1>2, <1>3 DEF AllLive
  <2>2. Cardinality(P) = 0
    BY <2>1, FS_EmptySet
  <2> QED BY <2>2, <1>3 DEF Live, P
<1>4. CASE Live(t)
  <2>1. LiesIn(t)
    BY <1>4 DEF NoneLost
  <2>2. \E p : p \in P
    <3>1. CASE \E l \in Lane : \E i \in 1 .. Len(lanes[l]) : lanes[l][i] = t
      <4>1. \E l, i : InLane(<<l, i>>, l, i)
        BY <3>1
      <4> QED BY <4>1, <1>1
    <3>2. CASE \E w \in Workers : \E i \in 1 .. Len(temp[w]) : temp[w][i] = t
      <4>1. \E w, i : Aside(<<w, i>>, w, i)
        BY <3>2
      <4> QED BY <4>1, <1>1
    <3>3. CASE \E w \in Workers : hold[w] = t
      <4>1. \E w : InHand(<<w, 0>>, w)
        BY <3>3
      <4> QED BY <4>1, <1>1
    <3> QED BY <2>1, <3>1, <3>2, <3>3 DEF LiesIn
  <2>3. \A p, q : p \in P /\ q \in P => p = q
    <3> SUFFICES ASSUME NEW p, NEW q, p \in P, q \in P PROVE p = q
      OBVIOUS
    <3>1. CASE (\E l, i : InLane(p, l, i)) /\ (\E l, i : InLane(q, l, i))
      BY <3>1 DEF Alone
    <3>2. CASE (\E w, i : Aside(p, w, i)) /\ (\E w, i : Aside(q, w, i))
      BY <3>2 DEF Alone
    <3>3. CASE (\E w : InHand(p, w)) /\ (\E w : InHand(q, w))
      BY <3>3, <1>2 DEF Alone
    <3>4. ~ ((\E l, i : InLane(p, l, i) \/ InLane(q, l, i)) /\ (\E w, i : Aside(p, w, i) \/ Aside(q, w, i)))
      BY DEF Alone
    <3>5. ~ ((\E l, i : InLane(p, l, i) \/ InLane(q, l, i)) /\ (\E w : InHand(p, w) \/ InHand(q, w)))
      BY DEF Alone
    <3>6. ~ ((\E w, i : Aside(p, w, i) \/ Aside(q, w, i)) /\ (\E w : InHand(p, w) \/ InHand(q, w)))
      BY DEF Alone
    <3> HIDE DEF InLane, Aside, InHand
    <3> QED BY <3>1, <3>2, <3>3, <3>4, <3>5, <3>6, <1>1
  <2>4. PICK p : p \in P
    BY <2>2
  <2>5. P = {p}
    BY <2>3, <2>4
  <2>6. Cardinality(P) = 1
    BY <2>5, FS_Singleton
  <2> QED BY <2>6, <1>4 DEF Live, P
<1> QED BY <1>3, <1>4

-----------------------------------------------------------------------------
(* The scheduler implements the pool.                                      *)

\* A step that submits nothing, ends nothing and gives nothing to a worker.
LEMMA PoolStutters ==
  ASSUME UNCHANGED <<left, token>>, \A t \in Tasks : sub'[t] = "new" <=> sub[t] = "new",
         \A t \in Tasks : Given(t)' <=> Given(t)
  PROVE  UNCHANGED Pool!poolVars
<1>1. PoolPhase' = PoolPhase
  BY DEF PoolPhase
<1> QED BY <1>1 DEF Pool!poolVars

\* The phase of one task changes: it becomes x.
LEMMA PoolMoves ==
  ASSUME NEW t \in Tasks, NEW x, PoolPhase'[t] = x,
         \A u \in Tasks : u # t => PoolPhase'[u] = PoolPhase[u]
  PROVE  PoolPhase' = [PoolPhase EXCEPT ![t] = x]
<1>1. PoolPhase = [u \in Tasks |-> PoolPhase[u]] /\ DOMAIN PoolPhase = Tasks
  BY DEF PoolPhase
<1>2. PoolPhase' = [u \in Tasks |-> PoolPhase'[u]] /\ DOMAIN PoolPhase' = Tasks
  BY DEF PoolPhase
<1> QED BY <1>1, <1>2

LEMMA PoolInit == Init => Pool!Init
BY DEF Init, Pool!Init, PoolPhase

\* Every step of the scheduler is one of the pool, or leaves it alone.
LEMMA PoolStep ==
  TypeOK /\ TypeOK' /\ WorkersFit /\ PlacesInv /\ PlacesInv' /\ [Next]_vars
    => [Pool!Next]_(Pool!poolVars)
<1> SUFFICES ASSUME TypeOK, TypeOK', WorkersFit, Carrying, LeftCame, AllLive, Alone, LeftCame', AllLive', [Next]_vars
             PROVE  [Pool!Next]_(Pool!poolVars)
  BY DEF PlacesInv
<1> DEFINE Stutters == UNCHANGED Pool!poolVars
<1>a. ASSUME NEW w \in Workers, pc[w] \notin {"busy", "judge", "charge"},
             UNCHANGED <<left, token, sub>>, pc'[w] \notin {"busy", "charge"},
             \A v \in Workers : v # w => pc'[v] = pc[v] /\ hold'[v] = hold[v]
      PROVE  Stutters
  BY <1>a, PoolStutters DEF Given
<1>b. \A w \in Workers : pc[w] \in {"aging", "popped", "judge", "charge", "busy"} => /\ hold[w] \in Tasks /\ Live(hold[w])
                                                              /\ \A v \in Workers : hold[v] = hold[w] => v = w
  BY SchedulerAssumption DEF WorkersFit, WorkerFits, AllLive, Alone
<1>c. \A u : PoolPhase[u] = PoolPhase[u]
  OBVIOUS
<1>f. \A u \in Tasks : PoolPhase[u] = IF sub[u] = "new" THEN "new" ELSE IF u \in left THEN "gone"
                                     ELSE IF Given(u) THEN "taken" ELSE "pooled"
  BY DEF PoolPhase
<1>g. \A u \in Tasks : PoolPhase'[u] = IF sub'[u] = "new" THEN "new" ELSE IF u \in left' THEN "gone"
                                      ELSE IF Given(u)' THEN "taken" ELSE "pooled"
  BY DEF PoolPhase
<1> USE DEF shared, local
<1>1. ASSUME NEW t \in Tasks, NEW p \in Priorities, SubmitPush(t, p) PROVE Pool!Next
  <2>1. t \notin left /\ sub[t] = "new" /\ ~ Live(t) /\ t # NoTask
    BY <1>1, SchedulerAssumption DEF SubmitPush, LeftCame, Live
  <2>2. \A u : Given(u)' <=> Given(u)
    BY <1>1 DEF SubmitPush, Given
  <2>3. ~ Given(t)
    BY <2>1 DEF AllLive, Given
  <2>4. sub'[t] = "pushed" /\ left' = left /\ token' = token /\ \A u \in Tasks : u # t => sub'[u] = sub[u]
    BY <1>1 DEF SubmitPush, TypeOK, TaskTypes
  <2>5. PoolPhase[t] = "new" /\ PoolPhase'[t] = "pooled" /\ \A u \in Tasks : u # t => PoolPhase'[u] = PoolPhase[u]
    BY <2>1, <2>2, <2>3, <2>4, <1>f, <1>g
  <2> QED BY <2>4, <2>5, PoolMoves DEF Pool!Next, Pool!Submit
<1>1a. ASSUME NEW t \in Tasks, SubmitGauge(t) PROVE Stutters
  <2>1. \A u \in Tasks : sub'[u] = "new" <=> sub[u] = "new"
    BY <1>1a DEF SubmitGauge, TypeOK, TaskTypes
  <2> QED BY <1>1a, <2>1, PoolStutters DEF SubmitGauge, Given
<1>2. ASSUME NEW t \in Tasks, SubmitCount(t) PROVE Stutters
  <2>1. \A u \in Tasks : sub'[u] = "new" <=> sub[u] = "new"
    BY <1>2 DEF SubmitCount, TypeOK, TaskTypes
  <2> QED BY <1>2, <2>1, PoolStutters DEF SubmitCount, Given
<1>3. ASSUME NEW t \in Tasks, SubmitNotify(t) PROVE Stutters
  <2>1. \A u \in Tasks : sub'[u] = "new" <=> sub[u] = "new"
    BY <1>3 DEF SubmitNotify, TypeOK, TaskTypes
  <2>2. \A w \in Workers : pc'[w] \in {"busy", "charge"} <=> pc[w] \in {"busy", "charge"}
    BY <1>3 DEF SubmitNotify, NotifyOne, TypeOK, WorkerTypes
  <2> QED BY <1>3, <2>1, <2>2, PoolStutters DEF SubmitNotify, Given
<1>4. ASSUME NEW t \in Tasks, Cancel(t) PROVE Pool!Next
  <2>1. PoolPhase' = PoolPhase
    BY <1>4 DEF Cancel, PoolPhase, Given
  <2>2. PoolPhase[t] # "new"
    BY <1>4, <1>f DEF Cancel
  <2> QED BY <1>4, <2>1, <2>2 DEF Cancel, Pool!Next, Pool!Cancel
<1>5. ASSUME NEW w \in Workers, StartPromotion(w) PROVE Stutters
  BY <1>5, <1>a DEF StartPromotion, TypeOK, WorkerTypes
<1>6. ASSUME NEW w \in Workers, DrainPop(w) PROVE Stutters
  BY <1>6, <1>a DEF DrainPop, PopLane, TypeOK, WorkerTypes
<1>7. ASSUME NEW w \in Workers, PromoteTask(w) PROVE Stutters
  BY <1>7, <1>a DEF PromoteTask, TypeOK, WorkerTypes
<1>7a. ASSUME NEW w \in Workers, PromoteUncount(w) PROVE Stutters
  BY <1>7a, <1>a DEF PromoteUncount, TypeOK, WorkerTypes
<1>8. ASSUME NEW w \in Workers, PromoteCount(w) PROVE Stutters
  BY <1>8, <1>a DEF PromoteCount, TypeOK, WorkerTypes
<1>9. ASSUME NEW w \in Workers, KeepTask(w) PROVE Stutters
  BY <1>9, <1>a DEF KeepTask, TypeOK, WorkerTypes
<1>10. ASSUME NEW w \in Workers, DrainEmpty(w) PROVE Stutters
  BY <1>10, <1>a DEF DrainEmpty, LeaveLane, TypeOK, WorkerTypes
<1>11. ASSUME NEW w \in Workers, RestoreTask(w) PROVE Stutters
  BY <1>11, <1>a DEF RestoreTask, LeaveLane, TypeOK, WorkerTypes
<1>12. ASSUME NEW w \in Workers, QuotaLeft(w) PROVE Stutters
  BY <1>12, <1>a DEF QuotaLeft, TypeOK, WorkerTypes
<1>13. ASSUME NEW w \in Workers, QuotaUsed(w) PROVE Stutters
  BY <1>13, <1>a DEF QuotaUsed, NextLane, TypeOK, WorkerTypes
<1>14. ASSUME NEW w \in Workers, ScanEmpty(w) PROVE Stutters
  BY <1>14, <1>a DEF ScanEmpty, NextLane, TypeOK, WorkerTypes
<1>15. ASSUME NEW w \in Workers, ScanPop(w) PROVE Stutters
  BY <1>15, <1>a DEF ScanPop, PopLane, TypeOK, WorkerTypes
<1>15a. ASSUME NEW w \in Workers, ScanUncount(w) PROVE Stutters
  BY <1>15a, <1>a DEF ScanUncount, TypeOK, WorkerTypes
<1>16. ASSUME NEW w \in Workers, DropCancelled(w) PROVE Pool!Next
  <2> DEFINE t == hold[w]
  <2>1. t \in Tasks /\ Live(t) /\ t \in token
    BY <1>16, <1>b DEF DropCancelled
  <2>2. \A u \in Tasks : u # t => (Given(u)' <=> Given(u))
    BY <1>16 DEF DropCancelled, Given, TypeOK, WorkerTypes
  <2>3. ~ Given(t)
    BY <1>16, <1>b DEF DropCancelled, Given
  <2>4. left' = left \cup {t} /\ token' = token /\ sub' = sub
    BY <1>16 DEF DropCancelled
  <2> HIDE DEF t
  <2>5. PoolPhase[t] = "pooled" /\ PoolPhase'[t] = "gone" /\ \A u \in Tasks : u # t => PoolPhase'[u] = PoolPhase[u]
    BY <2>1, <2>2, <2>3, <2>4, <1>f, <1>g DEF Live
  <2> QED BY <2>1, <2>4, <2>5, PoolMoves DEF Pool!Next, Pool!Drop
<1>16a. ASSUME NEW w \in Workers, DropUncount(w) PROVE Stutters
  BY <1>16a, <1>a DEF DropUncount, TypeOK, WorkerTypes
<1>17. ASSUME NEW w \in Workers, TakeTask(w) PROVE Pool!Next
  <2>0. PICK t \in Tasks : t = hold[w]
    BY <1>17, <1>b DEF TakeTask
  <2>1. t \in Tasks /\ Live(t) /\ t \notin token
    BY <1>17, <1>b, <2>0 DEF TakeTask
  <2>2. \A u \in Tasks : u # t => (Given(u)' <=> Given(u))
    BY <1>17, <2>0 DEF TakeTask, Given, TypeOK, WorkerTypes
  <2>3. ~ Given(t) /\ Given(t)'
    BY <1>17, <1>b, <2>0 DEF TakeTask, Given, TypeOK, WorkerTypes
  <2>4. left' = left /\ token' = token /\ sub' = sub
    BY <1>17 DEF TakeTask
  <2>5. PoolPhase[t] = "pooled" /\ PoolPhase'[t] = "taken" /\ \A u \in Tasks : u # t => PoolPhase'[u] = PoolPhase[u]
    BY <2>1, <2>2, <2>3, <2>4, <1>f, <1>g DEF Live
  <2> QED BY <2>1, <2>4, <2>5, PoolMoves DEF Pool!Next, Pool!Take
<1>17a. ASSUME NEW w \in Workers, ChargeLane(w) PROVE Stutters
  <2>1. \A v \in Workers : hold'[v] = hold[v] /\ (pc'[v] \in {"busy", "charge"} <=> pc[v] \in {"busy", "charge"})
    BY <1>17a DEF ChargeLane, TypeOK, WorkerTypes
  <2> QED BY <1>17a, <2>1, PoolStutters DEF ChargeLane, Given
<1>18. ASSUME NEW w \in Workers, ResetLane(w) PROVE Stutters
  BY <1>18, <1>a DEF ResetLane, TypeOK, WorkerTypes
<1>19. ASSUME NEW w \in Workers, Park(w) PROVE Stutters
  BY <1>19, <1>a DEF Park, TypeOK, WorkerTypes
<1>20. ASSUME NEW w \in Workers, FinishTask(w) PROVE Pool!Next
  <2> DEFINE t == hold[w]
  <2>1. t \in Tasks /\ Live(t)
    BY <1>20, <1>b DEF FinishTask
  <2>2. \A u \in Tasks : u # t => (Given(u)' <=> Given(u))
    BY <1>20 DEF FinishTask, Given, TypeOK, WorkerTypes
  <2>3. Given(t)
    BY <1>20 DEF FinishTask, Given
  <2>4. left' = left \cup {t} /\ token' = token /\ sub' = sub
    BY <1>20 DEF FinishTask
  <2> HIDE DEF t
  <2>5. PoolPhase[t] = "taken" /\ PoolPhase'[t] = "gone" /\ \A u \in Tasks : u # t => PoolPhase'[u] = PoolPhase[u]
    BY <2>1, <2>2, <2>3, <2>4, <1>f, <1>g DEF Live
  <2> QED BY <2>1, <2>4, <2>5, PoolMoves DEF Pool!Next, Pool!Finish
<1>20a. ASSUME NEW w \in Workers, FinishUncount(w) PROVE Stutters
  BY <1>20a, <1>a DEF FinishUncount, TypeOK, WorkerTypes
<1>21. CASE Tick
  BY <1>21, PoolStutters DEF Tick, Given
<1>22. CASE UNCHANGED vars
  BY <1>22, PoolStutters DEF vars, Given
<1> QED
  BY <1>1, <1>1a, <1>2, <1>3, <1>4, <1>5, <1>6, <1>7, <1>7a, <1>8, <1>9, <1>10, <1>11,
     <1>12, <1>13, <1>14, <1>15, <1>15a, <1>16, <1>16a, <1>17, <1>17a, <1>18, <1>19, <1>20,
     <1>20a, <1>21, <1>22
     DEF Next, SubmitRest, Worker, Promotion, Scan

-----------------------------------------------------------------------------
(* Lanes and priorities.                                                   *)

\* What the steps do to the set of a queue's entries.
LEMMA RangeFacts ==
  ASSUME NEW s \in Seq(Tasks)
  PROVE  /\ RangeOf(s) \subseteq Tasks
         /\ \A t \in Tasks : RangeOf(Append(s, t)) = RangeOf(s) \cup {t}
         /\ s # <<>> => RangeOf(s) = RangeOf(Tail(s)) \cup {Head(s)}
         /\ s = <<>> => RangeOf(s) = {}
<1>0. RangeOf(s) = {s[i] : i \in 1 .. Len(s)} /\ Len(s) \in Nat
  BY LenProperties DEF RangeOf
<1>1. RangeOf(s) \subseteq Tasks
  BY <1>0, ElementOfSeq
<1>2. ASSUME NEW t \in Tasks PROVE RangeOf(Append(s, t)) = RangeOf(s) \cup {t}
  <2>1. RangeOf(Append(s, t)) = {Append(s, t)[i] : i \in 1 .. Len(Append(s, t))}
    BY PushFacts, LenProperties DEF RangeOf
  <2>2. \A i \in 1 .. Len(Append(s, t)) : IF i = Len(s) + 1 THEN Append(s, t)[i] = t
                                          ELSE i \in 1 .. Len(s) /\ Append(s, t)[i] = s[i]
    BY PushFacts
  <2>3. \A i \in 1 .. Len(s) : i \in 1 .. Len(Append(s, t)) /\ Append(s, t)[i] = s[i]
    BY PushFacts
  <2>4. Len(s) + 1 \in 1 .. Len(Append(s, t)) /\ Append(s, t)[Len(s) + 1] = t
    BY PushFacts
  <2>5. RangeOf(Append(s, t)) \subseteq RangeOf(s) \cup {t}
    BY <1>0, <2>1, <2>2
  <2>6. RangeOf(s) \cup {t} \subseteq RangeOf(Append(s, t))
    BY <1>0, <2>1, <2>3, <2>4
  <2> QED BY <2>5, <2>6
<1>3. ASSUME s # <<>> PROVE RangeOf(s) = RangeOf(Tail(s)) \cup {Head(s)}
  <2>1. RangeOf(Tail(s)) = {Tail(s)[i] : i \in 1 .. Len(Tail(s))}
    BY <1>3, PopFacts, LenProperties DEF RangeOf
  <2>2. \A i \in 1 .. Len(Tail(s)) : i + 1 \in 1 .. Len(s) /\ Tail(s)[i] = s[i + 1]
    BY <1>3, PopFacts
  <2>3. \A i \in 1 .. Len(s) : IF i = 1 THEN s[i] = Head(s)
                               ELSE i - 1 \in 1 .. Len(Tail(s)) /\ s[i] = Tail(s)[i - 1]
    BY <1>3, PopFacts
  <2>4. 1 \in 1 .. Len(s) /\ s[1] = Head(s)
    BY <1>3, PopFacts
  <2>5. RangeOf(s) \subseteq RangeOf(Tail(s)) \cup {Head(s)}
    BY <1>0, <2>1, <2>3
  <2>6. RangeOf(Tail(s)) \cup {Head(s)} \subseteq RangeOf(s)
    BY <1>0, <2>1, <2>2, <2>4
  <2> QED BY <2>5, <2>6
<1>4. ASSUME s = <<>> PROVE RangeOf(s) = {}
  BY <1>4 DEF RangeOf
<1> QED BY <1>1, <1>2, <1>3, <1>4

\* One place for each task, said of the sets of entries.
LEMMA Apart ==
  ASSUME TypeOK, AllLive, Alone
  PROVE  /\ \A l \in Lane : \A t \in RangeOf(lanes[l]) : t \in Tasks /\ Live(t)
         /\ \A w \in Workers : \A t \in RangeOf(temp[w]) : t \in Tasks /\ Live(t)
         /\ \A l, m \in Lane : \A t \in RangeOf(lanes[l]) : t \in RangeOf(lanes[m]) => l = m
         /\ \A v, w \in Workers : \A t \in RangeOf(temp[v]) : t \in RangeOf(temp[w]) => v = w
         /\ \A l \in Lane, w \in Workers : \A t \in RangeOf(lanes[l]) : t \notin RangeOf(temp[w]) /\ t # hold[w]
         /\ \A v, w \in Workers : \A t \in RangeOf(temp[v]) : t # hold[w]
         /\ \A v, w \in Workers : hold[v] # NoTask /\ hold[v] = hold[w] => v = w
         /\ \A l \in Lane : lanes[l] # <<>> => Head(lanes[l]) \notin RangeOf(Tail(lanes[l]))
<1>1. /\ \A l \in Lane : lanes[l] \in Seq(Tasks) /\ RangeOf(lanes[l]) = {lanes[l][i] : i \in 1 .. Len(lanes[l])}
      /\ \A w \in Workers : temp[w] \in Seq(Tasks) /\ RangeOf(temp[w]) = {temp[w][i] : i \in 1 .. Len(temp[w])}
  BY LenProperties DEF TypeOK, LaneTypes, WorkerTypes, RangeOf
<1> DEFINE InL(t, l, i) == i \in 1 .. Len(lanes[l]) /\ lanes[l][i] = t
           InT(t, w, i) == i \in 1 .. Len(temp[w]) /\ temp[w][i] = t
<1>0. /\ \A l \in Lane : \A t \in RangeOf(lanes[l]) : \E i : InL(t, l, i)
      /\ \A w \in Workers : \A t \in RangeOf(temp[w]) : \E i : InT(t, w, i)
  <2>1. ASSUME NEW l \in Lane, NEW t \in RangeOf(lanes[l]) PROVE \E i : InL(t, l, i)
    <3>1. t \in {lanes[l][i] : i \in 1 .. Len(lanes[l])}
      BY <1>1
    <3> QED BY <3>1
  <2>2. ASSUME NEW w \in Workers, NEW t \in RangeOf(temp[w]) PROVE \E i : InT(t, w, i)
    <3>1. t \in {temp[w][i] : i \in 1 .. Len(temp[w])}
      BY <1>1
    <3> QED BY <3>1
  <2> QED BY <2>1, <2>2
<1>a. /\ \A l \in Lane : \A t, i : InL(t, l, i) => t \in Tasks /\ Live(t)
      /\ \A w \in Workers : \A t, i : InT(t, w, i) => t \in Tasks /\ Live(t)
      /\ \A l, m \in Lane : \A t, i, j : InL(t, l, i) /\ InL(t, m, j) => l = m
      /\ \A v, w \in Workers : \A t, i, j : InT(t, v, i) /\ InT(t, w, j) => v = w
      /\ \A l \in Lane, w \in Workers : \A t, i, j : InL(t, l, i) => ~ InT(t, w, j) /\ t # hold[w]
      /\ \A v, w \in Workers : \A t, i : InT(t, v, i) => t # hold[w]
  BY Entries DEF AllLive, Alone
<1> HIDE DEF InL, InT
<1>2. /\ \A l \in Lane : \A t \in RangeOf(lanes[l]) : t \in Tasks /\ Live(t)
      /\ \A w \in Workers : \A t \in RangeOf(temp[w]) : t \in Tasks /\ Live(t)
  BY <1>0, <1>a
<1>3. \A l, m \in Lane : \A t \in RangeOf(lanes[l]) : t \in RangeOf(lanes[m]) => l = m
  BY <1>0, <1>a
<1>4. \A v, w \in Workers : \A t \in RangeOf(temp[v]) : t \in RangeOf(temp[w]) => v = w
  BY <1>0, <1>a
<1>5. \A l \in Lane, w \in Workers : \A t \in RangeOf(lanes[l]) : t \notin RangeOf(temp[w]) /\ t # hold[w]
  BY <1>0, <1>a
<1>6. \A v, w \in Workers : \A t \in RangeOf(temp[v]) : t # hold[w]
  BY <1>0, <1>a
<1>7. ASSUME NEW l \in Lane, lanes[l] # <<>> PROVE Head(lanes[l]) \notin RangeOf(Tail(lanes[l]))
  <2>1. lanes[l] \in Seq(Tasks)
    BY <1>1
  <2> DEFINE s == lanes[l]
  <2>2. /\ Len(s) \in Nat /\ Len(s) >= 1 /\ Head(s) = s[1]
        /\ Tail(s) \in Seq(Tasks) /\ Len(Tail(s)) = Len(s) - 1
        /\ \A i \in 1 .. Len(Tail(s)) : Tail(s)[i] = s[i + 1]
    BY <1>7, <2>1, PopFacts
  <2>3. RangeOf(Tail(s)) = {Tail(s)[i] : i \in 1 .. Len(Tail(s))}
    BY <2>2, LenProperties DEF RangeOf
  <2>4. \A i, j \in 1 .. Len(s) : s[i] = s[j] => i = j
    BY DEF Alone
  <2>5. \A i \in 1 .. Len(Tail(s)) : Tail(s)[i] # s[1]
    BY <2>2, <2>4
  <2> QED BY <2>2, <2>3, <2>5
<1>8. \A v, w \in Workers : hold[v] # NoTask /\ hold[v] = hold[w] => v = w
  BY DEF Alone
<1> QED BY <1>2, <1>3, <1>4, <1>5, <1>6, <1>7, <1>8

LEMMA InitPriority == Init => LaneIsPriority
BY DEF Init, LaneIsPriority, RangeOf

\* What the priorities of lanes and vectors say, before and after.
LEMMA PriorityKept ==
  ASSUME LaneIsPriority, UNCHANGED <<lanes, temp, hold, prio>>,
         \A w \in Workers : \/ at'[w] = at[w] /\ (pc'[w] \in {"aging", "popped", "judge", "charge"} => pc[w] \in {"aging", "popped", "judge", "charge"})
                            \/ temp[w] = <<>> /\ pc'[w] \notin {"aging", "popped", "judge", "charge"}
  PROVE  LaneIsPriority'
<1>1. \A w \in Workers : temp[w] = <<>> => RangeOf(temp[w]) = {}
  BY DEF RangeOf
<1>2. \A w \in Workers : RangeOf(temp[w])' = RangeOf(temp[w]) /\ hold'[w] = hold[w]
  BY DEF RangeOf
<1>3. \A l \in Lane : RangeOf(lanes[l])' = RangeOf(lanes[l])
  BY DEF RangeOf
<1> QED BY <1>1, <1>2, <1>3 DEF LaneIsPriority

\* A task from the front of a lane has the priority of the lane.
LEMMA PriorityPop ==
  ASSUME TypeOK, LaneIsPriority, NEW w \in Workers, PopLane(w), UNCHANGED <<prio, temp, at>>,
         \A v \in Workers : v # w => pc'[v] = pc[v]
  PROVE  LaneIsPriority'
<1>1. at[w] \in Lane /\ lanes[at[w]] \in Seq(Tasks) /\ lanes[at[w]] # <<>>
  BY DEF TypeOK, LaneTypes, WorkerTypes, PopLane
<1>2. RangeOf(lanes[at[w]]) = RangeOf(Tail(lanes[at[w]])) \cup {Head(lanes[at[w]])}
  BY <1>1, RangeFacts
<1>3. \A l \in Lane : RangeOf(lanes'[l]) \subseteq RangeOf(lanes[l])
  BY <1>1, <1>2 DEF PopLane, TypeOK, LaneTypes
<1>4. hold'[w] = Head(lanes[at[w]]) /\ \A v \in Workers : v # w => hold'[v] = hold[v]
  BY DEF PopLane, TypeOK, WorkerTypes
<1>5. \A v \in Workers : RangeOf(temp'[v]) = RangeOf(temp[v])
  OBVIOUS
<1>6. prio[Head(lanes[at[w]])] = at[w]
  BY <1>1, <1>2 DEF LaneIsPriority
<1>7. \A l \in Lane : \A t \in RangeOf(lanes'[l]) : prio'[t] = l
  BY <1>3 DEF LaneIsPriority
<1>8. \A v \in Workers : \A t \in RangeOf(temp'[v]) : prio'[t] = at'[v]
  BY <1>5 DEF LaneIsPriority
<1>9. \A v \in Workers : pc'[v] \in {"aging", "popped", "judge", "charge"} => prio'[hold'[v]] = at'[v]
  BY <1>4, <1>6 DEF LaneIsPriority
<1> QED BY <1>7, <1>8, <1>9 DEF LaneIsPriority

\* Each action leaves every task where its priority says.
LEMMA PriorityStep ==
  TypeOK /\ WorkersFit /\ Carrying /\ AllLive /\ Alone /\ LaneIsPriority /\ [Next]_vars => LaneIsPriority'
<1> SUFFICES ASSUME TypeOK, WorkersFit, Carrying, AllLive, Alone, LaneIsPriority, [Next]_vars
             PROVE  LaneIsPriority'
  OBVIOUS
<1>q. /\ lanes \in [Lane -> Seq(Tasks)] /\ temp \in [Workers -> Seq(Tasks)]
      /\ prio \in [Tasks -> Lane] /\ at \in [Workers -> Lane]
      /\ pc \in [Workers -> Step] /\ hold \in [Workers -> Tasks \cup {NoTask}]
  BY DEF TypeOK, LaneTypes, WorkerTypes, TaskTypes
<1>e. \A w \in Workers : pc[w] \notin {"drain", "aging", "promoted", "raised", "restore"} => temp[w] = <<>>
  BY DEF Carrying
<1>p. /\ \A l \in Lane : \A t \in RangeOf(lanes[l]) : prio[t] = l
      /\ \A w \in Workers : \A t \in RangeOf(temp[w]) : prio[t] = at[w]
      /\ \A w \in Workers : pc[w] \in {"aging", "popped", "judge", "charge"} => prio[hold[w]] = at[w]
  BY DEF LaneIsPriority
<1> USE DEF shared, local
<1>1. ASSUME NEW t \in Tasks, NEW p \in Priorities, SubmitPush(t, p) PROVE LaneIsPriority'
  <2>1. p \in Lane /\ ~ Live(t) /\ t # NoTask
    BY <1>1, SchedulerAssumption DEF SubmitPush, Live
  <2>2. \A u : u # t => prio'[u] = prio[u]
    BY <1>1, <1>q DEF SubmitPush
  <2>3. prio'[t] = p
    BY <1>1, <1>q DEF SubmitPush
  <2>4. /\ \A l \in Lane : t \notin RangeOf(lanes[l])
        /\ \A w \in Workers : t \notin RangeOf(temp[w]) /\ hold[w] # t
    BY <2>1, Apart DEF AllLive
  <2>5. \A l \in Lane : RangeOf(lanes'[l]) \subseteq RangeOf(lanes[l]) \cup (IF l = p THEN {t} ELSE {})
    <3>1. RangeOf(Append(lanes[p], t)) = RangeOf(lanes[p]) \cup {t}
      BY <1>q, <2>1, RangeFacts
    <3> QED BY <1>1, <1>q, <3>1 DEF SubmitPush
  <2>6. temp' = temp /\ hold' = hold /\ at' = at /\ pc' = pc
    BY <1>1 DEF SubmitPush
  <2>7. \A l \in Lane : \A u \in RangeOf(lanes'[l]) : prio'[u] = l
    BY <1>p, <2>2, <2>3, <2>4, <2>5
  <2>8. \A w \in Workers : \A u \in RangeOf(temp'[w]) : prio'[u] = at'[w]
    BY <1>p, <2>2, <2>4, <2>6
  <2>9. \A w \in Workers : pc'[w] \in {"aging", "popped", "judge", "charge"} => prio'[hold'[w]] = at'[w]
    BY <1>p, <2>2, <2>4, <2>6
  <2> QED BY <2>7, <2>8, <2>9 DEF LaneIsPriority
<1>1a. ASSUME NEW t \in Tasks, SubmitGauge(t) PROVE LaneIsPriority'
  BY <1>1a, PriorityKept DEF SubmitGauge
<1>2. ASSUME NEW t \in Tasks, SubmitCount(t) PROVE LaneIsPriority'
  BY <1>2, PriorityKept DEF SubmitCount
<1>3. ASSUME NEW t \in Tasks, SubmitNotify(t) PROVE LaneIsPriority'
  BY <1>3, <1>q, PriorityKept DEF SubmitNotify, NotifyOne
<1>4. ASSUME NEW t \in Tasks, Cancel(t) PROVE LaneIsPriority'
  BY <1>4, PriorityKept DEF Cancel
<1>5. ASSUME NEW w \in Workers, StartPromotion(w) PROVE LaneIsPriority'
  BY <1>5, <1>q, <1>e, PriorityKept DEF StartPromotion
<1>6. ASSUME NEW w \in Workers, DrainPop(w) PROVE LaneIsPriority'
  BY <1>6, <1>q, PriorityPop DEF DrainPop
<1>7. ASSUME NEW w \in Workers, PromoteTask(w) PROVE LaneIsPriority'
  <2> DEFINE t == hold[w]
             k == Promote(prio[t])
  <2>1. t \in Tasks /\ t # NoTask /\ k \in Lane
    BY <1>7, <1>q, LaneFacts, SchedulerAssumption DEF PromoteTask, WorkersFit, WorkerFits
  <2>2. prio'[t] = k /\ \A u : u # t => prio'[u] = prio[u]
    BY <1>7, <1>q, <2>1 DEF PromoteTask
  <2>4. /\ \A l \in Lane : t \notin RangeOf(lanes[l])
        /\ \A v \in Workers : t \notin RangeOf(temp[v])
        /\ \A v \in Workers : v # w => hold[v] # t
    <3>1. \A l \in Lane : t \notin RangeOf(lanes[l])
      BY Apart
    <3>2. \A v \in Workers : t \notin RangeOf(temp[v])
      BY Apart
    <3>3. \A v \in Workers : v # w => hold[v] # t
      BY <2>1, Apart
    <3> QED BY <3>1, <3>2, <3>3
  <2>5. \A l \in Lane : RangeOf(lanes'[l]) \subseteq RangeOf(lanes[l]) \cup (IF l = k THEN {t} ELSE {})
    <3>1. RangeOf(Append(lanes[k], t)) = RangeOf(lanes[k]) \cup {t}
      BY <1>q, <2>1, RangeFacts
    <3> QED BY <1>7, <1>q, <3>1 DEF PromoteTask
  <2>6. temp' = temp /\ at' = at /\ pc'[w] = "promoted" /\ \A v \in Workers : v # w => hold'[v] = hold[v] /\ pc'[v] = pc[v]
    BY <1>7, <1>q DEF PromoteTask
  <2> HIDE DEF t, k
  <2>7. \A l \in Lane : \A u \in RangeOf(lanes'[l]) : prio'[u] = l
    BY <1>p, <2>2, <2>4, <2>5
  <2>8. \A v \in Workers : \A u \in RangeOf(temp'[v]) : prio'[u] = at'[v]
    BY <1>p, <2>2, <2>4, <2>6
  <2>9. \A v \in Workers : pc'[v] \in {"aging", "popped", "judge", "charge"} => prio'[hold'[v]] = at'[v]
    BY <1>p, <2>2, <2>4, <2>6
  <2> QED BY <2>7, <2>8, <2>9 DEF LaneIsPriority
<1>7a. ASSUME NEW w \in Workers, PromoteUncount(w) PROVE LaneIsPriority'
  BY <1>7a, <1>q, PriorityKept DEF PromoteUncount
<1>8. ASSUME NEW w \in Workers, PromoteCount(w) PROVE LaneIsPriority'
  BY <1>8, <1>q, PriorityKept DEF PromoteCount
<1>9. ASSUME NEW w \in Workers, KeepTask(w) PROVE LaneIsPriority'
  <2>1. hold[w] \in Tasks /\ prio[hold[w]] = at[w]
    BY <1>9, <1>p DEF KeepTask, WorkersFit, WorkerFits
  <2>2. RangeOf(Append(temp[w], hold[w])) = RangeOf(temp[w]) \cup {hold[w]}
    BY <1>q, <2>1, RangeFacts
  <2>3. \A v \in Workers : IF v = w THEN RangeOf(temp'[v]) = RangeOf(temp[v]) \cup {hold[v]} /\ pc'[v] = "drain"
                           ELSE RangeOf(temp'[v]) = RangeOf(temp[v]) /\ hold'[v] = hold[v] /\ pc'[v] = pc[v]
    BY <1>9, <1>q, <2>2 DEF KeepTask
  <2>4. prio' = prio /\ at' = at /\ lanes' = lanes
    BY <1>9 DEF KeepTask
  <2>7. \A l \in Lane : \A u \in RangeOf(lanes'[l]) : prio'[u] = l
    BY <1>p, <2>4
  <2>8. \A v \in Workers : \A u \in RangeOf(temp'[v]) : prio'[u] = at'[v]
    BY <1>p, <2>1, <2>3, <2>4
  <2>9. \A v \in Workers : pc'[v] \in {"aging", "popped", "judge", "charge"} => prio'[hold'[v]] = at'[v]
    BY <1>p, <2>3, <2>4
  <2> QED BY <2>7, <2>8, <2>9 DEF LaneIsPriority
<1>10. ASSUME NEW w \in Workers, DrainEmpty(w) PROVE LaneIsPriority'
  BY <1>10, <1>q, PriorityKept DEF DrainEmpty, LeaveLane
<1>11. ASSUME NEW w \in Workers, RestoreTask(w) PROVE LaneIsPriority'
  <2> DEFINE t == Head(temp[w])
  <2>1. temp[w] # <<>> /\ t \in Tasks /\ at[w] \in Lane /\ RangeOf(temp[w]) = RangeOf(Tail(temp[w])) \cup {t}
    BY <1>11, <1>q, QueueFacts, RangeFacts DEF RestoreTask, WorkersFit, WorkerFits
  <2>2. RangeOf(Append(lanes[at[w]], t)) = RangeOf(lanes[at[w]]) \cup {t}
    BY <1>q, <2>1, RangeFacts
  <2>3. \A l \in Lane : RangeOf(lanes'[l]) \subseteq RangeOf(lanes[l]) \cup (IF l = at[w] THEN {t} ELSE {})
    BY <1>11, <1>q, <2>2 DEF RestoreTask
  <2>4. \A v \in Workers : RangeOf(temp'[v]) \subseteq RangeOf(temp[v])
    BY <1>11, <1>q, <2>1 DEF RestoreTask
  <2>5. at'[w] = at[w] \/ RangeOf(temp'[w]) = {}
    <3>1. CASE UNCHANGED at
      BY <3>1
    <3>2. CASE Len(temp[w]) = 1
      <4>1. temp'[w] = <<>>
        BY <1>11, <1>q, <3>2, LastTaken DEF RestoreTask
      <4> QED BY <4>1 DEF RangeOf
    <3> QED BY <1>11, <3>1, <3>2 DEF RestoreTask
  <2>6. /\ prio' = prio /\ hold' = hold
        /\ \A v \in Workers : v # w => at'[v] = at[v] /\ pc'[v] = pc[v]
        /\ pc'[w] \notin {"aging", "popped", "judge", "charge"}
    BY <1>11, <1>q DEF RestoreTask, LeaveLane
  <2> HIDE DEF t
  <2>7. \A l \in Lane : \A u \in RangeOf(lanes'[l]) : prio'[u] = l
    BY <1>p, <2>1, <2>3, <2>6
  <2>8. \A v \in Workers : \A u \in RangeOf(temp'[v]) : prio'[u] = at'[v]
    BY <1>p, <2>4, <2>5, <2>6
  <2>9. \A v \in Workers : pc'[v] \in {"aging", "popped", "judge", "charge"} => prio'[hold'[v]] = at'[v]
    BY <1>p, <2>6
  <2> QED BY <2>7, <2>8, <2>9 DEF LaneIsPriority
<1>12. ASSUME NEW w \in Workers, QuotaLeft(w) PROVE LaneIsPriority'
  BY <1>12, <1>q, PriorityKept DEF QuotaLeft
<1>13. ASSUME NEW w \in Workers, QuotaUsed(w) PROVE LaneIsPriority'
  BY <1>13, <1>q, <1>e, PriorityKept DEF QuotaUsed, NextLane
<1>14. ASSUME NEW w \in Workers, ScanEmpty(w) PROVE LaneIsPriority'
  BY <1>14, <1>q, <1>e, PriorityKept DEF ScanEmpty, NextLane
<1>15. ASSUME NEW w \in Workers, ScanPop(w) PROVE LaneIsPriority'
  BY <1>15, <1>q, PriorityPop DEF ScanPop
<1>15a. ASSUME NEW w \in Workers, ScanUncount(w) PROVE LaneIsPriority'
  BY <1>15a, <1>q, PriorityKept DEF ScanUncount
<1>16. ASSUME NEW w \in Workers, pc[w] \in {"judge", "charge", "busy"}, pc'[w] \notin {"aging", "popped", "judge", "charge"},
              UNCHANGED <<lanes, prio, temp>>,
              \A v \in Workers : v # w => pc'[v] = pc[v] /\ hold'[v] = hold[v] /\ at'[v] = at[v]
       PROVE LaneIsPriority'
  <2>1. RangeOf(temp[w]) = {}
    BY <1>16, <1>e DEF RangeOf
  <2>2. \A v \in Workers : RangeOf(temp'[v]) = RangeOf(temp[v])
    BY <1>16
  <2>3. \A l \in Lane : RangeOf(lanes'[l]) = RangeOf(lanes[l])
    BY <1>16
  <2>4. \A v \in Workers : \A u \in RangeOf(temp'[v]) : prio'[u] = at'[v]
    BY <1>16, <1>p, <2>1, <2>2
  <2> QED BY <1>16, <1>p, <2>3, <2>4 DEF LaneIsPriority
<1>17. ASSUME NEW w \in Workers, DropCancelled(w) PROVE LaneIsPriority'
  BY <1>16, <1>17, <1>q DEF DropCancelled
<1>16a. ASSUME NEW w \in Workers, DropUncount(w) PROVE LaneIsPriority'
  BY <1>16a, <1>q, PriorityKept DEF DropUncount
<1>17a. ASSUME NEW w \in Workers, TakeTask(w) PROVE LaneIsPriority'
  BY <1>17a, <1>q, PriorityKept DEF TakeTask
<1>18. ASSUME NEW w \in Workers, ChargeLane(w) PROVE LaneIsPriority'
  BY <1>16, <1>18, <1>q DEF ChargeLane
<1>19. ASSUME NEW w \in Workers, FinishTask(w) PROVE LaneIsPriority'
  BY <1>16, <1>19, <1>q DEF FinishTask
<1>20a. ASSUME NEW w \in Workers, FinishUncount(w) PROVE LaneIsPriority'
  BY <1>20a, <1>q, PriorityKept DEF FinishUncount
<1>20. ASSUME NEW w \in Workers, ResetLane(w) PROVE LaneIsPriority'
  BY <1>20, <1>q, <1>e, PriorityKept DEF ResetLane
<1>21. ASSUME NEW w \in Workers, Park(w) PROVE LaneIsPriority'
  BY <1>21, <1>q, PriorityKept DEF Park
<1>22. CASE Tick
  BY <1>22, PriorityKept DEF Tick
<1>23. CASE UNCHANGED vars
  BY <1>23, PriorityKept DEF vars
<1> QED
  BY <1>1, <1>1a, <1>2, <1>3, <1>4, <1>5, <1>6, <1>7, <1>7a, <1>8, <1>9, <1>10, <1>11, <1>12,
     <1>13, <1>14, <1>15, <1>15a, <1>16a, <1>17, <1>17a, <1>18, <1>19, <1>20, <1>20a, <1>21,
     <1>22, <1>23
     DEF Next, SubmitRest, Worker, Promotion, Scan

-----------------------------------------------------------------------------
(* Promotion and waiting.                                                  *)

\* No clock reading lies ahead of the clock.
ClockAhead ==
  /\ \A t \in Tasks : created[t] <= now
  /\ \A w \in Workers : snap[w] <= now

LEMMA InitAge == Init => ClockAhead /\ PromotedOnlyByAge
<1> SUFFICES ASSUME Init PROVE ClockAhead /\ PromotedOnlyByAge
  OBVIOUS
<1>1. ClockAhead
  BY DEF Init, ClockAhead
<1>2. PromotedOnlyByAge
  BY DEF Init, PromotedOnlyByAge
<1> QED BY <1>1, <1>2

LEMMA ClockStep == TypeOK /\ ClockAhead /\ [Next]_vars => ClockAhead'
<1> SUFFICES ASSUME TypeOK, ClockAhead, [Next]_vars PROVE ClockAhead'
  OBVIOUS
<1>1. /\ created \in [Tasks -> 0 .. MaxNow] /\ snap \in [Workers -> 0 .. MaxNow]
      /\ now \in 0 .. MaxNow /\ MaxNow \in Nat
  BY SchedulerAssumption DEF TypeOK, TaskTypes, WorkerTypes
<1>2. /\ now' = now \/ now' = now + 1
      /\ created' = created \/ \E t \in Tasks : created' = [created EXCEPT ![t] = now]
  BY TimeMoves
<1>4. \A w \in Workers : snap'[w] \in {snap[w], now, 0}
  <2>1. ASSUME NEW w \in Workers, StartPromotion(w) \/ DrainEmpty(w) \/ RestoreTask(w)
        PROVE  \E x \in {snap[w], now, 0} : snap' = [snap EXCEPT ![w] = x]
    BY <2>1, <1>1 DEF StartPromotion, DrainEmpty, RestoreTask, LeaveLane
  <2>2. ASSUME NEW w \in Workers, Worker(w), ~ StartPromotion(w), ~ DrainEmpty(w), ~ RestoreTask(w)
        PROVE  snap' = snap
    <3>1. CASE Promotion(w)
      BY <2>2, <3>1 DEF Promotion, DrainPop, PromoteTask, PromoteUncount, PromoteCount, KeepTask
    <3>2. CASE Scan(w)
      BY <3>2 DEF Scan, QuotaLeft, QuotaUsed, ScanEmpty, NextLane, ScanPop, ScanUncount, DropCancelled,
         DropUncount, TakeTask, ChargeLane, ResetLane
    <3>3. CASE Park(w) \/ FinishTask(w) \/ FinishUncount(w)
      BY <3>3 DEF Park, FinishTask, FinishUncount
    <3> QED BY <2>2, <3>1, <3>2, <3>3 DEF Worker
  <2>3. ASSUME NEW t \in Tasks, (\E p \in Priorities : SubmitPush(t, p)) \/ SubmitRest(t) \/ Cancel(t)
        PROVE  snap' = snap
    BY <2>3 DEF SubmitPush, SubmitRest, SubmitGauge, SubmitCount, SubmitNotify, Cancel, local
  <2>4. Tick \/ UNCHANGED vars => snap' = snap
    BY DEF Tick, vars, local
  <2>5. snap' = snap \/ \E w \in Workers : \E x \in {snap[w], now, 0} : snap' = [snap EXCEPT ![w] = x]
    BY <2>1, <2>2, <2>3, <2>4 DEF Next
  <2> QED BY <1>1, <2>5
<1>5. \A t \in Tasks : created'[t] = created[t] \/ created'[t] = now
  BY <1>1, <1>2
<1> QED BY <1>1, <1>2, <1>4, <1>5 DEF ClockAhead

\* A task goes up a lane only from the lane it waited in long enough.
LEMMA AgeStep ==
  TypeOK /\ WorkersFit /\ LaneIsPriority /\ ClockAhead /\ PromotedOnlyByAge /\ [Next]_vars => PromotedOnlyByAge'
<1> SUFFICES ASSUME TypeOK, WorkersFit, LaneIsPriority, ClockAhead, PromotedOnlyByAge, [Next]_vars
             PROVE  PromotedOnlyByAge'
  OBVIOUS
<1>0. /\ created \in [Tasks -> 0 .. MaxNow] /\ snap \in [Workers -> 0 .. MaxNow]
      /\ now \in 0 .. MaxNow /\ MaxNow \in Nat /\ AgeThreshold \in [Lane -> Nat]
      /\ prio \in [Tasks -> Lane] /\ base \in [Tasks -> Lane]
      /\ \A l \in Lane : l \in Nat
  BY SchedulerAssumption DEF TypeOK, TaskTypes, WorkerTypes, Lane
<1>k. ASSUME UNCHANGED <<prio, base, created>>, now' = now \/ now' = now + 1
      PROVE  PromotedOnlyByAge'
  <2> SUFFICES ASSUME NEW t \in Tasks, NEW l \in prio[t] + 1 .. base[t]
               PROVE  now' - created[t] >= AgeThreshold[l]
    BY <1>k DEF PromotedOnlyByAge
  <2>1. now - created[t] >= AgeThreshold[l]
    BY DEF PromotedOnlyByAge
  <2>2. l \in Lane
    <3>1. prio[t] \in Lane /\ base[t] \in Lane /\ NumLanes \in Nat
      BY <1>0, SchedulerAssumption
    <3>2. prio[t] \in Nat /\ base[t] \in Nat /\ base[t] <= NumLanes - 1
      BY <3>1 DEF Lane
    <3>3. l \in Nat /\ l <= base[t]
      BY <3>2
    <3> QED BY <3>1, <3>2, <3>3 DEF Lane
  <2> QED BY <1>0, <1>k, <2>1, <2>2
<1> USE DEF shared, local
<1>1. ASSUME NEW t \in Tasks, NEW p \in Priorities, SubmitPush(t, p) PROVE PromotedOnlyByAge'
  <2> SUFFICES ASSUME NEW u \in Tasks, NEW l \in prio'[u] + 1 .. base'[u]
               PROVE  now' - created'[u] >= AgeThreshold[l]
    BY DEF PromotedOnlyByAge
  <2>1. CASE u = t
    <3>1. prio'[u] = p /\ base'[u] = p /\ p \in Nat
      BY <1>0, <1>1, <2>1, SchedulerAssumption DEF SubmitPush
    <3> QED BY <3>1
  <2>2. CASE u # t
    <3>1. prio'[u] = prio[u] /\ base'[u] = base[u] /\ created'[u] = created[u] /\ now' = now
      BY <1>0, <1>1, <2>2 DEF SubmitPush
    <3> QED BY <3>1 DEF PromotedOnlyByAge
  <2> QED BY <2>1, <2>2
<1>2. ASSUME NEW w \in Workers, PromoteTask(w) PROVE PromotedOnlyByAge'
  <2> DEFINE t == hold[w]
  <2>1. t \in Tasks /\ prio[t] = at[w] /\ at[w] > 0 /\ at[w] \in Lane
    BY <1>2 DEF PromoteTask, WorkersFit, WorkerFits, LaneIsPriority, TypeOK, WorkerTypes
  <2>2. /\ prio'[t] = prio[t] - 1 /\ \A u \in Tasks : u # t => prio'[u] = prio[u]
        /\ UNCHANGED <<base, created, now>>
    BY <1>0, <1>2, <2>1 DEF PromoteTask, Promote
  <2>3. now - created[t] >= AgeThreshold[at[w]]
    <3>1. WaitTime(t, w) >= AgeThreshold[at[w]]
      BY <1>2 DEF PromoteTask, Aged
    <3>2. created[t] <= now /\ snap[w] <= now /\ created[t] \in Nat /\ snap[w] \in Nat /\ now \in Nat
          /\ AgeThreshold[at[w]] \in Nat
      BY <1>0, <2>1 DEF ClockAhead
    <3> QED BY <3>1, <3>2 DEF WaitTime
  <2> HIDE DEF t
  <2> SUFFICES ASSUME NEW u \in Tasks, NEW l \in prio'[u] + 1 .. base'[u]
               PROVE  now' - created'[u] >= AgeThreshold[l]
    BY DEF PromotedOnlyByAge
  <2>4. CASE u = t /\ l = prio[t]
    BY <2>1, <2>2, <2>3, <2>4
  <2>5. CASE ~ (u = t /\ l = prio[t])
    <3>1. l \in prio[u] + 1 .. base[u]
      BY <1>0, <2>1, <2>2, <2>5
    <3> QED BY <2>2, <3>1 DEF PromotedOnlyByAge
  <2> QED BY <2>4, <2>5
<1>3. CASE UNCHANGED <<prio, base, created>>
  <2>1. now' = now \/ now' = now + 1
    BY TimeMoves
  <2> QED BY <1>3, <1>k, <2>1
<1>4. \/ UNCHANGED <<prio, base, created>>
      \/ \E t \in Tasks, p \in Priorities : SubmitPush(t, p)
      \/ \E w \in Workers : PromoteTask(w)
  BY DEF Next, SubmitRest, Worker, Promotion, Scan, SubmitGauge, SubmitCount, SubmitNotify, Cancel, StartPromotion,
         DrainPop, PromoteUncount, PromoteCount, KeepTask, DrainEmpty, RestoreTask, QuotaLeft, QuotaUsed, ScanEmpty,
         NextLane, ScanPop, ScanUncount, DropCancelled, DropUncount,
         TakeTask, ChargeLane, ResetLane, Park, FinishTask, FinishUncount, Tick, vars
<1> QED BY <1>1, <1>2, <1>3, <1>4

-----------------------------------------------------------------------------
(* The gauges.                                                             *)

\* The sets whose sizes the gauge of a lane adds up.
Submitted == {t \in Tasks : sub[t] # "new"}
Pushed(l) == {t \in Tasks : sub[t] = "pushed" /\ base[t] = l}
Out(l)    == {w \in Workers : pc[w] \in {"popped", "promoted"} /\ at[w] = l}
Into(l)   == {w \in Workers : pc[w] \in {"promoted", "raised"} /\ Promote(at[w]) = l}

\* Where a worker owes a gauge an update.
Owing == {"popped", "promoted", "raised"}

StoredIn(t, l) ==
  \/ t \in RangeOf(lanes[l])
  \/ \E v \in Workers : at[v] = l /\ t \in RangeOf(temp[v])
  \/ \E v \in Workers : pc[v] = "aging" /\ at[v] = l /\ hold[v] = t

LEMMA StoredFacts ==
  \A l : (\A t : t \in Stored(l) <=> StoredIn(t, l)) /\ (\A t : t \in Stored(l)' <=> StoredIn(t, l)')
<1>1. \A l : \A t : t \in Stored(l) <=> StoredIn(t, l)
  BY DEF Stored, StoredIn
<1>2. \A l : \A t : t \in Stored(l)' <=> StoredIn(t, l)'
  BY DEF Stored, StoredIn
<1> QED BY <1>1, <1>2

LEMMA GaugeSum ==
  /\ GaugesTrackLanes <=> \A l \in Lane : gauge[l] = Cardinality(Stored(l)) - Cardinality(Pushed(l))
                                                    + Cardinality(Out(l)) - Cardinality(Into(l))
  /\ GaugesTrackLanes' <=> \A l \in Lane : gauge'[l] = Cardinality(Stored(l)') - Cardinality(Pushed(l)')
                                                    + Cardinality(Out(l)') - Cardinality(Into(l)')
BY DEF GaugesTrackLanes, Pushed, Out, Into

\* Only finitely many tasks have been submitted, and the gauges count those.
LEMMA GaugeSetsFinite ==
  ASSUME TypeOK, WorkersFit, AllLive, Alone, IsFiniteSet(Submitted)
  PROVE  \A l \in Lane :
           /\ IsFiniteSet(Stored(l)) /\ Cardinality(Stored(l)) \in Nat
           /\ IsFiniteSet(Pushed(l)) /\ Cardinality(Pushed(l)) \in Nat
           /\ IsFiniteSet(Out(l)) /\ Cardinality(Out(l)) \in Nat
           /\ IsFiniteSet(Into(l)) /\ Cardinality(Into(l)) \in Nat
<1> SUFFICES ASSUME NEW l \in Lane
             PROVE  /\ Stored(l) \subseteq Submitted /\ Pushed(l) \subseteq Submitted
                    /\ Out(l) \subseteq Workers /\ Into(l) \subseteq Workers
  BY SchedulerAssumption, FS_Subset, FS_CardinalityType
<1>1. ASSUME NEW t \in Stored(l) PROVE t \in Submitted
  <2>0. StoredIn(t, l)
    BY StoredFacts
  <2>1. CASE t \in RangeOf(lanes[l])
    BY <2>1, Apart DEF Live, Submitted
  <2>2. CASE \E v \in Workers : at[v] = l /\ t \in RangeOf(temp[v])
    BY <2>2, Apart DEF Live, Submitted
  <2>3. CASE \E v \in Workers : pc[v] = "aging" /\ at[v] = l /\ hold[v] = t
    BY <2>3, SchedulerAssumption DEF WorkersFit, WorkerFits, AllLive, Live, Submitted
  <2> QED BY <2>0, <2>1, <2>2, <2>3 DEF StoredIn
<1>2. Pushed(l) \subseteq Submitted
  BY DEF Pushed, Submitted
<1>3. Out(l) \subseteq Workers /\ Into(l) \subseteq Workers
  BY DEF Out, Into
<1> QED BY <1>1, <1>2, <1>3

LEMMA SubmittedStep == TypeOK /\ IsFiniteSet(Submitted) /\ [Next]_vars => IsFiniteSet(Submitted')
<1> SUFFICES ASSUME TypeOK, IsFiniteSet(Submitted), [Next]_vars PROVE IsFiniteSet(Submitted')
  OBVIOUS
<1>1. sub' = sub \/ \E t \in Tasks : sub' = [sub EXCEPT ![t] = "pushed"] \/ sub' = [sub EXCEPT ![t] = "gauged"]
                                      \/ sub' = [sub EXCEPT ![t] = "counted"]
                                      \/ sub' = [sub EXCEPT ![t] = "done"]
  BY SubMoves
<1>2. CASE sub' = sub
  BY <1>2 DEF Submitted
<1>3. CASE \E t \in Tasks : sub' = [sub EXCEPT ![t] = "pushed"] \/ sub' = [sub EXCEPT ![t] = "gauged"]
                                      \/ sub' = [sub EXCEPT ![t] = "counted"]
                             \/ sub' = [sub EXCEPT ![t] = "done"]
  <2>1. PICK t \in Tasks : \A u \in Tasks : u # t => sub'[u] = sub[u]
    BY <1>3 DEF TypeOK, TaskTypes
  <2>2. Submitted' \subseteq Submitted \cup {t}
    BY <2>1 DEF Submitted
  <2>3. IsFiniteSet(Submitted \cup {t})
    BY FS_AddElement
  <2> QED BY <2>2, <2>3, FS_Subset
<1> QED BY <1>1, <1>2, <1>3

\* A step that moves nothing the gauges count.
LEMMA GaugeKept ==
  ASSUME GaugesTrackLanes, UNCHANGED gauge, \A l \in Lane : Stored(l)' = Stored(l),
         \A t \in Tasks : /\ sub'[t] = "pushed" <=> sub[t] = "pushed"
                          /\ sub[t] = "pushed" => base'[t] = base[t],
         \A v \in Workers : pc[v] \in Owing \/ pc'[v] \in Owing => pc'[v] = pc[v] /\ at'[v] = at[v]
  PROVE  GaugesTrackLanes'
<1>1. \A l \in Lane : Pushed(l)' = Pushed(l) /\ Out(l)' = Out(l) /\ Into(l)' = Into(l)
  BY DEF Pushed, Out, Into, Owing
<1> QED BY <1>1, GaugeSum

LEMMA StoredKept ==
  ASSUME UNCHANGED <<lanes, temp>>, \A v \in Workers : at'[v] = at[v] \/ temp[v] = <<>>,
         \A v \in Workers : /\ pc'[v] = "aging" <=> pc[v] = "aging"
                            /\ pc[v] = "aging" => at'[v] = at[v] /\ hold'[v] = hold[v]
  PROVE  \A l \in Lane : Stored(l)' = Stored(l)
<1> SUFFICES ASSUME NEW l \in Lane, NEW t PROVE StoredIn(t, l)' <=> StoredIn(t, l)
  BY StoredFacts
<1>1. \A v \in Workers : t \in RangeOf(temp[v]) => at'[v] = at[v]
  BY DEF RangeOf
<1>2. RangeOf(lanes[l])' = RangeOf(lanes[l]) /\ \A v \in Workers : RangeOf(temp[v])' = RangeOf(temp[v])
  BY DEF RangeOf
<1> QED BY <1>1, <1>2 DEF StoredIn

\* A step of a worker that moves no task the gauges count.
LEMMA QuietStep ==
  ASSUME GaugesTrackLanes, NEW w \in Workers, UNCHANGED <<lanes, temp, gauge, sub, base>>,
         pc[w] \notin Owing \cup {"aging"}, pc'[w] \notin Owing \cup {"aging"},
         at'[w] = at[w] \/ temp[w] = <<>>,
         \A v \in Workers : v # w => pc'[v] = pc[v] /\ at'[v] = at[v] /\ hold'[v] = hold[v]
  PROVE  GaugesTrackLanes'
<1>1. \A v \in Workers : /\ pc'[v] = "aging" <=> pc[v] = "aging"
                         /\ pc[v] = "aging" => at'[v] = at[v] /\ hold'[v] = hold[v]
                         /\ pc[v] \in Owing \/ pc'[v] \in Owing => pc'[v] = pc[v] /\ at'[v] = at[v]
                         /\ at'[v] = at[v] \/ temp[v] = <<>>
  OBVIOUS
<1>2. \A l \in Lane : Stored(l)' = Stored(l)
  BY <1>1, StoredKept
<1> QED BY <1>1, <1>2, GaugeKept

LEMMA InitGauges == Init => GaugesTrackLanes /\ ActiveGaugeExact /\ IsFiniteSet(Submitted)
<1> SUFFICES ASSUME Init PROVE GaugesTrackLanes /\ ActiveGaugeExact /\ IsFiniteSet(Submitted)
  OBVIOUS
<1>0. Cardinality({}) = 0 /\ IsFiniteSet({})
  BY FS_EmptySet
<1>1. \A l \in Lane : Stored(l) = {} /\ Pushed(l) = {} /\ Out(l) = {} /\ Into(l) = {} /\ gauge[l] = 0
  BY DEF Init, Stored, Pushed, Out, Into, RangeOf
<1>2. GaugesTrackLanes
  BY <1>0, <1>1, GaugeSum
<1>3. {t \in Tasks : sub[t] \in {"counted", "done"}} = {} /\ left = {} /\ active = 0 /\ Submitted = {}
  BY DEF Init, Submitted
<1>5. {w \in Workers : pc[w] \in {"dropped", "finished"}} = {}
  BY DEF Init
<1>4. ActiveGaugeExact
  BY <1>0, <1>3, <1>5 DEF ActiveGaugeExact
<1> QED BY <1>0, <1>2, <1>3, <1>4

\* Each action keeps gauges and queues as far apart as its own progress says.
LEMMA GaugeStep ==
  TypeOK /\ TypeOK' /\ WorkersFit /\ Carrying /\ AllLive /\ Alone /\ LaneIsPriority
    /\ IsFiniteSet(Submitted) /\ GaugesTrackLanes /\ [Next]_vars => GaugesTrackLanes'
<1> SUFFICES ASSUME TypeOK, TypeOK', WorkersFit, Carrying, AllLive, Alone, LaneIsPriority,
                    IsFiniteSet(Submitted), GaugesTrackLanes, [Next]_vars
             PROVE  GaugesTrackLanes'
  OBVIOUS
<1>q. /\ lanes \in [Lane -> Seq(Tasks)] /\ temp \in [Workers -> Seq(Tasks)]
      /\ base \in [Tasks -> Lane] /\ at \in [Workers -> Lane] /\ gauge \in [Lane -> Int]
      /\ pc \in [Workers -> Step] /\ hold \in [Workers -> Tasks \cup {NoTask}]
      /\ sub \in [Tasks -> {"new", "pushed", "gauged", "counted", "done"}]
  BY DEF TypeOK, LaneTypes, WorkerTypes, TaskTypes
<1>e. \A w \in Workers : pc[w] \notin {"drain", "aging", "promoted", "raised", "restore"} => temp[w] = <<>>
  BY DEF Carrying
<1>g. \A l \in Lane : gauge[l] = Cardinality(Stored(l)) - Cardinality(Pushed(l))
                                 + Cardinality(Out(l)) - Cardinality(Into(l))
  BY GaugeSum
<1>f. \A l \in Lane : /\ IsFiniteSet(Stored(l)) /\ Cardinality(Stored(l)) \in Nat
                      /\ IsFiniteSet(Pushed(l)) /\ Cardinality(Pushed(l)) \in Nat
                      /\ IsFiniteSet(Out(l)) /\ Cardinality(Out(l)) \in Nat
                      /\ IsFiniteSet(Into(l)) /\ Cardinality(Into(l)) \in Nat
  BY GaugeSetsFinite
<1> USE DEF shared, local
<1>1. ASSUME NEW t \in Tasks, NEW p \in Priorities, SubmitPush(t, p) PROVE GaugesTrackLanes'
  <2>0. p \in Lane /\ ~ Live(t) /\ t # NoTask
    BY <1>1, SchedulerAssumption DEF SubmitPush, Live
  <2>1. RangeOf(Append(lanes[p], t)) = RangeOf(lanes[p]) \cup {t}
    BY <1>q, <2>0, RangeFacts
  <2>2. \A l \in Lane : RangeOf(lanes'[l]) = IF l = p THEN RangeOf(lanes[l]) \cup {t} ELSE RangeOf(lanes[l])
    BY <1>1, <1>q, <2>1 DEF SubmitPush
  <2>3. /\ UNCHANGED <<temp, hold, pc, at, gauge>>
        /\ base'[t] = p /\ sub'[t] = "pushed" /\ sub[t] = "new"
        /\ \A u \in Tasks : u # t => base'[u] = base[u] /\ sub'[u] = sub[u]
    BY <1>1, <1>q DEF SubmitPush
  <2>4. \A l \in Lane : t \notin Stored(l) /\ t \notin Pushed(l)
    BY <2>0, <2>3, Apart, StoredFacts DEF StoredIn, Pushed, AllLive
  <2>5. \A l \in Lane : Stored(l)' = IF l = p THEN Stored(l) \cup {t} ELSE Stored(l)
    <3> SUFFICES ASSUME NEW l \in Lane
                 PROVE  Stored(l)' = IF l = p THEN Stored(l) \cup {t} ELSE Stored(l)
      OBVIOUS
    <3> SUFFICES ASSUME NEW u PROVE u \in Stored(l)' <=> u \in (IF l = p THEN Stored(l) \cup {t} ELSE Stored(l))
      OBVIOUS
    <3>s. (u \in Stored(l) <=> StoredIn(u, l)) /\ (u \in Stored(l)' <=> StoredIn(u, l)')
      BY StoredFacts
    <3> SUFFICES StoredIn(u, l)' <=> StoredIn(u, l) \/ (l = p /\ u = t)
      BY <3>s
    <3>1. u \in RangeOf(lanes'[l]) <=> u \in RangeOf(lanes[l]) \/ (l = p /\ u = t)
      BY <2>2
    <3>2. (\E v \in Workers : at'[v] = l /\ u \in RangeOf(temp'[v]))
            <=> (\E v \in Workers : at[v] = l /\ u \in RangeOf(temp[v]))
      BY <2>3
    <3>3. (\E v \in Workers : pc'[v] = "aging" /\ at'[v] = l /\ hold'[v] = u)
            <=> (\E v \in Workers : pc[v] = "aging" /\ at[v] = l /\ hold[v] = u)
      BY <2>3
    <3> QED BY <3>1, <3>2, <3>3 DEF StoredIn
  <2>6. \A l \in Lane : /\ Pushed(l)' = IF l = p THEN Pushed(l) \cup {t} ELSE Pushed(l)
                        /\ Out(l)' = Out(l) /\ Into(l)' = Into(l)
    BY <2>3 DEF Pushed, Out, Into
  <2>7. ASSUME NEW l \in Lane
        PROVE  gauge'[l] = Cardinality(Stored(l)') - Cardinality(Pushed(l)')
                           + Cardinality(Out(l)') - Cardinality(Into(l)')
    <3>0. /\ gauge[l] = Cardinality(Stored(l)) - Cardinality(Pushed(l)) + Cardinality(Out(l)) - Cardinality(Into(l))
          /\ Cardinality(Stored(l)) \in Nat /\ Cardinality(Pushed(l)) \in Nat
          /\ Cardinality(Out(l)) \in Nat /\ Cardinality(Into(l)) \in Nat
      BY <1>f, <1>g
    <3>1. CASE l = p
      <4>1. Cardinality(Stored(l) \cup {t}) = Cardinality(Stored(l)) + 1
        BY <1>f, <2>4, FS_AddElement
      <4>2. Cardinality(Pushed(l) \cup {t}) = Cardinality(Pushed(l)) + 1
        BY <1>f, <2>4, FS_AddElement
      <4>8. /\ gauge'[l] = gauge[l] /\ Cardinality(Stored(l)') = Cardinality(Stored(l)) + 1
            /\ Cardinality(Pushed(l)') = Cardinality(Pushed(l)) + 1
            /\ Cardinality(Out(l)') = Cardinality(Out(l))
            /\ Cardinality(Into(l)') = Cardinality(Into(l))
        BY <2>3, <2>5, <2>6, <3>1, <4>1, <4>2
      <4> QED BY <3>0, <4>8
    <3>2. CASE l # p
      BY <1>g, <2>3, <2>5, <2>6, <3>2
    <3> QED BY <3>1, <3>2
  <2> QED BY <2>7, GaugeSum
<1>1a. ASSUME NEW t \in Tasks, SubmitGauge(t) PROVE GaugesTrackLanes'
  <2> DEFINE b == base[t]
  <2>1. /\ b \in Lane /\ UNCHANGED <<lanes, temp, hold, pc, at, base>>
        /\ sub[t] = "pushed" /\ sub'[t] = "gauged" /\ \A u \in Tasks : u # t => sub'[u] = sub[u]
        /\ \A l \in Lane : gauge'[l] = IF l = b THEN gauge[l] + 1 ELSE gauge[l]
    BY <1>1a, <1>q DEF SubmitGauge
  <2>2. \A l \in Lane : Stored(l)' = Stored(l)
    BY <2>1, StoredKept
  <2>3. \A l \in Lane : /\ Pushed(l)' = IF l = b THEN Pushed(l) \ {t} ELSE Pushed(l)
                        /\ Out(l)' = Out(l) /\ Into(l)' = Into(l)
    BY <2>1 DEF Pushed, Out, Into
  <2>4. t \in Pushed(b)
    BY <2>1 DEF Pushed
  <2> HIDE DEF b
  <2>7. ASSUME NEW l \in Lane
        PROVE  gauge'[l] = Cardinality(Stored(l)') - Cardinality(Pushed(l)')
                           + Cardinality(Out(l)') - Cardinality(Into(l)')
    <3>0. /\ gauge[l] = Cardinality(Stored(l)) - Cardinality(Pushed(l)) + Cardinality(Out(l)) - Cardinality(Into(l))
          /\ Cardinality(Stored(l)) \in Nat /\ Cardinality(Pushed(l)) \in Nat
          /\ Cardinality(Out(l)) \in Nat /\ Cardinality(Into(l)) \in Nat
      BY <1>f, <1>g
    <3>1. CASE l = b
      <4>1. Cardinality(Pushed(l) \ {t}) = Cardinality(Pushed(l)) - 1
        BY <1>f, <2>4, <3>1, FS_RemoveElement
      <4>8. /\ gauge'[l] = gauge[l] + 1 /\ Cardinality(Stored(l)') = Cardinality(Stored(l))
            /\ Cardinality(Pushed(l)') = Cardinality(Pushed(l)) - 1
            /\ Cardinality(Out(l)') = Cardinality(Out(l))
            /\ Cardinality(Into(l)') = Cardinality(Into(l))
        BY <2>1, <2>2, <2>3, <3>1, <4>1
      <4> QED BY <3>0, <4>8
    <3>2. CASE l # b
      BY <1>g, <2>1, <2>2, <2>3, <3>2
    <3> QED BY <3>1, <3>2
  <2> QED BY <2>7, GaugeSum
<1>2. ASSUME NEW t \in Tasks, SubmitCount(t) PROVE GaugesTrackLanes'
  <2>1. /\ UNCHANGED <<lanes, temp, hold, at, base, gauge, pc>>
        /\ \A u \in Tasks : sub'[u] = "pushed" <=> sub[u] = "pushed"
    BY <1>2, <1>q DEF SubmitCount
  <2>2. \A l \in Lane : Stored(l)' = Stored(l)
    BY <2>1, StoredKept
  <2> QED BY <2>1, <2>2, GaugeKept
<1>3. ASSUME NEW t \in Tasks, SubmitNotify(t) PROVE GaugesTrackLanes'
  <2>1. UNCHANGED <<lanes, temp, hold, at, base, gauge>> /\ \A u \in Tasks : sub'[u] = "pushed" <=> sub[u] = "pushed"
    BY <1>3, <1>q DEF SubmitNotify
  <2>2. \A v \in Workers : /\ pc'[v] = "aging" <=> pc[v] = "aging"
                           /\ pc[v] \in Owing \/ pc'[v] \in Owing => pc'[v] = pc[v]
    BY <1>3, <1>q DEF SubmitNotify, NotifyOne, Owing
  <2>3. \A l \in Lane : Stored(l)' = Stored(l)
    BY <2>1, <2>2, StoredKept
  <2> QED BY <2>1, <2>2, <2>3, GaugeKept
<1>4. ASSUME UNCHANGED <<lanes, temp, hold, pc, at, base, gauge, sub>> PROVE GaugesTrackLanes'
  BY <1>4, StoredKept, GaugeKept
<1>5. ASSUME NEW t \in Tasks, Cancel(t) PROVE GaugesTrackLanes'
  BY <1>4, <1>5 DEF Cancel
<1>6. ASSUME NEW w \in Workers, StartPromotion(w) PROVE GaugesTrackLanes'
  BY <1>6, <1>q, <1>e, QuietStep DEF Owing, StartPromotion
<1>7. ASSUME NEW w \in Workers, DrainPop(w) PROVE GaugesTrackLanes'
  <2> DEFINE k == at[w]
             h == Head(lanes[k])
  <2>1. k \in Lane /\ RangeOf(lanes[k]) = RangeOf(Tail(lanes[k])) \cup {h}
    BY <1>7, <1>q, RangeFacts DEF DrainPop, PopLane
  <2>2. \A l \in Lane : RangeOf(lanes'[l]) = IF l = k THEN RangeOf(Tail(lanes[l])) ELSE RangeOf(lanes[l])
    BY <1>7, <1>q DEF DrainPop, PopLane
  <2>3. /\ UNCHANGED <<temp, at, gauge, sub, base>> /\ pc'[w] = "aging" /\ hold'[w] = h /\ pc[w] = "drain"
        /\ \A v \in Workers : v # w => pc'[v] = pc[v] /\ hold'[v] = hold[v]
    BY <1>7, <1>q DEF DrainPop, PopLane
  <2>4. \A l \in Lane : Stored(l)' = Stored(l)
    <3> SUFFICES ASSUME NEW l \in Lane, NEW u PROVE StoredIn(u, l)' <=> StoredIn(u, l)
      BY StoredFacts
    <3> HIDE DEF h
    <3>1. u \in RangeOf(lanes[l]) <=> u \in RangeOf(lanes'[l]) \/ (l = k /\ u = h)
      BY <2>1, <2>2
    <3>2. (\E v \in Workers : at[v] = l /\ u \in RangeOf(temp[v]))
            <=> (\E v \in Workers : at'[v] = l /\ u \in RangeOf(temp'[v]))
      BY <2>3
    <3>3. (\E v \in Workers : pc'[v] = "aging" /\ at'[v] = l /\ hold'[v] = u)
            <=> (\E v \in Workers : pc[v] = "aging" /\ at[v] = l /\ hold[v] = u) \/ (l = k /\ u = h)
      BY <2>3
    <3> QED BY <3>1, <3>2, <3>3 DEF StoredIn
  <2> QED BY <2>3, <2>4, GaugeKept DEF Owing
<1>8. ASSUME NEW w \in Workers, PromoteTask(w) PROVE GaugesTrackLanes'
  <2>0. PICK t \in Tasks : t = hold[w]
    BY <1>8 DEF PromoteTask, WorkersFit, WorkerFits
  <2>1. PICK k \in Lane : k = at[w]
    BY <1>q
  <2>2. PICK up \in Lane : up = Promote(k)
    BY LaneFacts
  <2>3. prio[t] = k /\ up # k /\ t # NoTask
    <3>1. pc[w] = "aging"
      BY <1>8 DEF PromoteTask
    <3>2. prio[t] = k /\ k > 0
      BY <3>1, <2>0, <2>1 DEF LaneIsPriority, WorkersFit, WorkerFits
    <3>3. up = k - 1 /\ k \in Int
      BY <2>1, <2>2, <3>2, SchedulerAssumption DEF Promote, Lane
    <3> QED BY <3>2, <3>3, SchedulerAssumption
  <2>4. RangeOf(Append(lanes[up], t)) = RangeOf(lanes[up]) \cup {t}
    BY <1>q, RangeFacts
  <2>4a. lanes' = [lanes EXCEPT ![up] = Append(@, t)]
    BY <1>8, <2>0, <2>2, <2>3 DEF PromoteTask
  <2>5. \A l \in Lane : RangeOf(lanes'[l]) = IF l = up THEN RangeOf(lanes[l]) \cup {t} ELSE RangeOf(lanes[l])
    <3>1. \A l \in Lane : lanes'[l] = IF l = up THEN Append(lanes[up], t) ELSE lanes[l]
      BY <1>q, <2>4a
    <3> QED BY <2>4, <3>1
  <2>6. /\ UNCHANGED <<temp, at, gauge, sub, base>> /\ pc'[w] = "promoted" /\ pc[w] = "aging"
        /\ hold'[w] = NoTask /\ \A v \in Workers : v # w => pc'[v] = pc[v] /\ hold'[v] = hold[v] /\ hold[v] # t
    BY <1>8, <1>q, <2>0, <2>3 DEF PromoteTask, Alone
  <2>7. /\ \A l \in Lane : t \notin RangeOf(lanes[l])
        /\ \A v \in Workers : t \notin RangeOf(temp[v])
    <3>1. \A l \in Lane : t \notin RangeOf(lanes[l])
      BY <2>0, Apart
    <3>2. \A v \in Workers : t \notin RangeOf(temp[v])
      BY <2>0, Apart
    <3> QED BY <3>1, <3>2
  <2>8. \A l \in Lane : Stored(l)' = IF l = up THEN Stored(l) \cup {t} ELSE Stored(l) \ {t}
    <3> SUFFICES ASSUME NEW l \in Lane
                 PROVE  Stored(l)' = IF l = up THEN Stored(l) \cup {t} ELSE Stored(l) \ {t}
      OBVIOUS
    <3> SUFFICES ASSUME NEW u PROVE u \in Stored(l)' <=> u \in (IF l = up THEN Stored(l) \cup {t} ELSE Stored(l) \ {t})
      OBVIOUS
    <3>s. (u \in Stored(l) <=> StoredIn(u, l)) /\ (u \in Stored(l)' <=> StoredIn(u, l)')
      BY StoredFacts
    <3> SUFFICES StoredIn(u, l)' <=> (l = up /\ u = t) \/ (StoredIn(u, l) /\ (l = up \/ u # t))
      BY <3>s
    <3>1. CASE u # t
      <4>1. u \in RangeOf(lanes'[l]) <=> u \in RangeOf(lanes[l])
        BY <2>5, <3>1
      <4>2. (\E v \in Workers : at[v] = l /\ u \in RangeOf(temp[v]))
              <=> (\E v \in Workers : at'[v] = l /\ u \in RangeOf(temp'[v]))
        BY <2>6
      <4>3. (\E v \in Workers : pc'[v] = "aging" /\ at'[v] = l /\ hold'[v] = u)
              <=> (\E v \in Workers : pc[v] = "aging" /\ at[v] = l /\ hold[v] = u)
        BY <2>6, <2>0, <3>1
      <4> QED BY <3>1, <4>1, <4>2, <4>3 DEF StoredIn
    <3>2. CASE u = t
      <4>1. t \in RangeOf(lanes'[l]) <=> l = up
        BY <2>5, <2>7
      <4>2. ~ \E v \in Workers : at'[v] = l /\ t \in RangeOf(temp'[v])
        BY <2>6, <2>7
      <4>3. ~ \E v \in Workers : pc'[v] = "aging" /\ at'[v] = l /\ hold'[v] = t
        BY <2>6
      <4> QED BY <3>2, <4>1, <4>2, <4>3 DEF StoredIn
    <3> QED BY <3>1, <3>2
  <2>9. \A l \in Lane : t \in Stored(l) <=> l = k
    <3> SUFFICES ASSUME NEW l \in Lane PROVE StoredIn(t, l) <=> l = k
      BY StoredFacts
    <3> QED BY <2>0, <2>1, <2>6, <2>7 DEF StoredIn
  <2>10. \A l \in Lane : /\ Pushed(l)' = Pushed(l)
                         /\ Out(l)' = IF l = k THEN Out(l) \cup {w} ELSE Out(l)
                         /\ Into(l)' = IF l = up THEN Into(l) \cup {w} ELSE Into(l)
                         /\ w \notin Out(l) /\ w \notin Into(l)
    BY <2>1, <2>2, <2>6 DEF Pushed, Out, Into
  <2>11. ASSUME NEW l \in Lane
         PROVE  gauge'[l] = Cardinality(Stored(l)') - Cardinality(Pushed(l)')
                            + Cardinality(Out(l)') - Cardinality(Into(l)')
    <3>0. /\ gauge[l] = Cardinality(Stored(l)) - Cardinality(Pushed(l)) + Cardinality(Out(l)) - Cardinality(Into(l))
          /\ Cardinality(Stored(l)) \in Nat /\ Cardinality(Pushed(l)) \in Nat
          /\ Cardinality(Out(l)) \in Nat /\ Cardinality(Into(l)) \in Nat
      BY <1>f, <1>g
    <3>1. CASE l = up
      <4>1. Cardinality(Stored(l) \cup {t}) = Cardinality(Stored(l)) + 1
        BY <1>f, <2>3, <2>9, <3>1, FS_AddElement
      <4>2. Cardinality(Into(l) \cup {w}) = Cardinality(Into(l)) + 1
        BY <1>f, <2>10, FS_AddElement
      <4>8. /\ gauge'[l] = gauge[l] /\ Cardinality(Stored(l)') = Cardinality(Stored(l)) + 1
            /\ Cardinality(Pushed(l)') = Cardinality(Pushed(l))
            /\ Cardinality(Out(l)') = Cardinality(Out(l))
            /\ Cardinality(Into(l)') = Cardinality(Into(l)) + 1
        BY <2>3, <2>6, <2>8, <2>10, <3>1, <4>1, <4>2
      <4> QED BY <3>0, <4>8
    <3>2. CASE l = k
      <4>1. Cardinality(Stored(l) \ {t}) = Cardinality(Stored(l)) - 1
        BY <1>f, <2>9, <3>2, FS_RemoveElement
      <4>2. Cardinality(Out(l) \cup {w}) = Cardinality(Out(l)) + 1
        BY <1>f, <2>10, FS_AddElement
      <4>8. /\ gauge'[l] = gauge[l] /\ Cardinality(Stored(l)') = Cardinality(Stored(l)) - 1
            /\ Cardinality(Pushed(l)') = Cardinality(Pushed(l))
            /\ Cardinality(Out(l)') = Cardinality(Out(l)) + 1
            /\ Cardinality(Into(l)') = Cardinality(Into(l))
        BY <2>3, <2>6, <2>8, <2>10, <3>2, <4>1, <4>2
      <4> QED BY <3>0, <4>8
    <3>3. CASE l # up /\ l # k
      <4>1. Stored(l) \ {t} = Stored(l)
        BY <2>9, <3>3
      <4> QED BY <1>g, <2>6, <2>8, <2>10, <3>3, <4>1
    <3> QED BY <3>1, <3>2, <3>3
  <2> QED BY <2>11, GaugeSum
<1>o. ASSUME NEW w \in Workers, PromoteUncount(w) \/ ScanUncount(w) PROVE GaugesTrackLanes'
  <2>0. PICK k \in Lane : k = at[w]
    BY <1>q
  <2>1. /\ k = at[w] /\ UNCHANGED <<lanes, temp, at, hold, sub, base>>
        /\ \/ pc[w] = "promoted" /\ pc'[w] = "raised"
           \/ pc[w] = "popped" /\ pc'[w] = "judge"
        /\ \A v \in Workers : v # w => pc'[v] = pc[v]
        /\ \A l \in Lane : gauge'[l] = IF l = k THEN gauge[l] - 1 ELSE gauge[l]
    BY <1>o, <1>q, <2>0 DEF PromoteUncount, ScanUncount
  <2>2. \A l \in Lane : Stored(l)' = Stored(l)
    BY <2>1, StoredKept
  <2>3. \A l \in Lane : /\ Pushed(l)' = Pushed(l) /\ Into(l)' = Into(l)
                        /\ Out(l)' = IF l = k THEN Out(l) \ {w} ELSE Out(l)
                        /\ l = k => w \in Out(l)
    BY <2>1 DEF Pushed, Out, Into
  <2>4. ASSUME NEW l \in Lane
        PROVE  gauge'[l] = Cardinality(Stored(l)') - Cardinality(Pushed(l)')
                           + Cardinality(Out(l)') - Cardinality(Into(l)')
    <3>0. /\ gauge[l] = Cardinality(Stored(l)) - Cardinality(Pushed(l)) + Cardinality(Out(l)) - Cardinality(Into(l))
          /\ Cardinality(Stored(l)) \in Nat /\ Cardinality(Pushed(l)) \in Nat
          /\ Cardinality(Out(l)) \in Nat /\ Cardinality(Into(l)) \in Nat
      BY <1>f, <1>g
    <3>1. CASE l = k
      <4>1. Cardinality(Out(l) \ {w}) = Cardinality(Out(l)) - 1
        BY <1>f, <2>3, <3>1, FS_RemoveElement
      <4>2. /\ gauge'[l] = gauge[l] - 1 /\ Cardinality(Stored(l)') = Cardinality(Stored(l))
            /\ Cardinality(Pushed(l)') = Cardinality(Pushed(l))
            /\ Cardinality(Into(l)') = Cardinality(Into(l))
            /\ Cardinality(Out(l)') = Cardinality(Out(l)) - 1
        BY <2>1, <2>2, <2>3, <3>1, <4>1
      <4> QED BY <3>0, <4>2
    <3>2. CASE l # k
      BY <1>g, <2>1, <2>2, <2>3, <3>2
    <3> QED BY <3>1, <3>2
  <2> QED BY <2>4, GaugeSum
<1>9. ASSUME NEW w \in Workers, PromoteCount(w) PROVE GaugesTrackLanes'
  <2>0. PICK k \in Lane : k = Promote(at[w])
    BY <1>q, LaneFacts
  <2>1. /\ k = Promote(at[w]) /\ UNCHANGED <<lanes, temp, at, hold, sub, base>>
        /\ pc[w] = "raised" /\ pc'[w] = "drain"
        /\ \A v \in Workers : v # w => pc'[v] = pc[v]
        /\ \A l \in Lane : gauge'[l] = IF l = k THEN gauge[l] + 1 ELSE gauge[l]
    BY <1>9, <1>q, <2>0 DEF PromoteCount
  <2>2. \A l \in Lane : Stored(l)' = Stored(l)
    BY <2>1, StoredKept
  <2>3. \A l \in Lane : /\ Pushed(l)' = Pushed(l) /\ Out(l)' = Out(l)
                        /\ Into(l)' = IF l = k THEN Into(l) \ {w} ELSE Into(l)
                        /\ l = k => w \in Into(l)
    BY <2>1 DEF Pushed, Out, Into
  <2>4. ASSUME NEW l \in Lane
        PROVE  gauge'[l] = Cardinality(Stored(l)') - Cardinality(Pushed(l)')
                           + Cardinality(Out(l)') - Cardinality(Into(l)')
    <3>0. /\ gauge[l] = Cardinality(Stored(l)) - Cardinality(Pushed(l)) + Cardinality(Out(l)) - Cardinality(Into(l))
          /\ Cardinality(Stored(l)) \in Nat /\ Cardinality(Pushed(l)) \in Nat
          /\ Cardinality(Out(l)) \in Nat /\ Cardinality(Into(l)) \in Nat
      BY <1>f, <1>g
    <3>1. CASE l = k
      <4>1. Cardinality(Into(l) \ {w}) = Cardinality(Into(l)) - 1
        BY <1>f, <2>3, <3>1, FS_RemoveElement
      <4>2. /\ gauge'[l] = gauge[l] + 1 /\ Cardinality(Stored(l)') = Cardinality(Stored(l))
            /\ Cardinality(Pushed(l)') = Cardinality(Pushed(l))
            /\ Cardinality(Out(l)') = Cardinality(Out(l))
            /\ Cardinality(Into(l)') = Cardinality(Into(l)) - 1
        BY <2>1, <2>2, <2>3, <3>1, <4>1
      <4> QED BY <3>0, <4>2
    <3>2. CASE l # k
      BY <1>g, <2>1, <2>2, <2>3, <3>2
    <3> QED BY <3>1, <3>2
  <2> QED BY <2>4, GaugeSum
<1>10. ASSUME NEW w \in Workers, KeepTask(w) PROVE GaugesTrackLanes'
  <2>1. hold[w] \in Tasks /\ RangeOf(Append(temp[w], hold[w])) = RangeOf(temp[w]) \cup {hold[w]}
    BY <1>10, <1>q, RangeFacts DEF KeepTask, WorkersFit, WorkerFits
  <2>2. /\ UNCHANGED <<lanes, at, gauge, sub, base>> /\ pc'[w] = "drain" /\ pc[w] = "aging"
        /\ RangeOf(temp'[w]) = RangeOf(temp[w]) \cup {hold[w]}
        /\ \A v \in Workers : v # w => pc'[v] = pc[v] /\ hold'[v] = hold[v] /\ temp'[v] = temp[v]
    BY <1>10, <1>q, <2>1 DEF KeepTask
  <2>3. \A l \in Lane : Stored(l)' = Stored(l)
    <3> SUFFICES ASSUME NEW l \in Lane, NEW u PROVE StoredIn(u, l)' <=> StoredIn(u, l)
      BY StoredFacts
    <3>1. (\E v \in Workers : at'[v] = l /\ u \in RangeOf(temp'[v]))
            <=> (\E v \in Workers : at[v] = l /\ u \in RangeOf(temp[v])) \/ (at[w] = l /\ u = hold[w])
      BY <2>2
    <3>2. (\E v \in Workers : pc[v] = "aging" /\ at[v] = l /\ hold[v] = u)
            <=> (\E v \in Workers : pc'[v] = "aging" /\ at'[v] = l /\ hold'[v] = u) \/ (at[w] = l /\ u = hold[w])
      BY <2>2
    <3> QED BY <2>2, <3>1, <3>2 DEF StoredIn
  <2> QED BY <2>2, <2>3, GaugeKept DEF Owing
<1>11. ASSUME NEW w \in Workers, DrainEmpty(w) PROVE GaugesTrackLanes'
  BY <1>11, <1>q, QuietStep DEF Owing, DrainEmpty, LeaveLane
<1>12. ASSUME NEW w \in Workers, RestoreTask(w) PROVE GaugesTrackLanes'
  <2>0. temp[w] # <<>> /\ temp[w] \in Seq(Tasks) /\ at[w] \in Lane
    BY <1>12, <1>q DEF RestoreTask, WorkersFit, WorkerFits
  <2>1. PICK t \in Tasks : t = Head(temp[w])
    BY <2>0, QueueFacts
  <2>2. PICK k \in Lane : k = at[w]
    BY <2>0
  <2>3. RangeOf(Append(lanes[k], t)) = RangeOf(lanes[k]) \cup {t} /\ RangeOf(temp[w]) = RangeOf(Tail(temp[w])) \cup {t}
    BY <1>q, <2>0, <2>1, RangeFacts
  <2>4. /\ UNCHANGED <<gauge, sub, base, hold>> /\ pc[w] = "restore" /\ pc'[w] \notin Owing \cup {"aging"}
        /\ \A v \in Workers : v # w => pc'[v] = pc[v] /\ at'[v] = at[v] /\ temp'[v] = temp[v]
        /\ RangeOf(temp[w]) = RangeOf(temp'[w]) \cup {t}
        /\ \A l \in Lane : RangeOf(lanes'[l]) = IF l = k THEN RangeOf(lanes[l]) \cup {t} ELSE RangeOf(lanes[l])
    BY <1>12, <1>q, <2>1, <2>2, <2>3 DEF RestoreTask, LeaveLane, Owing
  <2>5. at'[w] = k \/ RangeOf(temp'[w]) = {}
    <3>1. CASE UNCHANGED at
      BY <2>2, <3>1
    <3>2. CASE Len(temp[w]) = 1
      <4>1. temp'[w] = <<>>
        BY <1>12, <1>q, <3>2, LastTaken DEF RestoreTask
      <4> QED BY <4>1 DEF RangeOf
    <3> QED BY <1>12, <3>1, <3>2 DEF RestoreTask
  <2>6. \A l \in Lane : Stored(l)' = Stored(l)
    <3> SUFFICES ASSUME NEW l \in Lane, NEW u PROVE StoredIn(u, l)' <=> StoredIn(u, l)
      BY StoredFacts
    <3>1. u \in RangeOf(lanes'[l]) <=> u \in RangeOf(lanes[l]) \/ (l = k /\ u = t)
      BY <2>4
    <3>2. (\E v \in Workers : at[v] = l /\ u \in RangeOf(temp[v]))
            <=> (\E v \in Workers : at'[v] = l /\ u \in RangeOf(temp'[v])) \/ (l = k /\ u = t)
      BY <2>2, <2>4, <2>5
    <3>3. (\E v \in Workers : pc'[v] = "aging" /\ at'[v] = l /\ hold'[v] = u)
            <=> (\E v \in Workers : pc[v] = "aging" /\ at[v] = l /\ hold[v] = u)
      BY <2>4
    <3> QED BY <3>1, <3>2, <3>3 DEF StoredIn
  <2>7. \A v \in Workers : pc[v] \in Owing \/ pc'[v] \in Owing => pc'[v] = pc[v] /\ at'[v] = at[v]
    BY <2>4 DEF Owing
  <2> QED BY <2>4, <2>6, <2>7, GaugeKept
<1>13. ASSUME NEW w \in Workers, QuotaLeft(w) PROVE GaugesTrackLanes'
  BY <1>13, <1>q, QuietStep DEF Owing, QuotaLeft
<1>14. ASSUME NEW w \in Workers, QuotaUsed(w) PROVE GaugesTrackLanes'
  BY <1>14, <1>q, <1>e, QuietStep DEF Owing, QuotaUsed, NextLane
<1>15. ASSUME NEW w \in Workers, ScanEmpty(w) PROVE GaugesTrackLanes'
  BY <1>15, <1>q, <1>e, QuietStep DEF Owing, ScanEmpty, NextLane
<1>16. ASSUME NEW w \in Workers, ScanPop(w) PROVE GaugesTrackLanes'
  <2>1. PICK k \in Lane : k = at[w]
    BY <1>q
  <2>2. lanes[k] # <<>> /\ lanes[k] \in Seq(Tasks)
    BY <1>16, <1>q, <2>1 DEF ScanPop, PopLane
  <2>3. PICK t \in Tasks : t = Head(lanes[k])
    BY <2>2, QueueFacts
  <2>4. RangeOf(lanes[k]) = RangeOf(Tail(lanes[k])) \cup {t} /\ t \notin RangeOf(Tail(lanes[k]))
    BY <2>2, <2>3, RangeFacts, Apart
  <2>5. /\ UNCHANGED <<temp, at, sub, base>> /\ pc'[w] = "popped" /\ pc[w] = "pop"
        /\ \A v \in Workers : v # w => pc'[v] = pc[v] /\ hold'[v] = hold[v]
        /\ \A l \in Lane : RangeOf(lanes'[l]) = IF l = k THEN RangeOf(lanes[l]) \ {t} ELSE RangeOf(lanes[l])
        /\ gauge' = gauge
    <3>1. Tail(lanes[k]) = lanes'[k]
      BY <1>16, <1>q, <2>1 DEF ScanPop, PopLane
    <3>2. RangeOf(lanes'[k]) = RangeOf(lanes[k]) \ {t}
      BY <2>4, <3>1
    <3> QED BY <1>16, <1>q, <2>1, <3>2 DEF ScanPop, PopLane
  <2>6. /\ \A l \in Lane : t \in RangeOf(lanes[l]) <=> l = k
        /\ \A v \in Workers : t \notin RangeOf(temp[v]) /\ hold[v] # t
    BY <2>4, Apart
  <2>7. \A l \in Lane : Stored(l)' = IF l = k THEN Stored(l) \ {t} ELSE Stored(l)
    <3> SUFFICES ASSUME NEW l \in Lane
                 PROVE  Stored(l)' = IF l = k THEN Stored(l) \ {t} ELSE Stored(l)
      OBVIOUS
    <3> SUFFICES ASSUME NEW u PROVE u \in Stored(l)' <=> u \in (IF l = k THEN Stored(l) \ {t} ELSE Stored(l))
      OBVIOUS
    <3>s. (u \in Stored(l) <=> StoredIn(u, l)) /\ (u \in Stored(l)' <=> StoredIn(u, l)')
      BY StoredFacts
    <3> SUFFICES StoredIn(u, l)' <=> StoredIn(u, l) /\ ~ (l = k /\ u = t)
      BY <3>s
    <3>0. RangeOf(lanes'[l]) = IF l = k THEN RangeOf(lanes[l]) \ {t} ELSE RangeOf(lanes[l])
      BY <2>5
    <3>1. u \in RangeOf(lanes'[l]) <=> u \in RangeOf(lanes[l]) /\ ~ (l = k /\ u = t)
      BY <3>0
    <3>2. (\E v \in Workers : at'[v] = l /\ u \in RangeOf(temp'[v]))
            <=> (\E v \in Workers : at[v] = l /\ u \in RangeOf(temp[v]))
      BY <2>5
    <3>3. (\E v \in Workers : pc'[v] = "aging" /\ at'[v] = l /\ hold'[v] = u)
            <=> (\E v \in Workers : pc[v] = "aging" /\ at[v] = l /\ hold[v] = u)
      BY <2>5
    <3> QED BY <2>6, <3>1, <3>2, <3>3 DEF StoredIn
  <2>8. \A l \in Lane : /\ Pushed(l)' = Pushed(l) /\ Into(l)' = Into(l)
                        /\ Out(l)' = IF l = k THEN Out(l) \cup {w} ELSE Out(l)
                        /\ w \notin Out(l)
    BY <2>1, <2>5 DEF Pushed, Out, Into
  <2>9. t \in Stored(k)
    BY <2>6, StoredFacts DEF StoredIn
  <2>10. ASSUME NEW l \in Lane
         PROVE  gauge'[l] = Cardinality(Stored(l)') - Cardinality(Pushed(l)')
                            + Cardinality(Out(l)') - Cardinality(Into(l)')
    <3>0. /\ gauge[l] = Cardinality(Stored(l)) - Cardinality(Pushed(l)) + Cardinality(Out(l)) - Cardinality(Into(l))
          /\ Cardinality(Stored(l)) \in Nat /\ Cardinality(Pushed(l)) \in Nat
          /\ Cardinality(Out(l)) \in Nat /\ Cardinality(Into(l)) \in Nat
      BY <1>f, <1>g
    <3>1. CASE l = k
      <4>1. Cardinality(Stored(l) \ {t}) = Cardinality(Stored(l)) - 1
        BY <1>f, <2>9, <3>1, FS_RemoveElement
      <4>2. Cardinality(Out(l) \cup {w}) = Cardinality(Out(l)) + 1
        BY <1>f, <2>8, FS_AddElement
      <4>8. /\ gauge'[l] = gauge[l] /\ Cardinality(Stored(l)') = Cardinality(Stored(l)) - 1
            /\ Cardinality(Pushed(l)') = Cardinality(Pushed(l))
            /\ Cardinality(Out(l)') = Cardinality(Out(l)) + 1
            /\ Cardinality(Into(l)') = Cardinality(Into(l))
        BY <2>5, <2>7, <2>8, <3>1, <4>1, <4>2
      <4> QED BY <3>0, <4>8
    <3>2. CASE l # k
      BY <1>g, <2>5, <2>7, <2>8, <3>2
    <3> QED BY <3>1, <3>2
  <2> QED BY <2>10, GaugeSum
<1>17. ASSUME NEW w \in Workers, DropCancelled(w) PROVE GaugesTrackLanes'
  BY <1>17, <1>q, <1>e, QuietStep DEF Owing, DropCancelled
<1>17a. ASSUME NEW w \in Workers, DropUncount(w) PROVE GaugesTrackLanes'
  BY <1>17a, <1>q, <1>e, QuietStep DEF Owing, DropUncount
<1>17b. ASSUME NEW w \in Workers, TakeTask(w) PROVE GaugesTrackLanes'
  BY <1>17b, <1>q, <1>e, QuietStep DEF Owing, TakeTask
<1>18. ASSUME NEW w \in Workers, ChargeLane(w) PROVE GaugesTrackLanes'
  BY <1>18, <1>q, <1>e, QuietStep DEF Owing, ChargeLane
<1>19. ASSUME NEW w \in Workers, ResetLane(w) PROVE GaugesTrackLanes'
  BY <1>19, <1>q, <1>e, QuietStep DEF Owing, ResetLane
<1>20. ASSUME NEW w \in Workers, Park(w) PROVE GaugesTrackLanes'
  BY <1>20, <1>q, QuietStep DEF Owing, Park
<1>21. ASSUME NEW w \in Workers, FinishTask(w) PROVE GaugesTrackLanes'
  BY <1>21, <1>q, <1>e, QuietStep DEF Owing, FinishTask
<1>21a. ASSUME NEW w \in Workers, FinishUncount(w) PROVE GaugesTrackLanes'
  BY <1>21a, <1>q, <1>e, QuietStep DEF Owing, FinishUncount
<1>22. CASE Tick
  BY <1>4, <1>22 DEF Tick
<1>23. CASE UNCHANGED vars
  BY <1>4, <1>23 DEF vars
<1> QED
  BY <1>1, <1>1a, <1>2, <1>3, <1>5, <1>6, <1>7, <1>8, <1>o, <1>9, <1>10, <1>11, <1>12,
     <1>13, <1>14, <1>15, <1>16, <1>17, <1>17a, <1>17b, <1>18, <1>19, <1>20, <1>21, <1>21a,
     <1>22, <1>23
     DEF Next, SubmitRest, Worker, Promotion, Scan

\* The active gauge follows the second half of submit() and the two ways out.
LEMMA ActiveStep ==
  TypeOK /\ WorkersFit /\ AllLive /\ LeftCame /\ IsFiniteSet(Submitted) /\ ActiveGaugeExact /\ [Next]_vars
    => ActiveGaugeExact'
<1> SUFFICES ASSUME TypeOK, WorkersFit, AllLive, LeftCame, IsFiniteSet(Submitted), ActiveGaugeExact, [Next]_vars
             PROVE  ActiveGaugeExact'
  OBVIOUS
<1> DEFINE C == {t \in Tasks : sub[t] \in {"counted", "done"}}
           L == {w \in Workers : pc[w] \in {"dropped", "finished"}}
<1>0. /\ IsFiniteSet(C) /\ Cardinality(C) \in Nat
      /\ IsFiniteSet(left) /\ Cardinality(left) \in Nat
      /\ IsFiniteSet(L) /\ Cardinality(L) \in Nat
      /\ active = Cardinality(C) - Cardinality(left) + Cardinality(L)
  <2>1. C \subseteq Submitted /\ left \subseteq Submitted /\ L \subseteq Workers
    BY DEF Submitted, LeftCame, TypeOK, TaskTypes
  <2> QED BY <2>1, SchedulerAssumption, FS_Subset, FS_CardinalityType DEF ActiveGaugeExact
<1>p. pc \in [Workers -> Step]
  BY DEF TypeOK, WorkerTypes
<1>s. ASSUME active' = Cardinality(C') - Cardinality(left') + Cardinality(L') PROVE ActiveGaugeExact'
  BY <1>s DEF ActiveGaugeExact
<1> USE DEF shared, local
<1>1. ASSUME NEW t \in Tasks, SubmitCount(t) PROVE ActiveGaugeExact'
  <2>1. C' = C \cup {t} /\ t \notin C /\ active' = active + 1 /\ left' = left /\ L' = L
    BY <1>1 DEF SubmitCount, TypeOK, TaskTypes
  <2> HIDE DEF C, L
  <2>2. Cardinality(C') = Cardinality(C) + 1
    BY <1>0, <2>1, FS_AddElement
  <2>3. active' = Cardinality(C') - Cardinality(left') + Cardinality(L')
    BY <1>0, <2>1, <2>2
  <2> QED BY <1>s, <2>3
<1>2. ASSUME NEW w \in Workers, DropCancelled(w) \/ FinishTask(w) PROVE ActiveGaugeExact'
  <2>1. PICK t \in Tasks : t = hold[w]
    BY <1>2 DEF DropCancelled, FinishTask, WorkersFit, WorkerFits
  <2>2. t \notin left
    BY <2>1, SchedulerAssumption DEF AllLive, Live
  <2>3. /\ left' = left \cup {t} /\ active' = active /\ C' = C
        /\ L' = L \cup {w} /\ w \notin L
    BY <1>2, <1>p, <2>1 DEF DropCancelled, FinishTask
  <2> HIDE DEF C, L
  <2>4. Cardinality(left') = Cardinality(left) + 1 /\ Cardinality(L') = Cardinality(L) + 1
    BY <1>0, <2>2, <2>3, FS_AddElement
  <2>5. active' = Cardinality(C') - Cardinality(left') + Cardinality(L')
    BY <1>0, <2>3, <2>4
  <2> QED BY <1>s, <2>5
<1>2a. ASSUME NEW w \in Workers, DropUncount(w) \/ FinishUncount(w) PROVE ActiveGaugeExact'
  <2>1. active' = active - 1 /\ C' = C /\ left' = left /\ L' = L \ {w} /\ w \in L
    BY <1>2a, <1>p DEF DropUncount, FinishUncount
  <2> HIDE DEF C, L
  <2>2. Cardinality(L') = Cardinality(L) - 1
    BY <1>0, <2>1, FS_RemoveElement
  <2>3. active' = Cardinality(C') - Cardinality(left') + Cardinality(L')
    BY <1>0, <2>1, <2>2
  <2> QED BY <1>s, <2>3
<1>3. ASSUME UNCHANGED <<active, left>>,
             \A t \in Tasks : sub'[t] \in {"counted", "done"} <=> sub[t] \in {"counted", "done"},
             \A w \in Workers : pc'[w] \in {"dropped", "finished"} <=> pc[w] \in {"dropped", "finished"}
      PROVE  ActiveGaugeExact'
  <2>1. C' = C /\ L' = L
    BY <1>3
  <2> QED BY <1>0, <1>3, <1>s, <2>1
<1>4. ASSUME NEW t \in Tasks, (\E p \in Priorities : SubmitPush(t, p)) \/ SubmitGauge(t) PROVE ActiveGaugeExact'
  BY <1>3, <1>4 DEF SubmitPush, SubmitGauge, TypeOK, TaskTypes
<1>5. ASSUME NEW t \in Tasks, SubmitNotify(t) PROVE ActiveGaugeExact'
  BY <1>3, <1>5, <1>p DEF SubmitNotify, NotifyOne, TypeOK, TaskTypes
<1>6. ASSUME UNCHANGED <<active, left, sub>>,
             \/ UNCHANGED pc
             \/ \E w \in Workers : /\ {pc[w], pc'[w]} \cap {"dropped", "finished"} = {}
                                 /\ \A v \in Workers : v # w => pc'[v] = pc[v]
      PROVE  ActiveGaugeExact'
  BY <1>3, <1>6
<1>7. ASSUME NEW w \in Workers, Promotion(w) PROVE ActiveGaugeExact'
  <2>1. UNCHANGED <<active, left, sub>>
    BY <1>7 DEF Promotion, StartPromotion, DrainPop, PromoteTask, PromoteUncount, PromoteCount, KeepTask,
                DrainEmpty, RestoreTask
  <2>2. /\ {pc[w], pc'[w]} \cap {"dropped", "finished"} = {}
        /\ \A v \in Workers : v # w => pc'[v] = pc[v]
    BY <1>7, <1>p DEF Promotion, StartPromotion, DrainPop, PromoteTask, PromoteUncount, PromoteCount, KeepTask,
                      DrainEmpty, RestoreTask, LeaveLane
  <2> QED BY <1>6, <2>1, <2>2
<1>8. ASSUME NEW w \in Workers,
             \/ QuotaLeft(w) \/ QuotaUsed(w) \/ ScanEmpty(w) \/ ScanPop(w) \/ ScanUncount(w)
             \/ TakeTask(w) \/ ChargeLane(w) \/ ResetLane(w) \/ Park(w)
      PROVE  ActiveGaugeExact'
  <2>1. UNCHANGED <<active, left, sub>>
    BY <1>8 DEF QuotaLeft, QuotaUsed, ScanEmpty, ScanPop, ScanUncount, TakeTask, ChargeLane, ResetLane, Park, NextLane
  <2>2. /\ {pc[w], pc'[w]} \cap {"dropped", "finished"} = {}
        /\ \A v \in Workers : v # w => pc'[v] = pc[v]
    BY <1>8, <1>p DEF QuotaLeft, QuotaUsed, ScanEmpty, ScanPop, ScanUncount, TakeTask, ChargeLane, ResetLane, Park,
                      NextLane
  <2> QED BY <1>6, <2>1, <2>2
<1>9. ASSUME Tick \/ (\E t \in Tasks : Cancel(t)) \/ UNCHANGED vars PROVE ActiveGaugeExact'
  BY <1>6, <1>9 DEF Tick, Cancel, vars
<1> QED
  BY <1>1, <1>2, <1>2a, <1>4, <1>5, <1>7, <1>8, <1>9
     DEF Next, SubmitRest, Worker, Scan

-----------------------------------------------------------------------------
(* Nobody sleeps on a stored task.                                         *)

\* Where a worker is while it looks through the lanes.
Scanning == {"check", "pop", "popped", "judge", "dropped"}

\* A worker that scans every lane, under quotas it has reset itself, before it
\* can sleep again.
Fresh(w) ==
  \/ pc[w] \in {"loop", "drain", "aging", "promoted", "raised", "restore", "reset", "charge", "busy",
               "finished"}
  \/ pc[w] \in Scanning /\ pass[w] = 1

\* A fresh worker that has yet to clear the quota of lane l.
Clearing(w, l) == Fresh(w) /\ (pc[w] = "reset" => at[w] <= l)

\* A worker whose scan has lane l still before it.
Looking(w, l) == pc[w] \in Scanning /\ at[w] <= l

\* Before the second scan pass[w] is 1.
BeforeReset == {"loop", "drain", "aging", "promoted", "raised", "restore", "busy", "finished", "asleep"}

PassFits == \A w \in Workers : pc[w] \in BeforeReset => pass[w] = 1

\* A quota is partly spent only while the worker that spent it last, or another
\* one, has yet to clear it: it cannot hide a lane from the last worker awake.
ChargedSeen == \A l \in Lane : consumed[l] > 0 => \E w \in Workers : Clearing(w, l)

\* A lane with tasks has a submit() about to notify, a stored permit, a fresh
\* worker, or one that has yet to look into it.
StoredSeen ==
  \A l \in Lane :
    lanes[l] # <<>> => \/ \E t \in Tasks : sub[t] \in {"pushed", "gauged", "counted"}
                       \/ permit
                       \/ \E w \in Workers : Fresh(w) \/ Looking(w, l)

Watched == PassFits /\ ChargedSeen /\ StoredSeen

LEMMA InitWatched == Init => Watched
<1> SUFFICES ASSUME Init PROVE Watched
  OBVIOUS
<1>1. PassFits
  BY DEF Init, PassFits
<1>2. ChargedSeen
  BY DEF Init, ChargedSeen
<1>3. StoredSeen
  BY DEF Init, StoredSeen
<1> QED BY <1>1, <1>2, <1>3 DEF Watched

LEMMA PassStep == TypeOK /\ WorkersFit /\ PassFits /\ [Next]_vars => PassFits'
<1> SUFFICES ASSUME TypeOK, WorkersFit, PassFits, [Next]_vars PROVE PassFits'
  OBVIOUS
<1>q. /\ at \in [Workers -> Lane] /\ pc \in [Workers -> Step] /\ pass \in [Workers -> {1, 2}]
  BY DEF TypeOK, WorkerTypes
<1>w. ASSUME NEW w \in Workers,
             \A v \in Workers : v # w => pc'[v] = pc[v] /\ at'[v] = at[v] /\ pass'[v] = pass[v],
             pc'[w] \in BeforeReset => pass'[w] = 1
      PROVE  PassFits'
  BY <1>w DEF PassFits
<1> USE DEF shared, local
<1>1. ASSUME NEW t \in Tasks, SubmitNotify(t) PROVE PassFits'
  BY <1>1, <1>q DEF SubmitNotify, NotifyOne, PassFits, BeforeReset
<1>2. ASSUME NEW w \in Workers, Promotion(w) PROVE PassFits'
  <2>1. pass' = pass /\ pass[w] = 1
    BY <1>2, <1>q DEF Promotion, StartPromotion, DrainPop, PromoteTask, PromoteUncount, PromoteCount, KeepTask, DrainEmpty,
       RestoreTask, LeaveLane, PassFits, BeforeReset
  <2>2. \A v \in Workers : v # w => pc'[v] = pc[v] /\ at'[v] = at[v]
    BY <1>2, <1>q DEF Promotion, StartPromotion, DrainPop, PromoteTask, PromoteUncount, PromoteCount, KeepTask, DrainEmpty,
       RestoreTask, LeaveLane
  <2> QED BY <2>1, <2>2, <1>w
<1>3. ASSUME NEW w \in Workers, Scan(w) \/ Park(w) \/ FinishTask(w) \/ FinishUncount(w) PROVE PassFits'
  <2>1. \A v \in Workers : v # w => pc'[v] = pc[v] /\ at'[v] = at[v] /\ pass'[v] = pass[v]
    BY <1>3, <1>q DEF Scan, QuotaLeft, QuotaUsed, ScanEmpty, NextLane, ScanPop, ScanUncount, DropCancelled,
       DropUncount, TakeTask, ChargeLane, ResetLane, Park, FinishTask, FinishUncount
  <2>2. pc'[w] \in BeforeReset => pass'[w] = 1
    BY <1>3, <1>q DEF Scan, QuotaLeft, QuotaUsed, ScanEmpty, NextLane, ScanPop, ScanUncount, DropCancelled,
       DropUncount, TakeTask, ChargeLane, ResetLane, Park, FinishTask, FinishUncount, PassFits, BeforeReset
  <2> QED BY <2>1, <2>2, <1>w
<1>4. CASE UNCHANGED <<pc, at, pass>>
  BY <1>4 DEF PassFits
<1>5. \/ UNCHANGED <<pc, at, pass>> \/ \E t \in Tasks : SubmitNotify(t)
      \/ \E w \in Workers : Promotion(w) \/ Scan(w) \/ Park(w) \/ FinishTask(w) \/ FinishUncount(w)
  BY DEF Next, SubmitRest, Worker, SubmitPush, SubmitGauge, SubmitCount, Cancel, Tick, vars
<1> QED BY <1>1, <1>2, <1>3, <1>4, <1>5

\* One fresh worker that has cleared no lane is watch enough.
LEMMA FreshWatches ==
  ASSUME NEW w \in Workers, Fresh(w)', pc'[w] = "reset" => at'[w] = 0
  PROVE  ChargedSeen' /\ StoredSeen'
<1>1. \A l \in Lane : 0 <= l
  BY LaneFacts
<1> QED BY <1>1 DEF ChargedSeen, StoredSeen, Clearing

\* A step of a worker in its second scan after which every lane it no longer
\* looks into is empty, or somebody else is fresh.
LEMMA ScanWatches ==
  ASSUME ChargedSeen, StoredSeen, NEW w \in Workers, ~ Fresh(w), UNCHANGED <<consumed, sub>>, permit' = permit,
         \A v \in Workers : v # w => pc'[v] = pc[v] /\ at'[v] = at[v] /\ pass'[v] = pass[v],
         \A l \in Lane : lanes'[l] # <<>> => lanes[l] # <<>>,
         \A l \in Lane : lanes'[l] # <<>> /\ Looking(w, l) => Looking(w, l)' \/ consumed[l] > 0
  PROVE  ChargedSeen' /\ StoredSeen'
<1>1. \A v \in Workers : Fresh(v) => Fresh(v)'
  BY DEF Fresh
<1>2. \A v \in Workers : v # w => \A l \in Lane : Looking(v, l) => Looking(v, l)'
  BY DEF Looking
<1>1a. \A v \in Workers : \A l \in Lane : Clearing(v, l) => Clearing(v, l)'
  BY <1>1 DEF Clearing
<1>3. ChargedSeen'
  BY <1>1a DEF ChargedSeen
<1>4. StoredSeen'
  <2> SUFFICES ASSUME NEW l \in Lane, lanes'[l] # <<>>,
                      ~ \E t \in Tasks : sub[t] \in {"pushed", "gauged", "counted"}, ~ permit
               PROVE  \E v \in Workers : Fresh(v)' \/ Looking(v, l)'
    BY DEF StoredSeen
  <2>1. PICK v \in Workers : Fresh(v) \/ Looking(v, l)
    BY DEF StoredSeen
  <2>2. CASE consumed[l] > 0
    BY <1>1, <2>2 DEF ChargedSeen, Clearing
  <2>3. CASE ~ (consumed[l] > 0)
    BY <1>1, <1>2, <2>1, <2>3
  <2> QED BY <2>2, <2>3
<1> QED BY <1>3, <1>4

\* Each action leaves somebody to serve what is stored.
LEMMA WatchedStep == TypeOK /\ TypeOK' /\ WorkersFit /\ Watched /\ [Next]_vars => Watched'
<1> SUFFICES ASSUME TypeOK, TypeOK', WorkersFit, PassFits, ChargedSeen, StoredSeen, PassFits', [Next]_vars
             PROVE  ChargedSeen' /\ StoredSeen'
  BY PassStep DEF Watched
<1> DEFINE Seen == ChargedSeen' /\ StoredSeen'
<1>q. /\ lanes \in [Lane -> Seq(Tasks)] /\ at \in [Workers -> Lane] /\ pc \in [Workers -> Step]
      /\ pass \in [Workers -> {1, 2}] /\ consumed \in [Lane -> Nat]
      /\ sub \in [Tasks -> {"new", "pushed", "gauged", "counted", "done"}]
      /\ \A l \in Lane : l \in Nat /\ Weights[l] \in Nat /\ Weights[l] >= 1
  <2>1. \A l \in Lane : Weights[l] \in Nat /\ Weights[l] >= 1
    BY SchedulerAssumption
  <2> QED BY <2>1, LaneFacts DEF TypeOK, LaneTypes, WorkerTypes, TaskTypes
<1>p. \A v \in Workers : pc'[v] \in BeforeReset => pass'[v] = 1
  BY DEF PassFits
<1> USE DEF shared, local
<1>1. ASSUME NEW t \in Tasks, NEW p \in Priorities, SubmitPush(t, p) PROVE Seen
  <2>1. UNCHANGED <<pc, at, pass, consumed>> /\ sub'[t] = "pushed"
    BY <1>1, <1>q DEF SubmitPush
  <2>2. \A v \in Workers : Fresh(v)' <=> Fresh(v)
    BY <2>1 DEF Fresh
  <2>3. ChargedSeen'
    BY <2>1, <2>2 DEF ChargedSeen, Clearing
  <2> QED BY <2>1, <2>3 DEF StoredSeen
<1>1a. ASSUME NEW t \in Tasks, SubmitGauge(t) PROVE Seen
  <2>1. UNCHANGED <<pc, at, pass, consumed>> /\ sub'[t] = "gauged"
    BY <1>1a, <1>q DEF SubmitGauge
  <2>2. \A v \in Workers : Fresh(v)' <=> Fresh(v)
    BY <2>1 DEF Fresh
  <2>3. ChargedSeen'
    BY <2>1, <2>2 DEF ChargedSeen, Clearing
  <2> QED BY <2>1, <2>3 DEF StoredSeen
<1>2. ASSUME NEW t \in Tasks, SubmitCount(t) PROVE Seen
  <2>1. UNCHANGED <<pc, at, pass, consumed>> /\ sub'[t] = "counted"
    BY <1>2, <1>q DEF SubmitCount
  <2>2. \A v \in Workers : Fresh(v)' <=> Fresh(v)
    BY <2>1 DEF Fresh
  <2>3. ChargedSeen'
    BY <2>1, <2>2 DEF ChargedSeen, Clearing
  <2> QED BY <2>1, <2>3 DEF StoredSeen
<1>3. ASSUME NEW t \in Tasks, SubmitNotify(t) PROVE Seen
  <2>1. CASE \E w \in Workers : pc[w] = "asleep" /\ pc' = [pc EXCEPT ![w] = "loop"]
    <3>1. PICK w \in Workers : pc'[w] = "loop"
      BY <2>1, <1>q
    <3> QED BY <3>1, FreshWatches DEF Fresh
  <2>2. CASE permit' = TRUE /\ UNCHANGED pc
    <3>1. UNCHANGED <<at, pass, consumed, pc>>
      BY <1>3, <2>2 DEF SubmitNotify
    <3>2. ChargedSeen'
      BY <3>1 DEF ChargedSeen, Clearing, Fresh
    <3> QED BY <2>2, <3>2 DEF StoredSeen
  <2> QED BY <1>3, <2>1, <2>2 DEF SubmitNotify, NotifyOne
<1>4. ASSUME UNCHANGED <<lanes, sub, permit, consumed, pc, at, pass>> PROVE Seen
  <2>1. ChargedSeen'
    BY <1>4 DEF ChargedSeen, Clearing, Fresh
  <2>2. StoredSeen'
    BY <1>4 DEF StoredSeen, Fresh, Looking
  <2> QED BY <2>1, <2>2
<1>5. ASSUME NEW w \in Workers, Promotion(w) PROVE Seen
  <2>1. pass'[w] = 1
    BY <1>5 DEF Promotion, StartPromotion, DrainPop, PromoteTask, PromoteUncount, PromoteCount, KeepTask, DrainEmpty, RestoreTask,
       PassFits, BeforeReset
  <2>2. pc'[w] \in {"loop", "drain", "aging", "promoted", "raised", "restore", "check"}
    BY <1>5, <1>q DEF Promotion, StartPromotion, DrainPop, PromoteTask, PromoteUncount, PromoteCount, KeepTask, DrainEmpty,
       RestoreTask, LeaveLane
  <2> QED BY <2>1, <2>2, FreshWatches DEF Fresh, Scanning
<1>6. ASSUME NEW w \in Workers, TakeTask(w) \/ ChargeLane(w) \/ FinishTask(w) \/ FinishUncount(w) PROVE Seen
  <2>1. pc'[w] \in {"charge", "busy", "finished", "loop"}
    BY <1>6, <1>q DEF TakeTask, ChargeLane, FinishTask, FinishUncount
  <2> QED BY <2>1, FreshWatches DEF Fresh
<1>7. ASSUME NEW w \in Workers, ResetLane(w) PROVE Seen
  <2>1. /\ pc[w] = "reset" /\ Fresh(w) /\ UNCHANGED <<lanes, sub, permit>>
        /\ consumed'[at[w]] = 0 /\ \A l \in Lane : l # at[w] => consumed'[l] = consumed[l]
        /\ \A v \in Workers : v # w => pc'[v] = pc[v] /\ at'[v] = at[v] /\ pass'[v] = pass[v]
    BY <1>7, <1>q DEF ResetLane, Fresh
  <2>2. ASSUME NEW v \in Workers, v # w, NEW l \in Lane
        PROVE  /\ Clearing(v, l) => Clearing(v, l)'
               /\ Fresh(v) => Fresh(v)' /\ (Looking(v, l) => Looking(v, l)')
    BY <2>1, <2>2 DEF Clearing, Fresh, Looking
  <2>3. CASE at[w] + 1 < NumLanes
    <3>1. pc'[w] = "reset" /\ at'[w] = at[w] + 1
      BY <1>7, <1>q, <2>1, <2>3 DEF ResetLane
    <3>2. Fresh(w)'
      BY <3>1 DEF Fresh
    <3>3. \A l \in Lane : l # at[w] /\ Clearing(w, l) => Clearing(w, l)'
      <4> SUFFICES ASSUME NEW l \in Lane, l # at[w], Clearing(w, l) PROVE Clearing(w, l)'
        OBVIOUS
      <4>1. at[w] <= l /\ at[w] \in Nat /\ l \in Nat
        BY <1>q, <2>1 DEF Clearing, Lane
      <4> QED BY <3>1, <3>2, <4>1 DEF Clearing
    <3>4. ChargedSeen'
      BY <2>1, <2>2, <3>3 DEF ChargedSeen
    <3> QED BY <3>2, <3>4 DEF StoredSeen
  <2>4. CASE ~ (at[w] + 1 < NumLanes)
    <3>1. pc'[w] = "check" /\ at'[w] = 0
      BY <1>7, <1>q, <2>1, <2>4 DEF ResetLane
    <3>2. \A l \in Lane : Looking(w, l)'
      BY <1>q, <3>1 DEF Looking, Scanning
    <3>3. \A l \in Lane : l # at[w] => ~ Clearing(w, l)
      <4> SUFFICES ASSUME NEW l \in Lane, l # at[w], at[w] <= l PROVE FALSE
        BY <2>1 DEF Clearing
      <4>1. at[w] \in Nat /\ l \in Nat /\ NumLanes \in Nat /\ l <= NumLanes - 1
        BY <1>q, SchedulerAssumption DEF Lane
      <4> QED BY <2>4, <4>1
    <3>4. ChargedSeen'
      BY <2>1, <2>2, <3>3 DEF ChargedSeen
    <3> QED BY <3>2, <3>4 DEF StoredSeen
  <2> QED BY <2>3, <2>4
<1>8. ASSUME NEW w \in Workers, Park(w) PROVE Seen
  <2>1. CASE permit
    <3>1. pc'[w] = "loop"
      BY <1>8, <1>q, <2>1 DEF Park
    <3> QED BY <3>1, FreshWatches DEF Fresh
  <2>2. CASE ~ permit
    <3>1. /\ ~ Fresh(w) /\ \A l \in Lane : ~ Looking(w, l)
          /\ UNCHANGED <<consumed, sub, lanes>> /\ permit' = permit
          /\ \A v \in Workers : v # w => pc'[v] = pc[v] /\ at'[v] = at[v] /\ pass'[v] = pass[v]
      BY <1>8, <1>q, <2>2 DEF Park, Fresh, Looking, Scanning, TypeOK, LaneTypes
    <3> QED BY <3>1, ScanWatches
  <2> QED BY <2>1, <2>2
<1>9. ASSUME NEW w \in Workers, pc[w] \in Scanning, pass[w] = 1, pass'[w] = 1,
             pc'[w] \in Scanning \/ (pc'[w] = "reset" /\ at'[w] = 0)
      PROVE  Seen
  <2>1. "reset" \notin Scanning
    BY DEF Scanning
  <2> QED BY <1>9, <2>1, FreshWatches DEF Fresh
<1>10. ASSUME NEW w \in Workers,
              QuotaLeft(w) \/ ScanPop(w) \/ ScanUncount(w) \/ DropCancelled(w) \/ DropUncount(w)
       PROVE  Seen
  <2>1. /\ pc[w] \in Scanning /\ pc'[w] \in Scanning /\ pass' = pass /\ at' = at
        /\ UNCHANGED <<consumed, sub>> /\ permit' = permit
        /\ \A v \in Workers : v # w => pc'[v] = pc[v]
    BY <1>10, <1>q DEF QuotaLeft, ScanPop, ScanUncount, DropCancelled, DropUncount, Scanning
  <2>2. CASE pass[w] = 1
    BY <1>9, <2>1, <2>2
  <2>3. CASE pass[w] = 2
    <3>1. ~ Fresh(w) /\ \A l \in Lane : Looking(w, l) => Looking(w, l)'
      BY <2>1, <2>3 DEF Fresh, Looking, Scanning
    <3>2. \A l \in Lane : lanes'[l] # <<>> => lanes[l] # <<>>
      BY <1>10, <1>q DEF QuotaLeft, ScanPop, ScanUncount, PopLane, DropCancelled, DropUncount
    <3> QED BY <2>1, <3>1, <3>2, ScanWatches
  <2> QED BY <1>q, <2>2, <2>3
<1>11. ASSUME NEW w \in Workers, QuotaUsed(w) \/ ScanEmpty(w) PROVE Seen
  <2>1. /\ pc[w] \in {"check", "pop"} /\ pass' = pass
        /\ pc'[w] \in {"check", "park", "reset"} /\ (pass[w] = 1 => pc'[w] # "park")
        /\ (pc'[w] = "reset" => at'[w] = 0)
        /\ UNCHANGED <<consumed, sub, lanes>> /\ permit' = permit
        /\ \A v \in Workers : v # w => pc'[v] = pc[v] /\ at'[v] = at[v]
    BY <1>11, <1>q DEF QuotaUsed, ScanEmpty, NextLane
  <2>2. CASE pass[w] = 1
    BY <1>9, <2>1, <2>2 DEF Scanning
  <2>3. CASE pass[w] = 2
    <3>1. ~ Fresh(w)
      BY <2>1, <2>3 DEF Fresh
    <3>2. lanes[at[w]] = <<>> \/ consumed[at[w]] > 0
      BY <1>11, <1>q DEF QuotaUsed, ScanEmpty
    <3>3. ASSUME NEW l \in Lane, Looking(w, l), l # at[w] PROVE Looking(w, l)'
      <4>1. at[w] \in Nat /\ l \in Nat /\ at[w] < l /\ l <= NumLanes - 1 /\ NumLanes \in Nat
        BY <1>q, <3>3, SchedulerAssumption DEF Looking, Lane
      <4>2. at[w] + 1 < NumLanes /\ at[w] + 1 <= l
        BY <4>1
      <4>3. at'[w] = at[w] + 1 /\ pc'[w] = "check"
        BY <1>11, <1>q, <4>2 DEF QuotaUsed, ScanEmpty, NextLane
      <4> QED BY <4>2, <4>3 DEF Looking, Scanning
    <3>4. \A l \in Lane : lanes'[l] # <<>> /\ Looking(w, l) => Looking(w, l)' \/ consumed[l] > 0
      BY <2>1, <3>2, <3>3
    <3> QED BY <2>1, <3>1, <3>4, ScanWatches
  <2> QED BY <1>q, <2>2, <2>3
<1>12. ASSUME NEW t \in Tasks, Cancel(t) PROVE Seen
  BY <1>4, <1>12 DEF Cancel
<1>13. CASE Tick
  BY <1>4, <1>13 DEF Tick
<1>14. CASE UNCHANGED vars
  BY <1>4, <1>14 DEF vars
<1> QED
  BY <1>1, <1>1a, <1>2, <1>3, <1>5, <1>6, <1>7, <1>8, <1>10, <1>11, <1>12, <1>13, <1>14
     DEF Next, SubmitRest, Worker, Scan

\* With everybody asleep nothing watches, so nothing is stored.
LEMMA WatchedWakes == Watched => NoLostWakeup
<1> SUFFICES ASSUME Watched, \A w \in Workers : pc[w] = "asleep", ~ permit, \A t \in Tasks : sub[t] \in {"new", "done"},
                    NEW l \in Lane
             PROVE  lanes[l] = <<>>
  BY DEF NoLostWakeup
<1>1. \A w \in Workers : ~ Fresh(w) /\ ~ Looking(w, l)
  BY DEF Fresh, Looking, Scanning
<1>2. \A t \in Tasks : sub[t] \notin {"pushed", "gauged", "counted"}
  OBVIOUS
<1> QED BY <1>1, <1>2 DEF Watched, StoredSeen

-----------------------------------------------------------------------------
(* The theorems.                                                           *)

\* The parts of the inductive invariant: where tasks wait and why, what is counted.
Lanes == LaneIsPriority /\ ClockAhead /\ PromotedOnlyByAge

Gauges == IsFiniteSet(Submitted) /\ GaugesTrackLanes /\ ActiveGaugeExact

IInv == TypeOK /\ WorkersFit /\ QuotaOvershootBounded /\ PlacesInv /\ Lanes /\ Gauges /\ Watched

\* The invariant is inductive.
THEOREM InductiveInvariant == Spec => []IInv
<1>1. Init => IInv
  BY InitTypes, InitQuota, InitPlaces, InitPriority, InitAge, InitGauges, InitWatched DEF IInv, Lanes, Gauges
<1>2. IInv /\ [Next]_vars => IInv'
  <2> SUFFICES ASSUME IInv, [Next]_vars PROVE IInv'
    OBVIOUS
  <2> USE DEF IInv, Lanes, Gauges
  <2>1. TypeOK' /\ WorkersFit'
    BY TypeStep, FitStep
  <2>2. QuotaOvershootBounded' /\ PlacesInv'
    BY <2>1, QuotaStep, PlacesStep
  <2>3. Lanes'
    BY PriorityStep, ClockStep, AgeStep DEF PlacesInv
  <2>4. Gauges'
    BY <2>1, SubmittedStep, GaugeStep, ActiveStep DEF PlacesInv
  <2>5. Watched'
    BY <2>1, WatchedStep
  <2> QED BY <2>1, <2>2, <2>3, <2>4, <2>5
<1> QED
  BY <1>1, <1>2, PTL DEF Spec

\* Every variable keeps its type: no worker leaves the range of lanes, and none
\* reaches for a task or a vector entry that is not there.
THEOREM TypeCorrect == Spec => [](TypeOK /\ WorkersFit)
<1>1. IInv => TypeOK /\ WorkersFit
  BY DEF IInv
<1> QED
  BY <1>1, InductiveInvariant, PTL

\* Although testing a quota, popping and charging are separate accesses, a lane
\* exceeds its quota in a round by less than the number of workers.
THEOREM QuotaOvershoot == Spec => []QuotaOvershootBounded
<1>1. IInv => QuotaOvershootBounded
  BY DEF IInv
<1> QED
  BY <1>1, InductiveInvariant, PTL

\* Types hold and quotas are overshot by less than the number of workers.
THEOREM QuotasAlwaysHold == Spec => []QuotasHold
<1>1. IInv => QuotasHold
  BY DEF IInv, QuotasHold
<1> QED BY <1>1, InductiveInvariant, PTL

\* Draining, ageing, restoring and popping by any number of workers at once lose
\* no submitted task and never leave it in two places.
THEOREM OnePlace == Spec => []TaskInOnePlace
<1>1. IInv => TaskInOnePlace
  BY PlacesCounted DEF IInv
<1> QED BY <1>1, InductiveInvariant, PTL

\* Each task is in one place, in the lane of its priority, which only waiting
\* raises, and is counted there; the active gauge counts who is still inside.
THEOREM LanesAlwaysConsistent == Spec => []LanesConsistent
<1>1. IInv => LanesConsistent
  BY PlacesCounted DEF IInv, Lanes, Gauges, LanesConsistent
<1> QED BY <1>1, InductiveInvariant, PTL

\* Whatever the interleaving of scans, resets, promotions and notifications, the
\* workers never all sleep on a stored task.
THEOREM NoWakeupLost == Spec => []NoLostWakeup
<1>1. IInv => NoLostWakeup
  BY WatchedWakes DEF IInv
<1> QED BY <1>1, InductiveInvariant, PTL

\* The scheduler, whatever its lanes, quotas and ages, does nothing the pool
\* forbids: no task is handed out twice, or once cancelled, or dropped unless it was.
THEOREM RefinesTaskPool == Spec => StepsOfTaskPool
<1>1. Init => Pool!Init
  BY PoolInit
<1>2. IInv /\ IInv' /\ [Next]_vars => [Pool!Next]_(Pool!poolVars)
  BY PoolStep DEF IInv
<1> QED BY <1>1, <1>2, InductiveInvariant, PTL DEF Spec, StepsOfTaskPool
=============================================================================
