----------------------- MODULE TaskDispatcherProofs -----------------------
(***************************************************************************)
(* Theorems about TaskDispatcher, for every set of tasks and workers.      *)
(***************************************************************************)
EXTENDS TaskDispatcher, FiniteSetTheorems, TLAPS

\* The inductive invariant: types, exclusive ownership, and how the place of a
\* task fixes its record.
IInv == TypeOK /\ OneOwner /\ PlaceFixesRecord

LEMMA InitIInv == Init => IInv
<1> SUFFICES ASSUME Init PROVE IInv
  OBVIOUS
<1> USE DispatcherAssumption DEF Init
<1>1. TypeOK
  <2>1. events \in [Tasks -> Seq(Final \cup {"Queued"})]
    OBVIOUS
  <2>2. counter \in [Final \cup {"dispatched", "active"} -> Int]
    OBVIOUS
  <2> QED
    BY <2>1, <2>2 DEF TypeOK, Final, Step
<1>2. OneOwner
  BY DEF OneOwner, InHand
<1>3. PlaceFixesRecord
  BY DEF PlaceFixesRecord, TaskPlace, WorkerPlace, InHand, HoldingTask, Final
<1> QED
  BY <1>1, <1>2, <1>3 DEF IInv

\* Each action keeps the types.
LEMMA TypeStep == IInv /\ [Next]_vars => TypeOK'
<1> SUFFICES ASSUME IInv, [Next]_vars PROVE TypeOK'
  OBVIOUS
<1>0. \A w \in Workers : HoldingTask(w) => cur[w] \in Tasks
  BY DEF IInv, TypeOK, PlaceFixesRecord, WorkerPlace, HoldingTask
<1> TypeOK
  BY DEF IInv
<1> USE DispatcherAssumption DEF TypeOK, Final, Step
<1>1. ASSUME NEW t \in Tasks, DispatchSubmit(t) PROVE TypeOK'
  BY <1>1 DEF DispatchSubmit, workerVars
<1>2. ASSUME NEW t \in Tasks, DispatchCount(t) PROVE TypeOK'
  BY <1>2 DEF DispatchCount, workerVars
<1>3. ASSUME NEW t \in Tasks, DispatchNotify(t) PROVE TypeOK'
  BY <1>3 DEF DispatchNotify, NotifyOne, workerVars
<1>4. ASSUME NEW t \in Tasks, DispatchTotal(t) PROVE TypeOK'
  BY <1>4 DEF DispatchTotal, workerVars
<1>5. ASSUME NEW t \in Tasks, DispatchReport(t) PROVE TypeOK'
  BY <1>5 DEF DispatchReport, workerVars
<1>6. ASSUME NEW t \in Tasks, HandleCancel(t) PROVE TypeOK'
  BY <1>6 DEF HandleCancel, workerVars
<1>7. ASSUME NEW t \in Tasks, CancelTask(t) PROVE TypeOK'
  BY <1>7 DEF CancelTask, workerVars
<1>8. ASSUME NEW t \in Tasks, WaitBegin(t) PROVE TypeOK'
  BY <1>8 DEF WaitBegin, workerVars
<1>9. ASSUME NEW t \in Tasks, WaitEnd(t) PROVE TypeOK'
  BY <1>9, ZenonT(40) DEF WaitEnd, workerVars
<1>10. ASSUME NEW w \in Workers, LoopTop(w) PROVE TypeOK'
  BY <1>10 DEF LoopTop, workerVars
<1>11. ASSUME NEW w \in Workers, DropTotal(w) PROVE TypeOK'
  BY <1>11 DEF DropTotal, workerVars
<1>12. ASSUME NEW w \in Workers, DropUncount(w) PROVE TypeOK'
  BY <1>12 DEF DropUncount, workerVars
<1>13. ASSUME NEW w \in Workers, FindNothing(w) PROVE TypeOK'
  BY <1>13 DEF FindNothing, workerVars
<1>14. ASSUME NEW w \in Workers, Gate(w) PROVE TypeOK'
  BY <1>14, ZenonT(40) DEF Gate, workerVars
<1>15. ASSUME NEW w \in Workers, Start(w) PROVE TypeOK'
  BY <1>15 DEF Start, workerVars
<1>16. ASSUME NEW w \in Workers, RunEnd(w) PROVE TypeOK'
  BY <1>16 DEF RunEnd, workerVars
<1>17. ASSUME NEW w \in Workers, RunPanic(w) PROVE TypeOK'
  BY <1>17 DEF RunPanic, workerVars
<1>18. ASSUME NEW w \in Workers, SettleTotal(w) PROVE TypeOK'
  BY <1>0, <1>18 DEF HoldingTask, SettleTotal, workerVars
<1>19. ASSUME NEW w \in Workers, SettleRecord(w) PROVE TypeOK'
  BY <1>0, <1>19 DEF HoldingTask, SettleRecord, workerVars
<1>20. ASSUME NEW w \in Workers, Publish(w) PROVE TypeOK'
  BY <1>0, <1>20 DEF HoldingTask, Publish, workerVars
<1>21. ASSUME NEW w \in Workers, SettleUncount(w) PROVE TypeOK'
  BY <1>0, <1>21 DEF HoldingTask, SettleUncount, workerVars
<1>22. ASSUME NEW w \in Workers, Deliver(w) PROVE TypeOK'
  BY <1>0, <1>22 DEF HoldingTask, Deliver, workerVars
<1>23. ASSUME NEW w \in Workers, Park(w) PROVE TypeOK'
  BY <1>23, ZenonT(40) DEF Park, workerVars
<1>24. ASSUME NEW w \in Workers, WakeToStop(w) PROVE TypeOK'
  BY <1>24 DEF WakeToStop, workerVars
<1>25. ASSUME NEW w \in Workers, NEW t \in Tasks, DropQueued(w, t) PROVE TypeOK'
  BY <1>25 DEF DropQueued, workerVars
<1>26. ASSUME NEW w \in Workers, NEW t \in Tasks, TakeTask(w, t) PROVE TypeOK'
  BY <1>26 DEF TakeTask, workerVars
<1>27. CASE Shutdown
  BY <1>27 DEF Shutdown, workerVars
<1>28. CASE UNCHANGED vars
  BY <1>28 DEF vars, workerVars
<1> QED
  BY <1>1, <1>2, <1>3, <1>4, <1>5, <1>6, <1>7, <1>8, <1>9, <1>10, <1>11, <1>12, <1>13,
     <1>14, <1>15, <1>16, <1>17, <1>18, <1>19, <1>20, <1>21, <1>22, <1>23, <1>24, <1>25,
     <1>26, <1>27, <1>28
     DEF Next, Dispatch, Client, Worker

\* Each action keeps a task with at most one owner.
LEMMA OwnerStep == IInv /\ [Next]_vars => OneOwner'
<1> SUFFICES ASSUME IInv, [Next]_vars PROVE OneOwner'
  OBVIOUS
<1> USE DispatcherAssumption DEF IInv, TypeOK, OneOwner, InHand, PlaceFixesRecord, TaskPlace,
    WorkerPlace, HoldingTask, Final, Step
<1>1. ASSUME NEW t \in Tasks, DispatchSubmit(t) PROVE OneOwner'
  BY <1>1 DEF DispatchSubmit, workerVars
<1>2. ASSUME NEW t \in Tasks, DispatchCount(t) PROVE OneOwner'
  BY <1>2 DEF DispatchCount, workerVars
<1>3. ASSUME NEW t \in Tasks, DispatchNotify(t) PROVE OneOwner'
  BY <1>3 DEF DispatchNotify, NotifyOne, workerVars
<1>4. ASSUME NEW t \in Tasks, DispatchTotal(t) PROVE OneOwner'
  BY <1>4 DEF DispatchTotal, workerVars
<1>5. ASSUME NEW t \in Tasks, DispatchReport(t) PROVE OneOwner'
  BY <1>5 DEF DispatchReport, workerVars
<1>6. ASSUME NEW t \in Tasks, HandleCancel(t) PROVE OneOwner'
  BY <1>6 DEF HandleCancel, workerVars
<1>7. ASSUME NEW t \in Tasks, CancelTask(t) PROVE OneOwner'
  BY <1>7 DEF CancelTask, workerVars
<1>8. ASSUME NEW t \in Tasks, WaitBegin(t) PROVE OneOwner'
  BY <1>8 DEF WaitBegin, workerVars
<1>9. ASSUME NEW t \in Tasks, WaitEnd(t) PROVE OneOwner'
  BY <1>9 DEF WaitEnd, workerVars
<1>10. ASSUME NEW w \in Workers, LoopTop(w) PROVE OneOwner'
  BY <1>10 DEF LoopTop, workerVars
<1>11. ASSUME NEW w \in Workers, DropTotal(w) PROVE OneOwner'
  BY <1>11 DEF DropTotal, workerVars
<1>12. ASSUME NEW w \in Workers, DropUncount(w) PROVE OneOwner'
  BY <1>12 DEF DropUncount, workerVars
<1>13. ASSUME NEW w \in Workers, FindNothing(w) PROVE OneOwner'
  BY <1>13 DEF FindNothing, workerVars
<1>14. ASSUME NEW w \in Workers, Gate(w) PROVE OneOwner'
  BY <1>14 DEF Gate, workerVars
<1>15. ASSUME NEW w \in Workers, Start(w) PROVE OneOwner'
  BY <1>15 DEF Start, workerVars
<1>16. ASSUME NEW w \in Workers, RunEnd(w) PROVE OneOwner'
  BY <1>16 DEF RunEnd, workerVars
<1>17. ASSUME NEW w \in Workers, RunPanic(w) PROVE OneOwner'
  BY <1>17 DEF RunPanic, workerVars
<1>18. ASSUME NEW w \in Workers, SettleTotal(w) PROVE OneOwner'
  BY <1>18 DEF SettleTotal, workerVars
<1>19. ASSUME NEW w \in Workers, SettleRecord(w) PROVE OneOwner'
  BY <1>19 DEF SettleRecord, workerVars
<1>20. ASSUME NEW w \in Workers, Publish(w) PROVE OneOwner'
  BY <1>20 DEF Publish, workerVars
<1>21. ASSUME NEW w \in Workers, SettleUncount(w) PROVE OneOwner'
  BY <1>21 DEF SettleUncount, workerVars
<1>22. ASSUME NEW w \in Workers, Deliver(w) PROVE OneOwner'
  BY <1>22 DEF Deliver, workerVars
<1>23. ASSUME NEW w \in Workers, Park(w) PROVE OneOwner'
  BY <1>23 DEF Park, workerVars
<1>24. ASSUME NEW w \in Workers, WakeToStop(w) PROVE OneOwner'
  BY <1>24 DEF WakeToStop, workerVars
<1>25. ASSUME NEW w \in Workers, NEW t \in Tasks, DropQueued(w, t) PROVE OneOwner'
  BY <1>25 DEF DropQueued, workerVars
<1>26. ASSUME NEW w \in Workers, NEW t \in Tasks, TakeTask(w, t) PROVE OneOwner'
  BY <1>26 DEF TakeTask, workerVars
<1>27. CASE Shutdown
  BY <1>27 DEF Shutdown, workerVars
<1>28. CASE UNCHANGED vars
  BY <1>28 DEF vars, workerVars
<1> QED
  BY <1>1, <1>2, <1>3, <1>4, <1>5, <1>6, <1>7, <1>8, <1>9, <1>10, <1>11, <1>12, <1>13,
     <1>14, <1>15, <1>16, <1>17, <1>18, <1>19, <1>20, <1>21, <1>22, <1>23, <1>24, <1>25,
     <1>26, <1>27, <1>28
     DEF Next, Dispatch, Client, Worker

\* Each action keeps records and replies in step with the place of the task.
LEMMA RecordStep == IInv /\ [Next]_vars => PlaceFixesRecord'
<1> SUFFICES ASSUME IInv, [Next]_vars PROVE PlaceFixesRecord'
  OBVIOUS
<1> USE DispatcherAssumption DEF IInv, TypeOK, OneOwner, InHand, PlaceFixesRecord, TaskPlace,
    WorkerPlace, HoldingTask, Final, Step
<1>1. ASSUME NEW t \in Tasks, DispatchSubmit(t) PROVE PlaceFixesRecord'
  <2>1. \A u \in Tasks : TaskPlace(u)'
    BY <1>1 DEF DispatchSubmit, workerVars
  <2>2. \A v \in Workers : WorkerPlace(v)'
    BY <1>1 DEF DispatchSubmit, workerVars
  <2> QED
    BY <2>1, <2>2
<1>2. ASSUME NEW t \in Tasks, DispatchCount(t) PROVE PlaceFixesRecord'
  <2>1. \A u \in Tasks : TaskPlace(u)'
    BY <1>2 DEF DispatchCount, workerVars
  <2>2. \A v \in Workers : WorkerPlace(v)'
    BY <1>2 DEF DispatchCount, workerVars
  <2> QED
    BY <2>1, <2>2
<1>3. ASSUME NEW t \in Tasks, DispatchNotify(t) PROVE PlaceFixesRecord'
  <2>1. \A u \in Tasks : TaskPlace(u)'
    BY <1>3 DEF DispatchNotify, NotifyOne, workerVars
  <2>2. \A v \in Workers : WorkerPlace(v)'
    BY <1>3 DEF DispatchNotify, NotifyOne, workerVars
  <2> QED
    BY <2>1, <2>2
<1>4. ASSUME NEW t \in Tasks, DispatchTotal(t) PROVE PlaceFixesRecord'
  <2>1. \A u \in Tasks : TaskPlace(u)'
    BY <1>4 DEF DispatchTotal, workerVars
  <2>2. \A v \in Workers : WorkerPlace(v)'
    BY <1>4 DEF DispatchTotal, workerVars
  <2> QED
    BY <2>1, <2>2
<1>5. ASSUME NEW t \in Tasks, DispatchReport(t) PROVE PlaceFixesRecord'
  <2>1. \A u \in Tasks : TaskPlace(u)'
    BY <1>5 DEF DispatchReport, workerVars
  <2>2. \A v \in Workers : WorkerPlace(v)'
    BY <1>5 DEF DispatchReport, workerVars
  <2> QED
    BY <2>1, <2>2
<1>6. ASSUME NEW t \in Tasks, HandleCancel(t) PROVE PlaceFixesRecord'
  <2>1. \A u \in Tasks : TaskPlace(u)'
    BY <1>6 DEF HandleCancel, workerVars
  <2>2. \A v \in Workers : WorkerPlace(v)'
    BY <1>6 DEF HandleCancel, workerVars
  <2> QED
    BY <2>1, <2>2
<1>7. ASSUME NEW t \in Tasks, CancelTask(t) PROVE PlaceFixesRecord'
  <2>1. \A u \in Tasks : TaskPlace(u)'
    BY <1>7 DEF CancelTask, workerVars
  <2>2. \A v \in Workers : WorkerPlace(v)'
    BY <1>7 DEF CancelTask, workerVars
  <2> QED
    BY <2>1, <2>2
<1>8. ASSUME NEW t \in Tasks, WaitBegin(t) PROVE PlaceFixesRecord'
  <2>1. \A u \in Tasks : TaskPlace(u)'
    BY <1>8 DEF WaitBegin, workerVars
  <2>2. \A v \in Workers : WorkerPlace(v)'
    BY <1>8 DEF WaitBegin, workerVars
  <2> QED
    BY <2>1, <2>2
<1>9. ASSUME NEW t \in Tasks, WaitEnd(t) PROVE PlaceFixesRecord'
  <2>1. \A u \in Tasks : TaskPlace(u)'
    BY <1>9 DEF WaitEnd, workerVars
  <2>2. \A v \in Workers : WorkerPlace(v)'
    BY <1>9 DEF WaitEnd, workerVars
  <2> QED
    BY <2>1, <2>2
<1>10. ASSUME NEW w \in Workers, LoopTop(w) PROVE PlaceFixesRecord'
  <2>1. \A u \in Tasks : TaskPlace(u)'
    BY <1>10 DEF LoopTop, workerVars
  <2>2. \A v \in Workers : WorkerPlace(v)'
    BY <1>10 DEF LoopTop, workerVars
  <2> QED
    BY <2>1, <2>2
<1>11. ASSUME NEW w \in Workers, DropTotal(w) PROVE PlaceFixesRecord'
  <2>1. \A u \in Tasks : TaskPlace(u)'
    BY <1>11 DEF DropTotal, workerVars
  <2>2. \A v \in Workers : WorkerPlace(v)'
    BY <1>11 DEF DropTotal, workerVars
  <2> QED
    BY <2>1, <2>2
<1>12. ASSUME NEW w \in Workers, DropUncount(w) PROVE PlaceFixesRecord'
  <2>1. \A u \in Tasks : TaskPlace(u)'
    BY <1>12 DEF DropUncount, workerVars
  <2>2. \A v \in Workers : WorkerPlace(v)'
    BY <1>12 DEF DropUncount, workerVars
  <2> QED
    BY <2>1, <2>2
<1>13. ASSUME NEW w \in Workers, FindNothing(w) PROVE PlaceFixesRecord'
  <2>1. \A u \in Tasks : TaskPlace(u)'
    BY <1>13 DEF FindNothing, workerVars
  <2>2. \A v \in Workers : WorkerPlace(v)'
    BY <1>13 DEF FindNothing, workerVars
  <2> QED
    BY <2>1, <2>2
<1>14. ASSUME NEW w \in Workers, Gate(w) PROVE PlaceFixesRecord'
  <2>1. \A u \in Tasks : TaskPlace(u)'
    BY <1>14 DEF Gate, workerVars
  <2>2. \A v \in Workers : WorkerPlace(v)'
    <3>1. \/ pc' = [pc EXCEPT ![w] = "settle"] /\ result' = [result EXCEPT ![w] = "Cancelled"]
          \/ pc' = [pc EXCEPT ![w] = "start"] /\ result' = result
      BY <1>14 DEF Gate
    <3>2. pc[w] = "gate" /\ record[cur[w]] = "Queued" /\ UNCHANGED <<cur, record>>
      BY <1>14 DEF Gate
    <3>3. WorkerPlace(w)'
      BY <3>1, <3>2
    <3>4. \A v \in Workers : v # w => WorkerPlace(v)'
      BY <3>1, <3>2
    <3> QED BY <3>3, <3>4
  <2> QED
    BY <2>1, <2>2
<1>15. ASSUME NEW w \in Workers, Start(w) PROVE PlaceFixesRecord'
  <2>1. \A u \in Tasks : TaskPlace(u)'
    BY <1>15 DEF Start, workerVars
  <2>2. \A v \in Workers : WorkerPlace(v)'
    BY <1>15 DEF Start, workerVars
  <2> QED
    BY <2>1, <2>2
<1>16. ASSUME NEW w \in Workers, RunEnd(w) PROVE PlaceFixesRecord'
  <2>1. \A u \in Tasks : TaskPlace(u)'
    BY <1>16 DEF RunEnd, workerVars
  <2>2. \A v \in Workers : WorkerPlace(v)'
    BY <1>16 DEF RunEnd, workerVars
  <2> QED
    BY <2>1, <2>2
<1>17. ASSUME NEW w \in Workers, RunPanic(w) PROVE PlaceFixesRecord'
  <2>1. \A u \in Tasks : TaskPlace(u)'
    BY <1>17 DEF RunPanic, workerVars
  <2>2. \A v \in Workers : WorkerPlace(v)'
    BY <1>17 DEF RunPanic, workerVars
  <2> QED
    BY <2>1, <2>2
<1>18. ASSUME NEW w \in Workers, SettleTotal(w) PROVE PlaceFixesRecord'
  <2>1. \A u \in Tasks : TaskPlace(u)'
    BY <1>18 DEF SettleTotal, workerVars
  <2>2. \A v \in Workers : WorkerPlace(v)'
    BY <1>18 DEF SettleTotal, workerVars
  <2> QED
    BY <2>1, <2>2
<1>19. ASSUME NEW w \in Workers, SettleRecord(w) PROVE PlaceFixesRecord'
  <2>1. \A u \in Tasks : TaskPlace(u)'
    <3>1. /\ pc[w] = "record" /\ cur[w] \in Tasks /\ InHand(cur[w])
          /\ record' = [record EXCEPT ![cur[w]] = result[w]]
          /\ UNCHANGED <<call, queue, cur, reply, answer>>
      BY <1>19 DEF SettleRecord
    <3>2. TaskPlace(cur[w])'
      <4>1. PICK t \in Tasks : t = cur[w]
        BY <3>1
      <4>2. /\ t \notin queue /\ reply[t] = "open" /\ record[t] # "none" /\ call[t] # "none"
            /\ result[w] \in Final
        BY <3>1, <4>1
      <4>3. record'[t] = result[w] /\ t \notin queue' /\ reply'[t] = "open" /\ call'[t] # "none"
        BY <3>1, <4>1, <4>2
      <4>4. InHand(t)'
        BY <3>1, <4>1
      <4>5. TaskPlace(t)'
        BY <4>2, <4>3, <4>4
      <4> QED BY <3>1, <4>1, <4>5
    <3>3. \A u \in Tasks : u # cur[w] => TaskPlace(u)'
      BY <3>1
    <3> QED BY <3>1, <3>2, <3>3
  <2>2. \A v \in Workers : WorkerPlace(v)'
    BY <1>19 DEF SettleRecord, workerVars
  <2> QED
    BY <2>1, <2>2
<1>20. ASSUME NEW w \in Workers, Publish(w) PROVE PlaceFixesRecord'
  <2>1. \A u \in Tasks : TaskPlace(u)'
    BY <1>20 DEF Publish, workerVars
  <2>2. \A v \in Workers : WorkerPlace(v)'
    BY <1>20 DEF Publish, workerVars
  <2> QED
    BY <2>1, <2>2
<1>21. ASSUME NEW w \in Workers, SettleUncount(w) PROVE PlaceFixesRecord'
  <2>1. \A u \in Tasks : TaskPlace(u)'
    BY <1>21 DEF SettleUncount, workerVars
  <2>2. \A v \in Workers : WorkerPlace(v)'
    BY <1>21 DEF SettleUncount, workerVars
  <2> QED
    BY <2>1, <2>2
<1>22. ASSUME NEW w \in Workers, Deliver(w) PROVE PlaceFixesRecord'
  <2>1. \A u \in Tasks : TaskPlace(u)'
    BY <1>22 DEF Deliver, workerVars
  <2>2. \A v \in Workers : WorkerPlace(v)'
    BY <1>22 DEF Deliver, workerVars
  <2> QED
    BY <2>1, <2>2
<1>23. ASSUME NEW w \in Workers, Park(w) PROVE PlaceFixesRecord'
  <2>1. \A u \in Tasks : TaskPlace(u)'
    BY <1>23 DEF Park, workerVars
  <2>2. \A v \in Workers : WorkerPlace(v)'
    BY <1>23 DEF Park, workerVars
  <2> QED
    BY <2>1, <2>2
<1>24. ASSUME NEW w \in Workers, WakeToStop(w) PROVE PlaceFixesRecord'
  <2>1. \A u \in Tasks : TaskPlace(u)'
    BY <1>24 DEF WakeToStop, workerVars
  <2>2. \A v \in Workers : WorkerPlace(v)'
    BY <1>24 DEF WakeToStop, workerVars
  <2> QED
    BY <2>1, <2>2
<1>25. ASSUME NEW w \in Workers, NEW t \in Tasks, DropQueued(w, t) PROVE PlaceFixesRecord'
  <2>1. \A u \in Tasks : TaskPlace(u)'
    BY <1>25 DEF DropQueued, workerVars
  <2>2. \A v \in Workers : WorkerPlace(v)'
    BY <1>25 DEF DropQueued, workerVars
  <2> QED
    BY <2>1, <2>2
<1>26. ASSUME NEW w \in Workers, NEW t \in Tasks, TakeTask(w, t) PROVE PlaceFixesRecord'
  <2>1. \A u \in Tasks : TaskPlace(u)'
    BY <1>26 DEF TakeTask, workerVars
  <2>2. \A v \in Workers : WorkerPlace(v)'
    BY <1>26 DEF TakeTask, workerVars
  <2> QED
    BY <2>1, <2>2
<1>27. CASE Shutdown
  BY <1>27 DEF Shutdown, workerVars
<1>28. CASE UNCHANGED vars
  BY <1>28 DEF vars, workerVars
<1> QED
  BY <1>1, <1>2, <1>3, <1>4, <1>5, <1>6, <1>7, <1>8, <1>9, <1>10, <1>11, <1>12, <1>13,
     <1>14, <1>15, <1>16, <1>17, <1>18, <1>19, <1>20, <1>21, <1>22, <1>23, <1>24, <1>25,
     <1>26, <1>27, <1>28
     DEF Next, Dispatch, Client, Worker

\* The inductive invariant holds in every reachable state: a task is never in
\* two places, is never run twice, and its payload waits for it.
THEOREM InductiveInvariant == Spec => []IInv
<1>1. Init => IInv
  BY InitIInv
<1>2. IInv /\ [Next]_vars => IInv'
  BY TypeStep, OwnerStep, RecordStep DEF IInv
<1> QED
  BY <1>1, <1>2, PTL DEF Spec

\* Every variable of the dispatcher keeps its type.
THEOREM TypeCorrect == Spec => []TypeOK
<1>1. IInv => TypeOK
  BY DEF IInv
<1> QED
  BY <1>1, InductiveInvariant, PTL

\* A task popped by a worker is in no other worker's hands and in no lane, and
\* a queued task still has the payload that the worker will look up.
THEOREM ExclusiveOwnership == Spec => []OneOwner
<1>1. IInv => OneOwner
  BY DEF IInv
<1> QED
  BY <1>1, InductiveInvariant, PTL

-----------------------------------------------------------------------------
(* The books of the telemetry.                                             *)

LEMMA InitGauge == Init => GaugeBalances
<1> SUFFICES ASSUME Init PROVE GaugeBalances
  OBVIOUS
<1>1. Counted = {} /\ Owing = {}
  BY DEF Init, Counted, Owing
<1>2. Booked = 0
  BY DEF Init, Booked, Final
<1> QED
  BY <1>1, <1>2, FS_EmptySet DEF GaugeBalances

\* An action that touches neither the tasks counted, nor the workers that owe
\* the gauge an update, nor the sum of the counters keeps the balance.
LEMMA GaugeUntouched ==
  ASSUME GaugeBalances, Counted' = Counted, Owing' = Owing, Booked' = Booked
  PROVE  GaugeBalances'
BY DEF GaugeBalances

LEMMA GaugeStep == TypeOK /\ GaugeBalances /\ [Next]_vars => GaugeBalances'
<1> SUFFICES ASSUME TypeOK, GaugeBalances, [Next]_vars PROVE GaugeBalances'
  OBVIOUS
<1>0. /\ IsFiniteSet(Counted)
      /\ IsFiniteSet(Owing)
      /\ Cardinality(Counted) \in Nat
      /\ Cardinality(Owing) \in Nat
  BY DispatcherAssumption, FS_Subset, FS_CardinalityType DEF Counted, Owing
<1>c. \A c \in Final \cup {"dispatched", "active"} : counter[c] \in Int
  BY DEF TypeOK
<1>1. ASSUME NEW t \in Tasks, DispatchSubmit(t) PROVE GaugeBalances'
  BY <1>1, GaugeUntouched DEF DispatchSubmit, Counted, Owing, Booked, TypeOK, workerVars
<1>2. ASSUME NEW t \in Tasks, DispatchCount(t) PROVE GaugeBalances'
  <2>1. Counted' = Counted \cup {t} /\ t \notin Counted
    BY <1>2 DEF DispatchCount, Counted, TypeOK
  <2>2. Owing' = Owing
    BY <1>2 DEF DispatchCount, Owing, workerVars
  <2>3. Booked' = Booked + 1
    BY <1>2, <1>c DEF DispatchCount, Booked, TypeOK, Final
  <2>4. Cardinality(Counted') = Cardinality(Counted) + 1
    BY <1>0, <2>1, FS_AddElement
  <2> QED
    BY <1>0, <2>2, <2>3, <2>4 DEF GaugeBalances
<1>3. ASSUME NEW t \in Tasks, DispatchNotify(t) PROVE GaugeBalances'
  BY <1>3, GaugeUntouched DEF DispatchNotify, NotifyOne, Counted, Owing, Booked, TypeOK, workerVars
<1>4. ASSUME NEW t \in Tasks, DispatchTotal(t) PROVE GaugeBalances'
  BY <1>4, GaugeUntouched DEF DispatchTotal, Counted, Owing, Booked, TypeOK, workerVars
<1>5. ASSUME NEW t \in Tasks, DispatchReport(t) PROVE GaugeBalances'
  BY <1>5, GaugeUntouched DEF DispatchReport, Counted, Owing, Booked, TypeOK, workerVars
<1>6. ASSUME NEW t \in Tasks, HandleCancel(t) PROVE GaugeBalances'
  BY <1>6, GaugeUntouched DEF HandleCancel, Counted, Owing, Booked, TypeOK, workerVars
<1>7. ASSUME NEW t \in Tasks, CancelTask(t) PROVE GaugeBalances'
  BY <1>7, GaugeUntouched DEF CancelTask, Counted, Owing, Booked, TypeOK, workerVars
<1>8. ASSUME NEW t \in Tasks, WaitBegin(t) PROVE GaugeBalances'
  BY <1>8, GaugeUntouched DEF WaitBegin, Counted, Owing, Booked, TypeOK, workerVars
<1>9. ASSUME NEW t \in Tasks, WaitEnd(t) PROVE GaugeBalances'
  BY <1>9, GaugeUntouched DEF WaitEnd, Counted, Owing, Booked, TypeOK, workerVars
<1>10. ASSUME NEW w \in Workers, LoopTop(w) PROVE GaugeBalances'
  BY <1>10, GaugeUntouched DEF LoopTop, Counted, Owing, Booked, TypeOK, workerVars
<1>11. ASSUME NEW w \in Workers, DropTotal(w) PROVE GaugeBalances'
  <2>1. Owing' = Owing \cup {w} /\ w \notin Owing
    BY <1>11 DEF DropTotal, Owing, TypeOK
  <2>2. Counted' = Counted
    BY <1>11 DEF DropTotal, Counted
  <2>3. Booked' = Booked + 1
    BY <1>11, <1>c DEF DropTotal, Booked, TypeOK, Final
  <2>4. Cardinality(Owing') = Cardinality(Owing) + 1
    BY <1>0, <2>1, FS_AddElement
  <2> QED
    BY <1>0, <2>2, <2>3, <2>4 DEF GaugeBalances
<1>12. ASSUME NEW w \in Workers, DropUncount(w) PROVE GaugeBalances'
  <2>1. Owing' = Owing \ {w} /\ w \in Owing
    BY <1>12 DEF DropUncount, Owing, TypeOK
  <2>2. Counted' = Counted
    BY <1>12 DEF DropUncount, Counted
  <2>3. Booked' = Booked - 1
    BY <1>12, <1>c DEF DropUncount, Booked, TypeOK, Final
  <2>4. Cardinality(Owing') = Cardinality(Owing) - 1
    BY <1>0, <2>1, FS_RemoveElement
  <2> QED
    BY <1>0, <2>2, <2>3, <2>4 DEF GaugeBalances
<1>13. ASSUME NEW w \in Workers, FindNothing(w) PROVE GaugeBalances'
  BY <1>13, GaugeUntouched DEF FindNothing, Counted, Owing, Booked, TypeOK, workerVars
<1>14. ASSUME NEW w \in Workers, Gate(w) PROVE GaugeBalances'
  BY <1>14, GaugeUntouched DEF Gate, Counted, Owing, Booked, TypeOK, workerVars
<1>15. ASSUME NEW w \in Workers, Start(w) PROVE GaugeBalances'
  BY <1>15, GaugeUntouched DEF Start, Counted, Owing, Booked, TypeOK, workerVars
<1>16. ASSUME NEW w \in Workers, RunEnd(w) PROVE GaugeBalances'
  BY <1>16, GaugeUntouched DEF RunEnd, Counted, Owing, Booked, TypeOK, workerVars
<1>17. ASSUME NEW w \in Workers, RunPanic(w) PROVE GaugeBalances'
  BY <1>17, GaugeUntouched DEF RunPanic, Counted, Owing, Booked, TypeOK, workerVars
<1>18. ASSUME NEW w \in Workers, SettleTotal(w) PROVE GaugeBalances'
  <2>1. Owing' = Owing \cup {w} /\ w \notin Owing
    BY <1>18 DEF SettleTotal, Owing, TypeOK
  <2>2. Counted' = Counted
    BY <1>18 DEF SettleTotal, Counted
  <2>3. Booked' = Booked + 1
    BY <1>18, <1>c DEF SettleTotal, Booked, TypeOK, Final
  <2>4. Cardinality(Owing') = Cardinality(Owing) + 1
    BY <1>0, <2>1, FS_AddElement
  <2> QED
    BY <1>0, <2>2, <2>3, <2>4 DEF GaugeBalances
<1>19. ASSUME NEW w \in Workers, SettleRecord(w) PROVE GaugeBalances'
  BY <1>19, GaugeUntouched DEF SettleRecord, Counted, Owing, Booked, TypeOK, workerVars
<1>20. ASSUME NEW w \in Workers, Publish(w) PROVE GaugeBalances'
  BY <1>20, GaugeUntouched DEF Publish, Counted, Owing, Booked, TypeOK, workerVars
<1>21. ASSUME NEW w \in Workers, SettleUncount(w) PROVE GaugeBalances'
  <2>1. Owing' = Owing \ {w} /\ w \in Owing
    BY <1>21 DEF SettleUncount, Owing, TypeOK
  <2>2. Counted' = Counted
    BY <1>21 DEF SettleUncount, Counted
  <2>3. Booked' = Booked - 1
    BY <1>21, <1>c DEF SettleUncount, Booked, TypeOK, Final
  <2>4. Cardinality(Owing') = Cardinality(Owing) - 1
    BY <1>0, <2>1, FS_RemoveElement
  <2> QED
    BY <1>0, <2>2, <2>3, <2>4 DEF GaugeBalances
<1>22. ASSUME NEW w \in Workers, Deliver(w) PROVE GaugeBalances'
  BY <1>22, GaugeUntouched DEF Deliver, Counted, Owing, Booked, TypeOK, workerVars
<1>23. ASSUME NEW w \in Workers, Park(w) PROVE GaugeBalances'
  BY <1>23, GaugeUntouched DEF Park, Counted, Owing, Booked, TypeOK, workerVars
<1>24. ASSUME NEW w \in Workers, WakeToStop(w) PROVE GaugeBalances'
  BY <1>24, GaugeUntouched DEF WakeToStop, Counted, Owing, Booked, TypeOK, workerVars
<1>25. ASSUME NEW w \in Workers, NEW t \in Tasks, DropQueued(w, t) PROVE GaugeBalances'
  BY <1>25, GaugeUntouched DEF DropQueued, Counted, Owing, Booked, TypeOK, workerVars
<1>26. ASSUME NEW w \in Workers, NEW t \in Tasks, TakeTask(w, t) PROVE GaugeBalances'
  BY <1>26, GaugeUntouched DEF TakeTask, Counted, Owing, Booked, TypeOK, workerVars
<1>27. CASE Shutdown
  BY <1>27, GaugeUntouched DEF Shutdown, Counted, Owing, Booked, workerVars
<1>28. CASE UNCHANGED vars
  BY <1>28, GaugeUntouched DEF vars, Counted, Owing, Booked, workerVars
<1> QED
  BY <1>1, <1>2, <1>3, <1>4, <1>5, <1>6, <1>7, <1>8, <1>9, <1>10, <1>11, <1>12, <1>13,
     <1>14, <1>15, <1>16, <1>17, <1>18, <1>19, <1>20, <1>21, <1>22, <1>23, <1>24, <1>25,
     <1>26, <1>27, <1>28
     DEF Next, Dispatch, Client, Worker

\* The tasks whose record says r, and the workers about to write it.
Recorded(r) == {t \in Tasks : record[t] = r}

Ahead(r) == {w \in Workers : pc[w] = "record" /\ result[w] = r}

LEMMA InitTotals == Init => TotalMatches("Completed") /\ TotalMatches("Failed")
<1> SUFFICES ASSUME Init, NEW r \in {"Completed", "Failed"} PROVE TotalMatches(r)
  OBVIOUS
<1>1. {t \in Tasks : record[t] = r} = {} /\ {w \in Workers : pc[w] = "record" /\ result[w] = r} = {}
  BY DEF Init
<1>2. counter[r] = 0
  BY DEF Init, Final
<1> QED BY <1>1, <1>2, FS_EmptySet DEF TotalMatches

\* An action that moves no record into or out of r, no worker to or from its
\* record, and does not add to the total of r.
LEMMA TotalUntouched ==
  ASSUME NEW r \in {"Completed", "Failed"}, TotalMatches(r), Recorded(r)' = Recorded(r), Ahead(r)' = Ahead(r),
         counter'[r] = counter[r]
  PROVE  TotalMatches(r)'
BY DEF TotalMatches, Recorded, Ahead

LEMMA TotalStep ==
  ASSUME IInv, NEW r \in {"Completed", "Failed"}, TotalMatches(r), [Next]_vars
  PROVE  TotalMatches(r)'
<1>q. /\ record \in [Tasks -> Final \cup {"none", "Queued", "Running"}] /\ pc \in [Workers -> Step]
      /\ result \in [Workers -> Final]
      /\ counter \in [Final \cup {"dispatched", "active"} -> Int]
  BY DEF IInv, TypeOK
<1>r. r \in Final /\ r \notin {"Queued", "Running", "Cancelled", "none"}
  BY DEF Final
<1>0. /\ IsFiniteSet(Recorded(r)) /\ Cardinality(Recorded(r)) \in Nat
      /\ IsFiniteSet(Ahead(r)) /\ Cardinality(Ahead(r)) \in Nat
  BY DispatcherAssumption, FS_Subset, FS_CardinalityType DEF Recorded, Ahead
<1>m. /\ counter[r] = Cardinality(Recorded(r)) + Cardinality(Ahead(r))
      /\ TotalMatches(r)' <=> counter'[r] = Cardinality(Recorded(r)') + Cardinality(Ahead(r)')
  BY DEF TotalMatches, Recorded, Ahead
<1>1. ASSUME NEW t \in Tasks, DispatchSubmit(t) PROVE TotalMatches(r)'
  <2>1. record[t] = "none"
    BY <1>1 DEF DispatchSubmit, IInv, PlaceFixesRecord, TaskPlace
  <2> QED
    BY <1>1, <1>q, <1>r, <2>1, TotalUntouched DEF DispatchSubmit, Recorded, Ahead, workerVars
<1>2. ASSUME NEW w \in Workers, Start(w) PROVE TotalMatches(r)'
  <2>1. record[cur[w]] = "Queued"
    BY <1>2 DEF Start, IInv, PlaceFixesRecord, WorkerPlace
  <2> QED
    BY <1>2, <1>q, <1>r, <2>1, TotalUntouched DEF Start, Recorded, Ahead
<1>3. ASSUME NEW w \in Workers, SettleTotal(w) PROVE TotalMatches(r)'
  <2>1. Recorded(r)' = Recorded(r)
    BY <1>3 DEF SettleTotal, Recorded
  <2>2. CASE result[w] = r
    <3>1. Ahead(r)' = Ahead(r) \cup {w} /\ w \notin Ahead(r)
      BY <1>3, <1>q, <1>r, <2>2 DEF SettleTotal, Ahead
    <3>2. counter'[r] = counter[r] + 1
      BY <1>3, <1>q, <1>r, <2>2 DEF SettleTotal
    <3>3. Cardinality(Ahead(r)') = Cardinality(Ahead(r)) + 1
      BY <1>0, <3>1, FS_AddElement
    <3> QED
      BY <1>0, <1>m, <2>1, <3>2, <3>3
  <2>3. CASE result[w] # r
    <3>1. Ahead(r)' = Ahead(r) /\ counter'[r] = counter[r]
      BY <1>3, <1>q, <1>r, <2>3 DEF SettleTotal, Ahead
    <3> QED
      BY <2>1, <3>1, TotalUntouched
  <2> QED BY <2>2, <2>3
<1>4. ASSUME NEW w \in Workers, SettleRecord(w) PROVE TotalMatches(r)'
  <2>0. cur[w] \in Tasks /\ record[cur[w]] \in {"Queued", "Running"}
    BY <1>4 DEF SettleRecord, IInv, TypeOK, PlaceFixesRecord, WorkerPlace, HoldingTask
  <2>c. counter' = counter
    BY <1>4 DEF SettleRecord
  <2>1. CASE result[w] = r
    <3>1. /\ Ahead(r)' = Ahead(r) \ {w} /\ w \in Ahead(r)
          /\ Recorded(r)' = Recorded(r) \cup {cur[w]} /\ cur[w] \notin Recorded(r)
      BY <1>4, <1>q, <1>r, <2>0, <2>1 DEF SettleRecord, Ahead, Recorded
    <3>2. Cardinality(Ahead(r)') = Cardinality(Ahead(r)) - 1
      BY <1>0, <3>1, FS_RemoveElement
    <3>3. Cardinality(Recorded(r)') = Cardinality(Recorded(r)) + 1
      BY <1>0, <3>1, FS_AddElement
    <3> QED
      BY <1>0, <1>m, <2>c, <3>2, <3>3
  <2>2. CASE result[w] # r
    <3>1. Ahead(r)' = Ahead(r) /\ Recorded(r)' = Recorded(r)
      BY <1>4, <1>q, <1>r, <2>0, <2>2 DEF SettleRecord, Ahead, Recorded
    <3> QED
      BY <2>c, <3>1, TotalUntouched
  <2> QED BY <2>1, <2>2
<1>5. ASSUME NEW w \in Workers, LoopTop(w) \/ FindNothing(w) \/ Park(w) \/ WakeToStop(w) \/ RunPanic(w)
                                 \/ Publish(w) \/ \E t \in Tasks : DropQueued(w, t) \/ TakeTask(w, t)
      PROVE  TotalMatches(r)'
  <2>1. /\ pc[w] # "record" /\ pc'[w] # "record" /\ \A v \in Workers : v # w => pc'[v] = pc[v]
        /\ UNCHANGED <<record, result, counter>>
    BY <1>5, <1>q, <1>r DEF LoopTop, FindNothing, Park, WakeToStop, RunPanic, Publish, DropQueued, TakeTask
  <2>2. Recorded(r)' = Recorded(r) /\ Ahead(r)' = Ahead(r)
    BY <1>q, <1>r, <2>1 DEF Recorded, Ahead
  <2> QED BY <2>1, <2>2, TotalUntouched
<1>6. ASSUME NEW w \in Workers, Gate(w) \/ RunEnd(w) \/ Deliver(w) PROVE TotalMatches(r)'
  <2>1. /\ pc[w] # "record" /\ pc'[w] # "record" /\ \A v \in Workers : v # w => pc'[v] = pc[v]
        /\ UNCHANGED <<record, counter>>
        /\ \A v \in Workers : v # w => result'[v] = result[v]
    BY <1>6, <1>q, <1>r DEF Gate, RunEnd, Deliver
  <2>2. Recorded(r)' = Recorded(r) /\ Ahead(r)' = Ahead(r)
    BY <1>q, <1>r, <2>1 DEF Recorded, Ahead
  <2> QED BY <2>1, <2>2, TotalUntouched
<1>7. ASSUME NEW w \in Workers, DropTotal(w) \/ DropUncount(w) \/ SettleUncount(w) PROVE TotalMatches(r)'
  <2>1. /\ pc[w] # "record" /\ pc'[w] # "record" /\ \A v \in Workers : v # w => pc'[v] = pc[v]
        /\ UNCHANGED <<record, result>>
    BY <1>7, <1>q, <1>r DEF DropTotal, DropUncount, SettleUncount
  <2>2. Recorded(r)' = Recorded(r) /\ Ahead(r)' = Ahead(r)
    BY <1>q, <1>r, <2>1 DEF Recorded, Ahead
  <2>3. counter'[r] = counter[r]
    BY <1>7, <1>q, <1>r DEF DropTotal, DropUncount, SettleUncount, Final
  <2> QED BY <2>2, <2>3, TotalUntouched
<1>8. ASSUME NEW t \in Tasks, DispatchCount(t) \/ DispatchTotal(t) PROVE TotalMatches(r)'
  <2>1. counter'[r] = counter[r]
    BY <1>8, <1>q, <1>r DEF DispatchCount, DispatchTotal, Final
  <2> QED
    BY <1>8, <2>1, TotalUntouched DEF DispatchCount, DispatchTotal, Recorded, Ahead, workerVars
<1>9. ASSUME NEW t \in Tasks, DispatchNotify(t) PROVE TotalMatches(r)'
  <2>1. \A v \in Workers : pc'[v] = "record" <=> pc[v] = "record"
    BY <1>9, <1>q, <1>r DEF DispatchNotify, NotifyOne
  <2> QED
    BY <1>9, <2>1, TotalUntouched DEF DispatchNotify, Recorded, Ahead
<1>10. CASE UNCHANGED <<record, counter, pc, result>>
  BY <1>10, TotalUntouched DEF Recorded, Ahead
<1>11. ASSUME NEW t \in Tasks, DispatchReport(t) \/ Client(t) PROVE TotalMatches(r)'
  BY <1>10, <1>11 DEF DispatchReport, Client, HandleCancel, CancelTask, WaitBegin, WaitEnd, workerVars
<1>12. Shutdown \/ UNCHANGED vars => UNCHANGED <<record, counter, pc, result>>
  BY DEF Shutdown, vars, workerVars
<1> QED
  BY <1>1, <1>2, <1>3, <1>4, <1>5, <1>6, <1>7, <1>8, <1>9, <1>10, <1>11, <1>12
     DEF Next, Dispatch, Worker

\* The totals, the active gauge and the records account for every task ever
\* dispatched, whatever is cancelled, dropped in its lane or lost to a panic,
\* but for the updates a submitter or worker has yet to make.
THEOREM BooksAlwaysBalance == Spec => []BooksBalance
<1>1. Init => BooksBalance
  BY InitGauge, InitTotals DEF BooksBalance
<1>2. IInv /\ BooksBalance /\ [Next]_vars => BooksBalance'
  <2> SUFFICES ASSUME IInv, BooksBalance, [Next]_vars PROVE BooksBalance'
    OBVIOUS
  <2>1. GaugeBalances'
    BY GaugeStep DEF IInv, BooksBalance
  <2>2. TotalMatches("Completed")' /\ TotalMatches("Failed")'
    BY TotalStep DEF BooksBalance
  <2> QED BY <2>1, <2>2 DEF BooksBalance
<1> QED
  BY <1>1, <1>2, InductiveInvariant, PTL DEF Spec

-----------------------------------------------------------------------------
(* Events and records.                                                     *)

\* Publishing anything but a queueing adds its own place to the ends told.
LEMMA EndTold ==
  ASSUME NEW s \in Seq(Final \cup {"Queued"}), NEW e \in Final
  PROVE  /\ Ends(Append(s, e)) = Ends(s) \cup {Len(s) + 1}
         /\ Append(s, e)[Len(s) + 1] = e
         /\ Len(s) + 1 \in DOMAIN Append(s, e)
<1> USE DEF Ends, Final
<1>1. /\ DOMAIN Append(s, e) = 1..(Len(s) + 1)
      /\ Append(s, e)[Len(s) + 1] = e
      /\ \A i \in 1..Len(s) : Append(s, e)[i] = s[i]
  OBVIOUS
<1> QED
  BY <1>1

\* Publishing a queueing tells of no end and moves none.
LEMMA QueueingTold ==
  ASSUME NEW s \in Seq(Final \cup {"Queued"})
  PROVE  /\ Ends(Append(s, "Queued")) = Ends(s)
         /\ \A i \in DOMAIN s : /\ i \in DOMAIN Append(s, "Queued")
                                /\ Append(s, "Queued")[i] = s[i]
<1>1. /\ DOMAIN Append(s, "Queued") = 1..(Len(s) + 1)
      /\ Append(s, "Queued")[Len(s) + 1] = "Queued"
      /\ \A i \in 1..Len(s) : Append(s, "Queued")[i] = s[i]
  OBVIOUS
<1> QED
  BY <1>1 DEF Ends

\* What the invariant asks of one task.
Told(t) ==
  IF record[t] \in Final /\ ~ Unannounced(t)
  THEN \E i \in DOMAIN events[t] : Ends(events[t]) = {i} /\ events[t][i] = record[t]
  ELSE Ends(events[t]) = {}

LEMMA ToldKept ==
  ASSUME NEW t \in Tasks, Told(t), events'[t] = events[t], Unannounced(t)' = Unannounced(t),
         record'[t] = record[t] \/ (record[t] \notin Final /\ record'[t] \notin Final)
  PROVE  Told(t)'
BY DEF Told

\* The end of a task is published by the worker that holds it, after it has made
\* the record final: an earlier end would show in it.
LEMMA EventsStep == IInv /\ EventsMatchRecord /\ [Next]_vars => EventsMatchRecord'
<1> SUFFICES ASSUME IInv, EventsMatchRecord, [Next]_vars PROVE \A u \in Tasks : Told(u)'
  BY DEF EventsMatchRecord, Told
<1>q. /\ record \in [Tasks -> Final \cup {"none", "Queued", "Running"}] /\ pc \in [Workers -> Step]
      /\ events \in [Tasks -> Seq(Final \cup {"Queued"})] /\ cur \in [Workers -> Tasks \cup {NoTask}]
      /\ result \in [Workers -> Final] /\ \A t \in Tasks : Told(t)
  <2>1. \A t \in Tasks : Told(t)
    BY DEF EventsMatchRecord, Told
  <2> QED BY <2>1 DEF IInv, TypeOK
<1>w. ASSUME NEW w \in Workers, HoldingTask(w)
      PROVE  /\ cur[w] \in Tasks
             /\ pc[w] = "record" => record[cur[w]] \in {"Queued", "Running"}
             /\ pc[w] = "publish" => record[cur[w]] = result[w]
  BY <1>q, <1>w DEF IInv, PlaceFixesRecord, WorkerPlace
<1>1. ASSUME NEW t \in Tasks, DispatchSubmit(t) PROVE \A u \in Tasks : Told(u)'
  <2>1. record[t] = "none"
    BY <1>1 DEF DispatchSubmit, IInv, PlaceFixesRecord, TaskPlace
  <2> QED
    BY <1>1, <1>q, <2>1, ToldKept DEF DispatchSubmit, Final, Unannounced, workerVars
<1>2. ASSUME NEW t \in Tasks, DispatchReport(t) PROVE \A u \in Tasks : Told(u)'
  <2>1. /\ record' = record /\ \A u \in Tasks : Unannounced(u)' = Unannounced(u)
        /\ events' = [events EXCEPT ![t] = Append(events[t], "Queued")]
    BY <1>2 DEF DispatchReport, Unannounced, workerVars
  <2>2. \A u \in Tasks : u # t => Told(u)'
    BY <1>q, <2>1, ToldKept
  <2>3. events'[t] = Append(events[t], "Queued")
    BY <1>q, <2>1
  <2>4. /\ Ends(events'[t]) = Ends(events[t])
        /\ \A i \in DOMAIN events[t] : i \in DOMAIN events'[t] /\ events'[t][i] = events[t][i]
    BY <1>q, <2>3, QueueingTold
  <2>5. Told(t)'
    BY <1>q, <2>1, <2>4 DEF Told
  <2> QED BY <2>2, <2>5
<1>3. ASSUME NEW w \in Workers, Start(w) PROVE \A u \in Tasks : Told(u)'
  <2>1. record[cur[w]] = "Queued" /\ cur[w] \in Tasks
    BY <1>3, SMTT(20) DEF Start, IInv, TypeOK, PlaceFixesRecord, WorkerPlace, HoldingTask
  <2>2. \A u \in Tasks : Unannounced(u)' = Unannounced(u)
    BY <1>3, <1>q DEF Start, Unannounced
  <2>3. \A u \in Tasks : record'[u] = record[u] \/ (record[u] \notin Final /\ record'[u] \notin Final)
    BY <1>3, <1>q, <2>1 DEF Start, Final
  <2>4. events' = events
    BY <1>3 DEF Start
  <2> QED
    BY <1>q, <2>2, <2>3, <2>4, ToldKept
<1>4. ASSUME NEW w \in Workers, SettleRecord(w) PROVE \A u \in Tasks : Told(u)'
  <2>1. cur[w] \in Tasks /\ record[cur[w]] \notin Final
    BY <1>4, <1>w DEF SettleRecord, HoldingTask, Final
  <2>2. /\ record' = [record EXCEPT ![cur[w]] = result[w]] /\ UNCHANGED <<events, cur>>
        /\ pc[w] = "record" /\ pc' = [pc EXCEPT ![w] = "publish"]
    BY <1>4 DEF SettleRecord
  <2>3. Unannounced(cur[w])'
    BY <1>q, <2>2 DEF Unannounced
  <2>4. Told(cur[w])'
    BY <1>q, <2>1, <2>2, <2>3 DEF Told
  <2>5. ASSUME NEW u \in Tasks, u # cur[w] PROVE Told(u)'
    <3>1. Unannounced(u)' = Unannounced(u)
      BY <1>q, <2>2, <2>5 DEF Unannounced
    <3>2. record'[u] = record[u] /\ events'[u] = events[u] /\ Told(u)
      BY <1>q, <2>2, <2>5
    <3> QED BY <3>1, <3>2, ToldKept
  <2> QED BY <2>2, <2>4, <2>5
<1>5. ASSUME NEW w \in Workers, Publish(w) PROVE \A u \in Tasks : Told(u)'
  <2>1. cur[w] \in Tasks /\ result[w] \in Final /\ record[cur[w]] = result[w]
    BY <1>5, <1>w, <1>q DEF Publish, HoldingTask
  <2>2. /\ events' = [events EXCEPT ![cur[w]] = Append(events[cur[w]], result[w])]
        /\ UNCHANGED <<record, cur>> /\ pc[w] = "publish" /\ pc' = [pc EXCEPT ![w] = "deliver"]
    BY <1>5 DEF Publish
  <2>3. Ends(events[cur[w]]) = {}
    BY <1>q, <2>1, <2>2 DEF Told, Unannounced
  <2>4. ~ Unannounced(cur[w])'
    <3>1. \A v \in Workers : cur[v] = cur[w] => v = w
      BY <2>1 DEF IInv, OneOwner
    <3> QED BY <1>q, <2>2, <3>1 DEF Unannounced
  <2>5. Told(cur[w])'
    <3>1. PICK t \in Tasks : t = cur[w]
      BY <2>1
    <3>2. PICK e \in Final : e = result[w]
      BY <2>1
    <3>3. events'[t] = Append(events[t], e) /\ record'[t] = e
      BY <1>q, <2>1, <2>2, <3>1, <3>2
    <3>4. /\ Ends(events'[t]) = Ends(events[t]) \cup {Len(events[t]) + 1}
          /\ events'[t][Len(events[t]) + 1] = e
          /\ Len(events[t]) + 1 \in DOMAIN events'[t]
      <4>1. events[t] \in Seq(Final \cup {"Queued"})
        BY <1>q
      <4> QED BY <3>3, <4>1, EndTold
    <3>5. Ends(events'[t]) = {Len(events[t]) + 1}
      BY <2>3, <3>1, <3>4
    <3> DEFINE i == Len(events[t]) + 1
    <3>6. i \in DOMAIN events'[t] /\ Ends(events'[t]) = {i} /\ events'[t][i] = record'[t]
      BY <3>3, <3>4, <3>5
    <3>7. record'[t] \in Final /\ ~ Unannounced(t)'
      BY <2>2, <2>4, <3>1, <3>3
    <3> HIDE DEF i
    <3>8. Told(t)'
      BY <3>6, <3>7, Zenon DEF Told
    <3> QED BY <2>2, <3>1, <3>8
  <2>6. ASSUME NEW u \in Tasks, u # cur[w] PROVE Told(u)'
    <3>1. Unannounced(u)' = Unannounced(u)
      BY <1>q, <2>2, <2>6 DEF Unannounced
    <3>2. record'[u] = record[u] /\ events'[u] = events[u] /\ Told(u)
      BY <1>q, <2>1, <2>2, <2>6
    <3> QED BY <3>1, <3>2, ToldKept
  <2> QED BY <2>2, <2>5, <2>6
<1>6. ASSUME UNCHANGED <<record, events>>, \A u \in Tasks : Unannounced(u)' = Unannounced(u)
      PROVE  \A u \in Tasks : Told(u)'
  BY <1>6, <1>q, ToldKept
<1>7. ASSUME NEW w \in Workers, pc[w] # "publish", pc'[w] # "publish", UNCHANGED <<record, events>>,
             \A v \in Workers : v # w => pc'[v] = pc[v] /\ cur'[v] = cur[v]
      PROVE  \A u \in Tasks : Told(u)'
  <2>1. \A u \in Tasks : Unannounced(u)' = Unannounced(u)
    BY <1>7 DEF Unannounced
  <2> QED BY <1>6, <1>7, <2>1
<1>8. ASSUME NEW w \in Workers,
             LoopTop(w) \/ FindNothing(w) \/ Park(w) \/ WakeToStop(w) \/ RunPanic(w) \/ Deliver(w)
               \/ \E t \in Tasks : DropQueued(w, t) \/ TakeTask(w, t)
      PROVE  \A u \in Tasks : Told(u)'
  BY <1>7, <1>8, <1>q DEF LoopTop, FindNothing, Park, WakeToStop, RunPanic, Deliver, DropQueued, TakeTask
<1>9. ASSUME NEW w \in Workers,
             Gate(w) \/ RunEnd(w) \/ DropTotal(w) \/ DropUncount(w) \/ SettleTotal(w) \/ SettleUncount(w)
      PROVE  \A u \in Tasks : Told(u)'
  BY <1>7, <1>9, <1>q DEF Gate, RunEnd, DropTotal, DropUncount, SettleTotal, SettleUncount
<1>10. ASSUME NEW t \in Tasks, DispatchNotify(t) PROVE \A u \in Tasks : Told(u)'
  <2>1. \A v \in Workers : pc'[v] = "publish" <=> pc[v] = "publish"
    BY <1>10, <1>q DEF DispatchNotify, NotifyOne
  <2> QED
    BY <1>6, <1>10, <2>1 DEF DispatchNotify, Unannounced
<1>11. CASE UNCHANGED <<record, events, pc, cur>>
  BY <1>6, <1>11 DEF Unannounced
<1>12. ASSUME NEW t \in Tasks, DispatchCount(t) \/ DispatchTotal(t) \/ Client(t)
       PROVE  \A u \in Tasks : Told(u)'
  BY <1>11, <1>12
     DEF DispatchCount, DispatchTotal, Client, HandleCancel, CancelTask, WaitBegin, WaitEnd, workerVars
<1>13. Shutdown \/ UNCHANGED vars => UNCHANGED <<record, events, pc, cur>>
  BY DEF Shutdown, vars, workerVars
<1> QED
  BY <1>1, <1>2, <1>3, <1>4, <1>5, <1>8, <1>9, <1>10, <1>11, <1>12, <1>13
     DEF Next, Dispatch, Worker

\* The event stream of a task tells of its end at most once, after the record
\* shows that end, in whatever order dispatch() and the worker publish; only
\* the worker about to publish it may still owe it.
THEOREM EventsAlwaysMatch == Spec => []EventsMatchRecord
<1>1. Init => EventsMatchRecord
  BY DEF Init, EventsMatchRecord, Unannounced, Ends, Final
<1>2. IInv /\ EventsMatchRecord /\ [Next]_vars => EventsMatchRecord'
  BY EventsStep
<1> QED
  BY <1>1, <1>2, InductiveInvariant, PTL DEF Spec

-----------------------------------------------------------------------------
(* The refinement.                                                         *)

LEMMA InitRefines == Init => Lifecycle!Init
BY DEF Init, Lifecycle!Init

\* What the lifecycle sees of an answer given to one task.
LEMMA AnswerOfOneTask ==
  ASSUME TypeOK, NEW t \in Tasks, NEW a, a # "waiting", answer' = [answer EXCEPT ![t] = a]
  PROVE  [u \in Tasks |-> IF answer'[u] = "waiting" THEN "none" ELSE answer'[u]]
           = [[u \in Tasks |-> IF answer[u] = "waiting" THEN "none" ELSE answer[u]]
                EXCEPT ![t] = a]
BY DEF TypeOK

LEMMA StepRefines == IInv /\ [Next]_vars => [Lifecycle!Next]_Lifecycle!lifecycleVars
<1> SUFFICES ASSUME IInv, [Next]_vars PROVE [Lifecycle!Next]_Lifecycle!lifecycleVars
  OBVIOUS
<1>0. \A w \in Workers : HoldingTask(w) => cur[w] \in Tasks
  BY DEF IInv, TypeOK, PlaceFixesRecord, WorkerPlace, HoldingTask
<1> USE DEF Lifecycle!lifecycleVars
<1>1. ASSUME NEW t \in Tasks, DispatchSubmit(t) PROVE Lifecycle!Forward(t, "Queued")
  BY <1>1 DEF DispatchSubmit, Lifecycle!Forward, IInv, PlaceFixesRecord, TaskPlace
<1>2. ASSUME NEW w \in Workers, Start(w) PROVE Lifecycle!Forward(cur[w], "Running")
  BY <1>0, <1>2 DEF Start, Lifecycle!Forward, IInv, PlaceFixesRecord, WorkerPlace, HoldingTask
<1>3. ASSUME NEW w \in Workers, SettleRecord(w) PROVE Lifecycle!Forward(cur[w], result[w])
  BY <1>0, <1>3 DEF SettleRecord, Lifecycle!Forward, Lifecycle!Final, IInv, TypeOK, Final,
     PlaceFixesRecord, WorkerPlace, HoldingTask
<1>4. ASSUME NEW t \in Tasks, WaitBegin(t)
      PROVE Lifecycle!Answer(t, "Cancelled") \/ UNCHANGED Lifecycle!lifecycleVars
  <2>0. record[t] # "none"
    BY <1>4 DEF WaitBegin, IInv, PlaceFixesRecord, TaskPlace, TypeOK
  <2>1. CASE TokenCancelled(t)
    BY <1>4, <2>0, <2>1, AnswerOfOneTask DEF WaitBegin, Lifecycle!Answer, IInv
  <2>2. CASE ~ TokenCancelled(t)
    BY <1>4, <2>2 DEF WaitBegin, IInv, TypeOK
  <2> QED
    BY <2>1, <2>2
<1>5. ASSUME NEW t \in Tasks, WaitEnd(t)
      PROVE \E a \in Final \cup {"Internal"} : Lifecycle!Answer(t, a)
  <2>1. record[t] # "none"
    BY <1>5 DEF WaitEnd, IInv, PlaceFixesRecord, TaskPlace
  <2>2. PICK a \in Final \cup {"Internal"} :
          /\ answer' = [answer EXCEPT ![t] = a]
          /\ \/ a \in {"Completed", "Failed"} /\ record[t] = a
             \/ a = "Cancelled"
             \/ a = "Internal" /\ record[t] = "Running"
    BY <1>5 DEF WaitEnd, IInv, PlaceFixesRecord, TaskPlace, Final
  <2>3. a # "waiting" /\ UNCHANGED record
    BY <1>5 DEF WaitEnd, Final
  <2> QED
    BY <1>5, <2>1, <2>2, <2>3, AnswerOfOneTask DEF WaitEnd, Lifecycle!Answer, IInv
<1>6. ASSUME UNCHANGED <<record, answer>> PROVE UNCHANGED Lifecycle!lifecycleVars
  BY <1>6
<1> HIDE DEF Lifecycle!lifecycleVars
<1>7. \/ \E t \in Tasks : DispatchSubmit(t) \/ WaitBegin(t) \/ WaitEnd(t)
      \/ \E w \in Workers : Start(w) \/ SettleRecord(w)
      \/ UNCHANGED <<record, answer>>
  BY DEF Next, Dispatch, Client, Worker, DispatchCount, DispatchNotify, DispatchTotal,
     DispatchReport, HandleCancel, CancelTask, LoopTop, DropQueued, DropTotal, DropUncount,
     TakeTask, FindNothing, Gate, RunEnd, RunPanic, SettleTotal, Publish, SettleUncount,
     Deliver, Park, WakeToStop, Shutdown, vars, workerVars
<1> QED
  BY <1>0, <1>1, <1>2, <1>3, <1>4, <1>5, <1>6, <1>7
     DEF Lifecycle!Next, Lifecycle!Final, Final, IInv, TypeOK, Start, SettleRecord, HoldingTask

\* The dispatcher implements the task lifecycle: however dispatches, workers,
\* cancellations, a shutdown and panics interleave, a record only moves forward,
\* and a waiter is told a result only after the record states it.
THEOREM RefinesTaskLifecycle == Spec => ImplementsTaskLifecycle
<1>1. Init => Lifecycle!Init
  BY InitRefines
<1>2. IInv /\ [Next]_vars => [Lifecycle!Next]_Lifecycle!lifecycleVars
  BY StepRefines
<1> QED
  BY <1>1, <1>2, InductiveInvariant, PTL DEF Spec, ImplementsTaskLifecycle, Lifecycle!Spec

\* Every task and its payload have one owner.
THEOREM AlwaysOwned == Spec => []TasksOwned
<1>1. IInv => TasksOwned
  BY DEF IInv, TasksOwned
<1> QED BY <1>1, InductiveInvariant, PTL
=============================================================================
