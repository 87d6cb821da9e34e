------------------------- MODULE RestRLDaemonProofs -------------------------
(***************************************************************************)
(* Theorems about RestRLDaemon, for any tasks, ids (also ids used twice),  *)
(* calls and numbers of samples.                                           *)
(***************************************************************************)
EXTENDS RestRLDaemon, SequenceTheorems, TLAPS

\* Every queued id names a task, and a task is filed under its own id.
QueueListed ==
  /\ \A i \in DOMAIN taskQueue : tasks[taskQueue[i]] # None
  /\ \A i \in Ids : tasks[i] # None => IdOf[tasks[i]] = i

\* While no start follows a stop, what the stop has written stands.
StopStands ==
  \A c \in calm : /\ call[c] \in {"half", "killing", "done"}
                  /\ ~isIdle
                  /\ call[c] # "half" => pauseSet

\* The worker cannot begin work again without passing a check from its start.
Spent ==
  /\ pc \notin {"peek", "mark", "saveRunning", "enter", "sample"}
  /\ pc \in {"baseline", "candidate"} => proc # "none"
  /\ pc \in {"before", "after"} => reads = 1

StrayFits == stray = 0 \/ (stray = 1 /\ Quiet /\ Spent)

\* The inductive invariant.
IInv == TypeOK /\ QueueListed /\ WorksOnHead /\ StopStands /\ StrayFits

LEMMA InitIInv == Init => IInv
<1> SUFFICES ASSUME Init PROVE IInv
  OBVIOUS
<1> USE TaskAssumption DEF Init
<1>1. TypeOK
  <2>1. taskQueue \in Seq(Ids) /\ resolved \in Seq(Tasks) /\ delivered \in Seq(Tasks) /\ dbResolutions \in Seq(Tasks)
    OBVIOUS
  <2>2. call \in [Calls -> {"todo", "saving", "half", "killing", "done"}]
    OBVIOUS
  <2>3. sample \in 0 .. Samples - 1 /\ reads \in 1 .. 3 /\ stray \in Nat
    OBVIOUS
  <2> QED
    BY <2>1, <2>2, <2>3 DEF TypeOK
<1>2. QueueListed /\ WorksOnHead
  BY DEF QueueListed, WorksOnHead, Holding, Rollout
<1>3. StopStands /\ StrayFits
  BY DEF StopStands, StrayFits
<1> QED
  BY <1>1, <1>2, <1>3 DEF IInv

\* Each action keeps the types.
LEMMA TypeStep == IInv /\ [Next]_vars => TypeOK'
<1> SUFFICES ASSUME IInv, [Next]_vars PROVE TypeOK'
  OBVIOUS
<1> TypeOK
  BY DEF IInv
<1> QueueListed
  BY DEF IInv
<1> USE TaskAssumption DEF TypeOK, Calls, Checking, Holding, Rollout, States, flags, queueVars, results, dbVars, place, history
<1>1. ASSUME NEW t \in Tasks, Enqueue(t) PROVE TypeOK'
  BY <1>1 DEF Enqueue
<1>2. ASSUME NEW t \in Tasks, EnqueueSave(t) PROVE TypeOK'
  BY <1>2 DEF EnqueueSave
<1>3. ASSUME NEW c \in Starts, StartIdle(c) PROVE TypeOK'
  BY <1>3 DEF StartIdle, Disturb
<1>4. ASSUME NEW c \in Starts, StartResume(c) PROVE TypeOK'
  BY <1>4 DEF StartResume, Disturb
<1>5. ASSUME NEW c \in Stops, StopIdle(c) PROVE TypeOK'
  <2>1. call' \in [Calls -> {"todo", "saving", "half", "killing", "done"}]
    BY <1>5 DEF StopIdle
  <2>2. isIdle' \in BOOLEAN /\ calm' \subseteq Stops
    BY <1>5 DEF StopIdle
  <2>3. UNCHANGED <<pauseSet, running, queueVars, state, results, dbVars, adapter, place, proc, stray>>
    BY <1>5 DEF StopIdle
  <2> QED
    BY <2>1, <2>2, <2>3
<1>6. ASSUME NEW c \in Stops, StopPause(c) PROVE TypeOK'
  <2>1. call' \in [Calls -> {"todo", "saving", "half", "killing", "done"}]
    BY <1>6 DEF StopPause
  <2>2. pauseSet' \in BOOLEAN
    BY <1>6 DEF StopPause
  <2>3. UNCHANGED <<isIdle, running, queueVars, state, results, dbVars, adapter, place, proc, history>>
    BY <1>6 DEF StopPause
  <2> QED
    BY <2>1, <2>2, <2>3
<1>7. ASSUME NEW c \in Stops, StopKill(c) PROVE TypeOK'
  BY <1>7 DEF StopKill
<1>8. ASSUME NEW c \in Quits, QuitRun(c) PROVE TypeOK'
  BY <1>8 DEF QuitRun
<1>9. ASSUME NEW c \in Quits, QuitPause(c) PROVE TypeOK'
  BY <1>9 DEF QuitPause
<1>10. ASSUME Poll PROVE TypeOK'
  BY <1>10 DEF Poll
<1>11. ASSUME Peek PROVE TypeOK'
  <2>1. CASE taskQueue = <<>>
    BY <1>11, <2>1 DEF Peek, Step
  <2>2. CASE taskQueue # <<>>
    <3>1. Head(taskQueue) = taskQueue[1] /\ 1 \in DOMAIN taskQueue /\ taskQueue[1] \in Ids
      BY <2>2
    <3>2. tasks[Head(taskQueue)] \in Tasks
      BY <3>1 DEF QueueListed
    <3> QED
      BY <1>11, <2>2, <3>2 DEF Peek, Step
  <2> QED
    BY <2>1, <2>2
<1>12. ASSUME Mark PROVE TypeOK'
  BY <1>12 DEF Mark, Step
<1>13. ASSUME SaveRunning PROVE TypeOK'
  BY <1>13 DEF SaveRunning, Step, Save
<1>14. ASSUME Pause PROVE TypeOK'
  BY <1>14 DEF Pause, Step
<1>15. ASSUME SavePaused PROVE TypeOK'
  BY <1>15 DEF SavePaused, Step, Save
<1>16. ASSUME Complete PROVE TypeOK'
  BY <1>16 DEF Complete, Step
<1>17. ASSUME Resolve PROVE TypeOK'
  BY <1>17 DEF Resolve, Step, PopOwn
<1>18. ASSUME SaveDone PROVE TypeOK'
  BY <1>18 DEF SaveDone, Step, Save
<1>19. ASSUME SaveResolution PROVE TypeOK'
  BY <1>19 DEF SaveResolution, Step
<1>20. ASSUME Fail PROVE TypeOK'
  BY <1>20 DEF Fail, Step
<1>21. ASSUME SaveFailed PROVE TypeOK'
  BY <1>21 DEF SaveFailed, Step, Save
<1>22. ASSUME Drop PROVE TypeOK'
  BY <1>22 DEF Drop, Step, PopOwn
<1>23. ASSUME ReadOn PROVE TypeOK'
  BY <1>23 DEF ReadOn, ReadClear, Checking, Clear, ReadOrder
<1>24. ASSUME GoOn PROVE TypeOK'
  BY <1>24 DEF GoOn, ReadClear, Checking, Clear, ReadOrder
<1>25. ASSUME Sleep PROVE TypeOK'
  BY <1>25 DEF Sleep, ReadBlocked, Checking
<1>26. ASSUME Yield PROVE TypeOK'
  BY <1>26 DEF Yield, ReadBlocked, Checking
<1>27. ASSUME Enter PROVE TypeOK'
  BY <1>27 DEF Enter
<1>28. ASSUME Sample PROVE TypeOK'
  BY <1>28 DEF Sample, Step, BeginWork, Quiet
<1>29. ASSUME Spawn PROVE TypeOK'
  BY <1>29 DEF Spawn, BeginWork, Quiet
<1>30. ASSUME Register PROVE TypeOK'
  BY <1>30 DEF Register
<1>31. ASSUME NEW passed \in BOOLEAN, TestEnds(passed) PROVE TypeOK'
  BY <1>31 DEF TestEnds, Judge
<1>32. ASSUME Reject PROVE TypeOK'
  BY <1>32 DEF Reject, Judge
<1>33. ASSUME Raise PROVE TypeOK'
  BY <1>33 DEF Raise
<1>34. CASE UNCHANGED vars
  BY <1>34 DEF vars
<1> QED
  BY <1>1, <1>2, <1>3, <1>4, <1>5, <1>6, <1>7, <1>8, <1>9, <1>10, <1>11, <1>12,
     <1>13, <1>14, <1>15, <1>16, <1>17, <1>18, <1>19, <1>20, <1>21, <1>22, <1>23, <1>24,
     <1>25, <1>26, <1>27, <1>28, <1>29, <1>30, <1>31, <1>32, <1>33, <1>34
     DEF Next, Arriving, Finishing, Worker, Loop, Check, Roll

\* Each action keeps queue and table of tasks together.
LEMMA ListedStep == IInv /\ [Next]_vars => QueueListed'
<1> SUFFICES ASSUME IInv, [Next]_vars PROVE QueueListed'
  OBVIOUS
<1> TypeOK
  BY DEF IInv
<1> QueueListed
  BY DEF IInv
<1> USE TaskAssumption DEF TypeOK, QueueListed, flags, queueVars, results, dbVars, place, history
<1>1. ASSUME NEW t \in Tasks, Enqueue(t) PROVE QueueListed'
  BY <1>1 DEF Enqueue
<1>2. ASSUME NEW t \in Tasks, EnqueueSave(t) PROVE QueueListed'
  BY <1>2 DEF EnqueueSave
<1>3. ASSUME NEW c \in Starts, StartIdle(c) PROVE QueueListed'
  BY <1>3 DEF StartIdle, Disturb
<1>4. ASSUME NEW c \in Starts, StartResume(c) PROVE QueueListed'
  BY <1>4 DEF StartResume, Disturb
<1>5. ASSUME NEW c \in Stops, StopIdle(c) PROVE QueueListed'
  BY <1>5 DEF StopIdle
<1>6. ASSUME NEW c \in Stops, StopPause(c) PROVE QueueListed'
  BY <1>6 DEF StopPause
<1>7. ASSUME NEW c \in Stops, StopKill(c) PROVE QueueListed'
  BY <1>7 DEF StopKill
<1>8. ASSUME NEW c \in Quits, QuitRun(c) PROVE QueueListed'
  BY <1>8 DEF QuitRun
<1>9. ASSUME NEW c \in Quits, QuitPause(c) PROVE QueueListed'
  BY <1>9 DEF QuitPause
<1>10. ASSUME Poll PROVE QueueListed'
  BY <1>10 DEF Poll
<1>11. ASSUME Peek PROVE QueueListed'
  BY <1>11 DEF Peek, Step
<1>12. ASSUME Mark PROVE QueueListed'
  BY <1>12 DEF Mark, Step
<1>13. ASSUME SaveRunning PROVE QueueListed'
  BY <1>13 DEF SaveRunning, Step, Save
<1>14. ASSUME Pause PROVE QueueListed'
  BY <1>14 DEF Pause, Step
<1>15. ASSUME SavePaused PROVE QueueListed'
  BY <1>15 DEF SavePaused, Step, Save
<1>16. ASSUME Complete PROVE QueueListed'
  BY <1>16 DEF Complete, Step
<1>17. ASSUME Resolve PROVE QueueListed'
  BY <1>17 DEF Resolve, Step, PopOwn
<1>18. ASSUME SaveDone PROVE QueueListed'
  BY <1>18 DEF SaveDone, Step, Save
<1>19. ASSUME SaveResolution PROVE QueueListed'
  BY <1>19 DEF SaveResolution, Step
<1>20. ASSUME Fail PROVE QueueListed'
  BY <1>20 DEF Fail, Step
<1>21. ASSUME SaveFailed PROVE QueueListed'
  BY <1>21 DEF SaveFailed, Step, Save
<1>22. ASSUME Drop PROVE QueueListed'
  BY <1>22 DEF Drop, Step, PopOwn
<1>23. ASSUME ReadOn PROVE QueueListed'
  BY <1>23 DEF ReadOn, ReadClear, Checking, Clear, ReadOrder
<1>24. ASSUME GoOn PROVE QueueListed'
  BY <1>24 DEF GoOn, ReadClear, Checking, Clear, ReadOrder
<1>25. ASSUME Sleep PROVE QueueListed'
  BY <1>25 DEF Sleep, ReadBlocked, Checking
<1>26. ASSUME Yield PROVE QueueListed'
  BY <1>26 DEF Yield, ReadBlocked, Checking
<1>27. ASSUME Enter PROVE QueueListed'
  BY <1>27 DEF Enter
<1>28. ASSUME Sample PROVE QueueListed'
  BY <1>28 DEF Sample, Step, BeginWork, Quiet
<1>29. ASSUME Spawn PROVE QueueListed'
  BY <1>29 DEF Spawn, BeginWork, Quiet
<1>30. ASSUME Register PROVE QueueListed'
  BY <1>30 DEF Register
<1>31. ASSUME NEW passed \in BOOLEAN, TestEnds(passed) PROVE QueueListed'
  BY <1>31 DEF TestEnds, Judge
<1>32. ASSUME Reject PROVE QueueListed'
  BY <1>32 DEF Reject, Judge
<1>33. ASSUME Raise PROVE QueueListed'
  BY <1>33 DEF Raise
<1>34. CASE UNCHANGED vars
  BY <1>34 DEF vars
<1> QED
  BY <1>1, <1>2, <1>3, <1>4, <1>5, <1>6, <1>7, <1>8, <1>9, <1>10, <1>11, <1>12,
     <1>13, <1>14, <1>15, <1>16, <1>17, <1>18, <1>19, <1>20, <1>21, <1>22, <1>23, <1>24,
     <1>25, <1>26, <1>27, <1>28, <1>29, <1>30, <1>31, <1>32, <1>33, <1>34
     DEF Next, Arriving, Finishing, Worker, Loop, Check, Roll

\* The worker's task stays the head until the worker pops it.
LEMMA HeadStep == IInv /\ [Next]_vars => WorksOnHead'
<1> SUFFICES ASSUME IInv, [Next]_vars PROVE WorksOnHead'
  OBVIOUS
<1> TypeOK
  BY DEF IInv
<1> QueueListed /\ WorksOnHead
  BY DEF IInv
<1> USE TaskAssumption DEF TypeOK, QueueListed, WorksOnHead, Holding, Rollout, Checking, flags, queueVars, results, dbVars, place, history
<1>1. ASSUME NEW t \in Tasks, Enqueue(t) PROVE WorksOnHead'
  BY <1>1 DEF Enqueue
<1>2. ASSUME NEW t \in Tasks, EnqueueSave(t) PROVE WorksOnHead'
  BY <1>2 DEF EnqueueSave
<1>3. ASSUME NEW c \in Starts, StartIdle(c) PROVE WorksOnHead'
  BY <1>3 DEF StartIdle, Disturb
<1>4. ASSUME NEW c \in Starts, StartResume(c) PROVE WorksOnHead'
  BY <1>4 DEF StartResume, Disturb
<1>5. ASSUME NEW c \in Stops, StopIdle(c) PROVE WorksOnHead'
  BY <1>5 DEF StopIdle
<1>6. ASSUME NEW c \in Stops, StopPause(c) PROVE WorksOnHead'
  BY <1>6 DEF StopPause
<1>7. ASSUME NEW c \in Stops, StopKill(c) PROVE WorksOnHead'
  BY <1>7 DEF StopKill
<1>8. ASSUME NEW c \in Quits, QuitRun(c) PROVE WorksOnHead'
  BY <1>8 DEF QuitRun
<1>9. ASSUME NEW c \in Quits, QuitPause(c) PROVE WorksOnHead'
  BY <1>9 DEF QuitPause
<1>10. ASSUME Poll PROVE WorksOnHead'
  BY <1>10 DEF Poll
<1>11. ASSUME Peek PROVE WorksOnHead'
  BY <1>11 DEF Peek, Step
<1>12. ASSUME Mark PROVE WorksOnHead'
  BY <1>12 DEF Mark, Step
<1>13. ASSUME SaveRunning PROVE WorksOnHead'
  BY <1>13 DEF SaveRunning, Step, Save
<1>14. ASSUME Pause PROVE WorksOnHead'
  BY <1>14 DEF Pause, Step
<1>15. ASSUME SavePaused PROVE WorksOnHead'
  BY <1>15 DEF SavePaused, Step, Save
<1>16. ASSUME Complete PROVE WorksOnHead'
  BY <1>16 DEF Complete, Step
<1>17. ASSUME Resolve PROVE WorksOnHead'
  BY <1>17 DEF Resolve, Step, PopOwn
<1>18. ASSUME SaveDone PROVE WorksOnHead'
  BY <1>18 DEF SaveDone, Step, Save
<1>19. ASSUME SaveResolution PROVE WorksOnHead'
  BY <1>19 DEF SaveResolution, Step
<1>20. ASSUME Fail PROVE WorksOnHead'
  BY <1>20 DEF Fail, Step
<1>21. ASSUME SaveFailed PROVE WorksOnHead'
  BY <1>21 DEF SaveFailed, Step, Save
<1>22. ASSUME Drop PROVE WorksOnHead'
  BY <1>22 DEF Drop, Step, PopOwn
<1>23. ASSUME ReadOn PROVE WorksOnHead'
  BY <1>23 DEF ReadOn, ReadClear, Checking, Clear, ReadOrder
<1>24. ASSUME GoOn PROVE WorksOnHead'
  BY <1>24 DEF GoOn, ReadClear, Checking, Clear, ReadOrder
<1>25. ASSUME Sleep PROVE WorksOnHead'
  BY <1>25 DEF Sleep, ReadBlocked, Checking
<1>26. ASSUME Yield PROVE WorksOnHead'
  BY <1>26 DEF Yield, ReadBlocked, Checking
<1>27. ASSUME Enter PROVE WorksOnHead'
  BY <1>27 DEF Enter
<1>28. ASSUME Sample PROVE WorksOnHead'
  BY <1>28 DEF Sample, Step, BeginWork, Quiet
<1>29. ASSUME Spawn PROVE WorksOnHead'
  BY <1>29 DEF Spawn, BeginWork, Quiet
<1>30. ASSUME Register PROVE WorksOnHead'
  BY <1>30 DEF Register
<1>31. ASSUME NEW passed \in BOOLEAN, TestEnds(passed) PROVE WorksOnHead'
  BY <1>31 DEF TestEnds, Judge
<1>32. ASSUME Reject PROVE WorksOnHead'
  BY <1>32 DEF Reject, Judge
<1>33. ASSUME Raise PROVE WorksOnHead'
  BY <1>33 DEF Raise
<1>34. CASE UNCHANGED vars
  BY <1>34 DEF vars
<1> QED
  BY <1>1, <1>2, <1>3, <1>4, <1>5, <1>6, <1>7, <1>8, <1>9, <1>10, <1>11, <1>12,
     <1>13, <1>14, <1>15, <1>16, <1>17, <1>18, <1>19, <1>20, <1>21, <1>22, <1>23, <1>24,
     <1>25, <1>26, <1>27, <1>28, <1>29, <1>30, <1>31, <1>32, <1>33, <1>34
     DEF Next, Arriving, Finishing, Worker, Loop, Check, Roll

\* Each action keeps what an undisturbed stop has written.
LEMMA StandsStep == IInv /\ [Next]_vars => StopStands'
<1> SUFFICES ASSUME IInv, [Next]_vars PROVE StopStands'
  OBVIOUS
<1> TypeOK
  BY DEF IInv
<1> StopStands
  BY DEF IInv
<1> USE TaskAssumption, CallAssumption DEF TypeOK, StopStands, Calls, flags, queueVars, results, dbVars, place, history
<1>1. ASSUME NEW t \in Tasks, Enqueue(t) PROVE StopStands'
  BY <1>1 DEF Enqueue
<1>2. ASSUME NEW t \in Tasks, EnqueueSave(t) PROVE StopStands'
  BY <1>2 DEF EnqueueSave
<1>3. ASSUME NEW c \in Starts, StartIdle(c) PROVE StopStands'
  BY <1>3 DEF StartIdle, Disturb
<1>4. ASSUME NEW c \in Starts, StartResume(c) PROVE StopStands'
  BY <1>4 DEF StartResume, Disturb
<1>5. ASSUME NEW c \in Stops, StopIdle(c) PROVE StopStands'
  BY <1>5 DEF StopIdle
<1>6. ASSUME NEW c \in Stops, StopPause(c) PROVE StopStands'
  BY <1>6 DEF StopPause
<1>7. ASSUME NEW c \in Stops, StopKill(c) PROVE StopStands'
  BY <1>7 DEF StopKill
<1>8. ASSUME NEW c \in Quits, QuitRun(c) PROVE StopStands'
  BY <1>8 DEF QuitRun
<1>9. ASSUME NEW c \in Quits, QuitPause(c) PROVE StopStands'
  BY <1>9 DEF QuitPause
<1>10. ASSUME Poll PROVE StopStands'
  BY <1>10 DEF Poll
<1>11. ASSUME Peek PROVE StopStands'
  BY <1>11 DEF Peek, Step
<1>12. ASSUME Mark PROVE StopStands'
  BY <1>12 DEF Mark, Step
<1>13. ASSUME SaveRunning PROVE StopStands'
  BY <1>13 DEF SaveRunning, Step, Save
<1>14. ASSUME Pause PROVE StopStands'
  BY <1>14 DEF Pause, Step
<1>15. ASSUME SavePaused PROVE StopStands'
  BY <1>15 DEF SavePaused, Step, Save
<1>16. ASSUME Complete PROVE StopStands'
  BY <1>16 DEF Complete, Step
<1>17. ASSUME Resolve PROVE StopStands'
  BY <1>17 DEF Resolve, Step, PopOwn
<1>18. ASSUME SaveDone PROVE StopStands'
  BY <1>18 DEF SaveDone, Step, Save
<1>19. ASSUME SaveResolution PROVE StopStands'
  BY <1>19 DEF SaveResolution, Step
<1>20. ASSUME Fail PROVE StopStands'
  BY <1>20 DEF Fail, Step
<1>21. ASSUME SaveFailed PROVE StopStands'
  BY <1>21 DEF SaveFailed, Step, Save
<1>22. ASSUME Drop PROVE StopStands'
  BY <1>22 DEF Drop, Step, PopOwn
<1>23. ASSUME ReadOn PROVE StopStands'
  BY <1>23 DEF ReadOn, ReadClear, Checking, Clear, ReadOrder
<1>24. ASSUME GoOn PROVE StopStands'
  BY <1>24 DEF GoOn, ReadClear, Checking, Clear, ReadOrder
<1>25. ASSUME Sleep PROVE StopStands'
  BY <1>25 DEF Sleep, ReadBlocked, Checking
<1>26. ASSUME Yield PROVE StopStands'
  BY <1>26 DEF Yield, ReadBlocked, Checking
<1>27. ASSUME Enter PROVE StopStands'
  BY <1>27 DEF Enter
<1>28. ASSUME Sample PROVE StopStands'
  BY <1>28 DEF Sample, Step, BeginWork, Quiet
<1>29. ASSUME Spawn PROVE StopStands'
  BY <1>29 DEF Spawn, BeginWork, Quiet
<1>30. ASSUME Register PROVE StopStands'
  BY <1>30 DEF Register
<1>31. ASSUME NEW passed \in BOOLEAN, TestEnds(passed) PROVE StopStands'
  BY <1>31 DEF TestEnds, Judge
<1>32. ASSUME Reject PROVE StopStands'
  BY <1>32 DEF Reject, Judge
<1>33. ASSUME Raise PROVE StopStands'
  BY <1>33 DEF Raise
<1>34. CASE UNCHANGED vars
  BY <1>34 DEF vars
<1> QED
  BY <1>1, <1>2, <1>3, <1>4, <1>5, <1>6, <1>7, <1>8, <1>9, <1>10, <1>11, <1>12,
     <1>13, <1>14, <1>15, <1>16, <1>17, <1>18, <1>19, <1>20, <1>21, <1>22, <1>23, <1>24,
     <1>25, <1>26, <1>27, <1>28, <1>29, <1>30, <1>31, <1>32, <1>33, <1>34
     DEF Next, Arriving, Finishing, Worker, Loop, Check, Roll

\* No second piece of work begins after a stop that nothing has disturbed.
LEMMA StrayStep == IInv /\ [Next]_vars => StrayFits'
<1> SUFFICES ASSUME IInv, [Next]_vars PROVE StrayFits'
  OBVIOUS
<1> TypeOK
  BY DEF IInv
<1> StopStands /\ StrayFits
  BY DEF IInv
<1> USE TaskAssumption, CallAssumption DEF TypeOK, StopStands, StrayFits, Spent, Quiet, Calls, flags, queueVars, results, dbVars, place, history
<1>1. ASSUME NEW t \in Tasks, Enqueue(t) PROVE StrayFits'
  BY <1>1 DEF Enqueue
<1>2. ASSUME NEW t \in Tasks, EnqueueSave(t) PROVE StrayFits'
  BY <1>2 DEF EnqueueSave
<1>3. ASSUME NEW c \in Starts, StartIdle(c) PROVE StrayFits'
  BY <1>3 DEF StartIdle, Disturb
<1>4. ASSUME NEW c \in Starts, StartResume(c) PROVE StrayFits'
  BY <1>4 DEF StartResume, Disturb
<1>5. ASSUME NEW c \in Stops, StopIdle(c) PROVE StrayFits'
  BY <1>5 DEF StopIdle
<1>6. ASSUME NEW c \in Stops, StopPause(c) PROVE StrayFits'
  BY <1>6 DEF StopPause
<1>7. ASSUME NEW c \in Stops, StopKill(c) PROVE StrayFits'
  BY <1>7 DEF StopKill
<1>8. ASSUME NEW c \in Quits, QuitRun(c) PROVE StrayFits'
  BY <1>8 DEF QuitRun
<1>9. ASSUME NEW c \in Quits, QuitPause(c) PROVE StrayFits'
  BY <1>9 DEF QuitPause
<1>10. ASSUME Poll PROVE StrayFits'
  BY <1>10 DEF Poll
<1>11. ASSUME Peek PROVE StrayFits'
  BY <1>11 DEF Peek, Step
<1>12. ASSUME Mark PROVE StrayFits'
  BY <1>12 DEF Mark, Step
<1>13. ASSUME SaveRunning PROVE StrayFits'
  BY <1>13 DEF SaveRunning, Step, Save
<1>14. ASSUME Pause PROVE StrayFits'
  BY <1>14 DEF Pause, Step
<1>15. ASSUME SavePaused PROVE StrayFits'
  BY <1>15 DEF SavePaused, Step, Save
<1>16. ASSUME Complete PROVE StrayFits'
  BY <1>16 DEF Complete, Step
<1>17. ASSUME Resolve PROVE StrayFits'
  BY <1>17 DEF Resolve, Step, PopOwn
<1>18. ASSUME SaveDone PROVE StrayFits'
  BY <1>18 DEF SaveDone, Step, Save
<1>19. ASSUME SaveResolution PROVE StrayFits'
  BY <1>19 DEF SaveResolution, Step
<1>20. ASSUME Fail PROVE StrayFits'
  BY <1>20 DEF Fail, Step
<1>21. ASSUME SaveFailed PROVE StrayFits'
  BY <1>21 DEF SaveFailed, Step, Save
<1>22. ASSUME Drop PROVE StrayFits'
  BY <1>22 DEF Drop, Step, PopOwn
<1>23. ASSUME ReadOn PROVE StrayFits'
  <2>1. CASE stray = 0
    BY <1>23, <2>1 DEF ReadOn
  <2>2. CASE stray = 1 /\ Quiet /\ Spent
    <3>1. ~isIdle /\ pauseSet
      BY <2>2
    <3>2. pc = "loop"
      <4> SUFFICES ASSUME pc # "loop" PROVE FALSE
        OBVIOUS
      <4>1. pc \in {"before", "after"} /\ reads = 1
        BY <1>23, <2>2 DEF ReadOn, ReadClear, Checking
      <4>2. ReadOrder[reads] = "idle"
        BY <4>1 DEF ReadOrder
      <4> QED
        BY <1>23, <3>1, <4>2 DEF ReadOn, ReadClear, Clear
    <3> QED
      BY <1>23, <2>2, <3>2 DEF ReadOn
  <2> QED
    BY <2>1, <2>2
<1>24. ASSUME GoOn PROVE StrayFits'
  <2>1. CASE stray = 0
    BY <1>24, <2>1 DEF GoOn
  <2>2. CASE stray = 1 /\ Quiet /\ Spent
    <3>1. ~isIdle /\ pauseSet
      BY <2>2
    <3>2. pc = "loop"
      BY <1>24, <2>2 DEF GoOn, ReadClear, Checking
    <3>3. ReadOrder[reads] = "pause"
      BY <1>24, <3>2 DEF GoOn, ReadOrder
    <3> QED
      BY <1>24, <3>1, <3>3 DEF GoOn, ReadClear, Clear
  <2> QED
    BY <2>1, <2>2
<1>25. ASSUME Sleep PROVE StrayFits'
  BY <1>25 DEF Sleep, ReadBlocked, Checking
<1>26. ASSUME Yield PROVE StrayFits'
  BY <1>26 DEF Yield, ReadBlocked, Checking
<1>27. ASSUME Enter PROVE StrayFits'
  BY <1>27 DEF Enter
<1>28. ASSUME Sample PROVE StrayFits'
  BY <1>28 DEF Sample, Step, BeginWork, Checking
<1>29. ASSUME Spawn PROVE StrayFits'
  BY <1>29 DEF Spawn, BeginWork, Quiet
<1>30. ASSUME Register PROVE StrayFits'
  BY <1>30 DEF Register
<1>31. ASSUME NEW passed \in BOOLEAN, TestEnds(passed) PROVE StrayFits'
  BY <1>31 DEF TestEnds, Judge, Checking
<1>32. ASSUME Reject PROVE StrayFits'
  BY <1>32 DEF Reject, Judge
<1>33. ASSUME Raise PROVE StrayFits'
  BY <1>33 DEF Raise
<1>34. CASE UNCHANGED vars
  BY <1>34 DEF vars
<1> QED
  BY <1>1, <1>2, <1>3, <1>4, <1>5, <1>6, <1>7, <1>8, <1>9, <1>10, <1>11, <1>12,
     <1>13, <1>14, <1>15, <1>16, <1>17, <1>18, <1>19, <1>20, <1>21, <1>22, <1>23, <1>24,
     <1>25, <1>26, <1>27, <1>28, <1>29, <1>30, <1>31, <1>32, <1>33, <1>34
     DEF Next, Arriving, Finishing, Worker, Loop, Check, Roll

\* The ids of the resolutions, one more task appended.
LEMMA IdsAppend ==
  ASSUME NEW s \in Seq(Tasks), NEW t \in Tasks
  PROVE  [i \in DOMAIN Append(s, t) |-> IdOf[Append(s, t)[i]]]
           = Append([i \in DOMAIN s |-> IdOf[s[i]]], IdOf[t])
<1> DEFINE ids == [i \in DOMAIN s |-> IdOf[s[i]]]
           more == [i \in DOMAIN Append(s, t) |-> IdOf[Append(s, t)[i]]]
<1>1. ids \in Seq(Ids) /\ Len(ids) = Len(s)
  BY TaskAssumption
<1>2. more \in Seq(Ids) /\ Len(more) = Len(s) + 1
  BY TaskAssumption
<1>3. Append(ids, IdOf[t]) \in Seq(Ids) /\ Len(Append(ids, IdOf[t])) = Len(s) + 1
  BY <1>1, TaskAssumption
<1>4. ASSUME NEW i \in 1 .. Len(s) + 1 PROVE more[i] = Append(ids, IdOf[t])[i]
  BY <1>1, <1>2
<1> QED
  BY <1>2, <1>3, <1>4, SeqEqual

\* Every step settles, adds or collects jobs as JobQueue does, or none.
LEMMA JobStep == IInv /\ [Next]_vars => [Jobs!Next]_(Jobs!vars)
<1> SUFFICES ASSUME IInv, [Next]_vars PROVE [Jobs!Next]_(Jobs!vars)
  OBVIOUS
<1> TypeOK /\ WorksOnHead
  BY DEF IInv
<1> USE TaskAssumption DEF flags, queueVars, results, dbVars, place, history
<1>1. ASSUME NEW t \in Tasks, Enqueue(t) PROVE [Jobs!Next]_(Jobs!vars)
  <2>1. Jobs!Submit
    BY <1>1 DEF Enqueue, Jobs!Submit
  <2> QED
    BY <2>1 DEF Jobs!Next
<1>2. ASSUME NEW t \in Tasks, EnqueueSave(t) PROVE [Jobs!Next]_(Jobs!vars)
  BY <1>2 DEF EnqueueSave, Jobs!vars
<1>3. ASSUME NEW c \in Starts, StartIdle(c) PROVE [Jobs!Next]_(Jobs!vars)
  BY <1>3 DEF StartIdle, Disturb, Jobs!vars
<1>4. ASSUME NEW c \in Starts, StartResume(c) PROVE [Jobs!Next]_(Jobs!vars)
  BY <1>4 DEF StartResume, Disturb, Jobs!vars
<1>5. ASSUME NEW c \in Stops, StopIdle(c) PROVE [Jobs!Next]_(Jobs!vars)
  BY <1>5 DEF StopIdle, Jobs!vars
<1>6. ASSUME NEW c \in Stops, StopPause(c) PROVE [Jobs!Next]_(Jobs!vars)
  BY <1>6 DEF StopPause, Jobs!vars
<1>7. ASSUME NEW c \in Stops, StopKill(c) PROVE [Jobs!Next]_(Jobs!vars)
  BY <1>7 DEF StopKill, Jobs!vars
<1>8. ASSUME NEW c \in Quits, QuitRun(c) PROVE [Jobs!Next]_(Jobs!vars)
  BY <1>8 DEF QuitRun, Jobs!vars
<1>9. ASSUME NEW c \in Quits, QuitPause(c) PROVE [Jobs!Next]_(Jobs!vars)
  BY <1>9 DEF QuitPause, Jobs!vars
<1>10. ASSUME Poll PROVE [Jobs!Next]_(Jobs!vars)
  <2>1. Jobs!Collect
    BY <1>10 DEF Poll, Jobs!Collect
  <2> QED
    BY <2>1 DEF Jobs!Next
<1>11. ASSUME Peek PROVE [Jobs!Next]_(Jobs!vars)
  BY <1>11 DEF Peek, Step, Jobs!vars
<1>12. ASSUME Mark PROVE [Jobs!Next]_(Jobs!vars)
  BY <1>12 DEF Mark, Step, Jobs!vars
<1>13. ASSUME SaveRunning PROVE [Jobs!Next]_(Jobs!vars)
  BY <1>13 DEF SaveRunning, Step, Save, Jobs!vars
<1>14. ASSUME Pause PROVE [Jobs!Next]_(Jobs!vars)
  BY <1>14 DEF Pause, Step, Jobs!vars
<1>15. ASSUME SavePaused PROVE [Jobs!Next]_(Jobs!vars)
  BY <1>15 DEF SavePaused, Step, Save, Jobs!vars
<1>16. ASSUME Complete PROVE [Jobs!Next]_(Jobs!vars)
  BY <1>16 DEF Complete, Step, Jobs!vars
<1>17. ASSUME Resolve PROVE [Jobs!Next]_(Jobs!vars)
  <2>1. taskQueue # <<>> /\ Head(taskQueue) = IdOf[job] /\ job \in Tasks
    BY <1>17 DEF Resolve, Step, WorksOnHead, Holding, TypeOK
  <2>2. taskQueue' = Tail(taskQueue) /\ resolved' = Append(resolved, job)
    BY <1>17, <2>1 DEF Resolve, PopOwn
  <2>3. [i \in DOMAIN resolved' |-> IdOf[resolved'[i]]] = Append([i \in DOMAIN resolved |-> IdOf[resolved[i]]], Head(taskQueue))
    BY <2>1, <2>2, IdsAppend DEF TypeOK
  <2>4. Jobs!Complete
    BY <2>1, <2>2, <2>3 DEF Jobs!Complete
  <2> QED
    BY <2>4 DEF Jobs!Next
<1>18. ASSUME SaveDone PROVE [Jobs!Next]_(Jobs!vars)
  BY <1>18 DEF SaveDone, Step, Save, Jobs!vars
<1>19. ASSUME SaveResolution PROVE [Jobs!Next]_(Jobs!vars)
  BY <1>19 DEF SaveResolution, Step, Jobs!vars
<1>20. ASSUME Fail PROVE [Jobs!Next]_(Jobs!vars)
  BY <1>20 DEF Fail, Step, Jobs!vars
<1>21. ASSUME SaveFailed PROVE [Jobs!Next]_(Jobs!vars)
  BY <1>21 DEF SaveFailed, Step, Save, Jobs!vars
<1>22. ASSUME Drop PROVE [Jobs!Next]_(Jobs!vars)
  <2>1. taskQueue # <<>> /\ Head(taskQueue) = IdOf[job]
    BY <1>22 DEF Drop, Step, WorksOnHead, Holding
  <2>2. Jobs!Fail
    BY <1>22, <2>1 DEF Drop, PopOwn, Jobs!Fail
  <2> QED
    BY <2>2 DEF Jobs!Next
<1>23. ASSUME ReadOn PROVE [Jobs!Next]_(Jobs!vars)
  BY <1>23 DEF ReadOn, ReadClear, Checking, Clear, ReadOrder, Jobs!vars
<1>24. ASSUME GoOn PROVE [Jobs!Next]_(Jobs!vars)
  BY <1>24 DEF GoOn, ReadClear, Checking, Clear, ReadOrder, Jobs!vars
<1>25. ASSUME Sleep PROVE [Jobs!Next]_(Jobs!vars)
  BY <1>25 DEF Sleep, ReadBlocked, Checking, Jobs!vars
<1>26. ASSUME Yield PROVE [Jobs!Next]_(Jobs!vars)
  BY <1>26 DEF Yield, ReadBlocked, Checking, Jobs!vars
<1>27. ASSUME Enter PROVE [Jobs!Next]_(Jobs!vars)
  BY <1>27 DEF Enter, Jobs!vars
<1>28. ASSUME Sample PROVE [Jobs!Next]_(Jobs!vars)
  BY <1>28 DEF Sample, Step, BeginWork, Quiet, Jobs!vars
<1>29. ASSUME Spawn PROVE [Jobs!Next]_(Jobs!vars)
  BY <1>29 DEF Spawn, BeginWork, Quiet, Jobs!vars
<1>30. ASSUME Register PROVE [Jobs!Next]_(Jobs!vars)
  BY <1>30 DEF Register, Jobs!vars
<1>31. ASSUME NEW passed \in BOOLEAN, TestEnds(passed) PROVE [Jobs!Next]_(Jobs!vars)
  BY <1>31 DEF TestEnds, Judge, Jobs!vars
<1>32. ASSUME Reject PROVE [Jobs!Next]_(Jobs!vars)
  BY <1>32 DEF Reject, Judge, Jobs!vars
<1>33. ASSUME Raise PROVE [Jobs!Next]_(Jobs!vars)
  BY <1>33 DEF Raise, Jobs!vars
<1>34. CASE UNCHANGED vars
  BY <1>34 DEF vars, Jobs!vars
<1> QED
  BY <1>1, <1>2, <1>3, <1>4, <1>5, <1>6, <1>7, <1>8, <1>9, <1>10, <1>11, <1>12,
     <1>13, <1>14, <1>15, <1>16, <1>17, <1>18, <1>19, <1>20, <1>21, <1>22, <1>23, <1>24,
     <1>25, <1>26, <1>27, <1>28, <1>29, <1>30, <1>31, <1>32, <1>33, <1>34
     DEF Next, Arriving, Finishing, Worker, Loop, Check, Roll

\* The daemon knows a task only once it has been enqueued.
Finished == Entries(resolved) \cup Entries(delivered)
Known ==
  /\ \A i \in Ids : tasks[i] # None => call[tasks[i]] # "todo"
  /\ job # None => call[job] # "todo"
  /\ \A t \in Finished : call[t] # "todo"

\* An id that one task has is in the queue once.
OnceQueued ==
  \A t \in Tasks : Sole(t) =>
    \A i, j \in DOMAIN taskQueue : taskQueue[i] = IdOf[t] /\ taskQueue[j] = IdOf[t] => i = j

\* What the worker is about to save is the state of its task.
SavesState ==
  /\ pc = "saveRunning" => state[job] = "RUNNING"
  /\ pc = "savePaused" => state[job] = "PAUSED"
  /\ pc \in {"resolve", "saveDone"} => state[job] = "COMPLETED"
  /\ pc = "saveFailed" => state[job] = "FAILED"

\* The resolutions handed out and to be handed out are those in the table, and
\* the one the worker is saving.
Filed ==
  delivered \o resolved = IF pc \in {"saveDone", "saveResolution"}
                          THEN Append(dbResolutions, job) ELSE dbResolutions

\* What the theorem on resolutions needs beside IInv.
Books == Known /\ OnceQueued /\ SavesState /\ Filed /\ ResolutionFinal /\ DbStateOrQueued

\* The places of the worker before a save.
Saving == {"saveRunning", "savePaused", "resolve", "saveDone", "saveFailed", "saveResolution"}

\* What the other steps leave alone.
Elsewhere ==
  /\ UNCHANGED <<queueVars, state, results, dbVars, job>>
  /\ \A t \in Tasks : call'[t] = call[t]
  /\ pc' = pc \/ {pc, pc'} \cap Saving = {}

Entering == \E t \in Tasks : Enqueue(t) \/ EnqueueSave(t)

\* A step of the books is one of these, or it takes place elsewhere.
LEMMA StepsOfBooks ==
  TypeOK /\ [Next]_vars => Entering \/ Poll \/ Loop \/ Elsewhere
<1> SUFFICES ASSUME TypeOK, [Next]_vars PROVE Entering \/ Poll \/ Loop \/ Elsewhere
  OBVIOUS
<1> USE CallAssumption DEF TypeOK, Calls, Saving, Elsewhere, flags, queueVars, results, dbVars, place, history
<1>1. ASSUME NEW c \in Starts, StartIdle(c) \/ StartResume(c) PROVE Elsewhere
  BY <1>1 DEF StartIdle, StartResume, Disturb
<1>2. ASSUME NEW c \in Stops, StopIdle(c) \/ StopPause(c) \/ StopKill(c) PROVE Elsewhere
  BY <1>2 DEF StopIdle, StopPause, StopKill
<1>3. ASSUME NEW c \in Quits, QuitRun(c) \/ QuitPause(c) PROVE Elsewhere
  BY <1>3 DEF QuitRun, QuitPause
<1>4. ASSUME ReadOn \/ GoOn \/ Sleep \/ Yield PROVE Elsewhere
  BY <1>4 DEF ReadOn, GoOn, Sleep, Yield, ReadClear, ReadBlocked, Checking
<1>5. ASSUME Enter \/ Sample \/ Spawn \/ Register PROVE Elsewhere
  BY <1>5 DEF Enter, Sample, Spawn, Register, Step, BeginWork
<1>6. ASSUME Reject \/ Raise \/ \E passed \in BOOLEAN : TestEnds(passed) PROVE Elsewhere
  BY <1>6 DEF Reject, Raise, TestEnds, Judge
<1>7. CASE UNCHANGED vars
  BY <1>7 DEF vars
<1> QED
  BY <1>1, <1>2, <1>3, <1>4, <1>5, <1>6, <1>7 DEF Next, Arriving, Finishing, Worker, Check, Roll, Entering

\* No step makes a task known that has not been enqueued.
LEMMA KnownStep == IInv /\ Books /\ [Next]_vars => Known'
<1> SUFFICES ASSUME IInv, Books, [Next]_vars PROVE Known'
  OBVIOUS
<1> TypeOK /\ QueueListed /\ WorksOnHead /\ Known
  BY DEF IInv, Books
<1> USE TaskAssumption DEF TypeOK, QueueListed, Known, Finished, Calls, Entries, flags, queueVars, results, dbVars, place, history
<1>1. ASSUME NEW t \in Tasks, Enqueue(t) PROVE Known'
  BY <1>1 DEF Enqueue
<1>2. ASSUME NEW t \in Tasks, EnqueueSave(t) PROVE Known'
  BY <1>2 DEF EnqueueSave
<1>3. ASSUME Poll PROVE Known'
  BY <1>3 DEF Poll
<1>4. ASSUME Peek PROVE Known'
  BY <1>4 DEF Peek, Step
<1>5. ASSUME Mark PROVE Known'
  BY <1>5 DEF Mark, Step
<1>6. ASSUME SaveRunning PROVE Known'
  BY <1>6 DEF SaveRunning, Step, Save
<1>7. ASSUME Pause PROVE Known'
  BY <1>7 DEF Pause, Step
<1>8. ASSUME SavePaused PROVE Known'
  BY <1>8 DEF SavePaused, Step, Save
<1>9. ASSUME Complete PROVE Known'
  BY <1>9 DEF Complete, Step
<1>10. ASSUME Resolve PROVE Known'
  BY <1>10 DEF Resolve, Step, PopOwn
<1>11. ASSUME SaveDone PROVE Known'
  BY <1>11 DEF SaveDone, Step, Save
<1>12. ASSUME SaveResolution PROVE Known'
  BY <1>12 DEF SaveResolution, Step
<1>13. ASSUME Fail PROVE Known'
  BY <1>13 DEF Fail, Step
<1>14. ASSUME SaveFailed PROVE Known'
  BY <1>14 DEF SaveFailed, Step, Save
<1>15. ASSUME Drop PROVE Known'
  BY <1>15 DEF Drop, Step, PopOwn
<1>16. ASSUME Elsewhere PROVE Known'
  BY <1>16 DEF Elsewhere, Saving
<1> QED
  BY StepsOfBooks, <1>1, <1>2, <1>3, <1>4, <1>5, <1>6, <1>7, <1>8, <1>9, <1>10, <1>11, <1>12, <1>13, <1>14, <1>15, <1>16 DEF Entering, Loop

\* A task that is alone with its id is not in the queue before it is enqueued.
LEMMA NotYetQueued ==
  ASSUME TypeOK, QueueListed, Known, NEW t \in Tasks, Sole(t), call[t] = "todo"
  PROVE  \A i \in DOMAIN taskQueue : taskQueue[i] # IdOf[t]
<1> SUFFICES ASSUME NEW i \in DOMAIN taskQueue, taskQueue[i] = IdOf[t] PROVE FALSE
  OBVIOUS
<1>1. taskQueue[i] \in Ids /\ tasks[taskQueue[i]] \in Tasks
  BY DEF TypeOK, QueueListed
<1>2. tasks[taskQueue[i]] = t
  BY <1>1 DEF QueueListed, Sole
<1> QED
  BY <1>1, <1>2, TaskAssumption DEF Known

\* An id of one task enters the queue once.
LEMMA OnceStep == IInv /\ Books /\ [Next]_vars => OnceQueued'
<1> SUFFICES ASSUME IInv, Books, [Next]_vars PROVE OnceQueued'
  OBVIOUS
<1> TypeOK /\ QueueListed /\ WorksOnHead /\ Known /\ OnceQueued
  BY DEF IInv, Books
<1>0. ASSUME taskQueue' = taskQueue PROVE OnceQueued'
  BY <1>0 DEF OnceQueued, Sole
<1> USE DEF flags, queueVars, results, dbVars, place, history
<1>1. ASSUME NEW t \in Tasks, Enqueue(t) PROVE OnceQueued'
  <2> USE TaskAssumption DEF TypeOK, QueueListed, Known, OnceQueued, Sole, Calls, Entries
  <2> SUFFICES ASSUME NEW u \in Tasks, Sole(u), NEW i \in DOMAIN taskQueue', NEW j \in DOMAIN taskQueue',
                      taskQueue'[i] = IdOf[u], taskQueue'[j] = IdOf[u]
               PROVE  i = j
    BY DEF OnceQueued, Sole
  <2>1. taskQueue' = Append(taskQueue, IdOf[t]) /\ call[t] = "todo"
    BY <1>1 DEF Enqueue
  <2>0. \A k \in DOMAIN taskQueue' :
          \/ k \in DOMAIN taskQueue /\ taskQueue'[k] = taskQueue[k]
          \/ k = Len(taskQueue) + 1
    BY <2>1
  <2>2. CASE u = t
    <3>1. \A k \in DOMAIN taskQueue : taskQueue[k] # IdOf[u]
      BY <2>1, <2>2, NotYetQueued
    <3> QED
      BY <2>0, <3>1
  <2>3. CASE u # t
    <3>1. IdOf[t] # IdOf[u] /\ taskQueue'[Len(taskQueue) + 1] = IdOf[t]
      BY <2>1, <2>3 DEF Sole
    <3> QED
      BY <2>0, <3>1
  <2> QED
    BY <2>2, <2>3
<1>2. ASSUME NEW t \in Tasks, EnqueueSave(t) PROVE OnceQueued'
  BY <1>0, <1>2 DEF EnqueueSave
<1>3. ASSUME Poll PROVE OnceQueued'
  BY <1>0, <1>3 DEF Poll
<1>4. ASSUME Peek PROVE OnceQueued'
  BY <1>0, <1>4 DEF Peek, Step
<1>5. ASSUME Mark PROVE OnceQueued'
  BY <1>0, <1>5 DEF Mark, Step
<1>6. ASSUME SaveRunning PROVE OnceQueued'
  BY <1>0, <1>6 DEF SaveRunning, Step, Save
<1>7. ASSUME Pause PROVE OnceQueued'
  BY <1>0, <1>7 DEF Pause, Step
<1>8. ASSUME SavePaused PROVE OnceQueued'
  BY <1>0, <1>8 DEF SavePaused, Step, Save
<1>9. ASSUME Complete PROVE OnceQueued'
  BY <1>0, <1>9 DEF Complete, Step
<1>10. ASSUME Resolve PROVE OnceQueued'
  <2> USE TaskAssumption DEF TypeOK, QueueListed, Known, OnceQueued, Sole, Calls, Entries
  <2> SUFFICES ASSUME taskQueue' = Tail(taskQueue), taskQueue # <<>> PROVE OnceQueued'
    BY <1>10 DEF Resolve, Step, PopOwn
  <2>1. \A i \in DOMAIN taskQueue' : i + 1 \in DOMAIN taskQueue /\ taskQueue'[i] = taskQueue[i + 1]
    OBVIOUS
  <2>2. DOMAIN taskQueue' \subseteq Nat
    OBVIOUS
  <2> QED
    BY <2>1, <2>2
<1>11. ASSUME SaveDone PROVE OnceQueued'
  BY <1>0, <1>11 DEF SaveDone, Step, Save
<1>12. ASSUME SaveResolution PROVE OnceQueued'
  BY <1>0, <1>12 DEF SaveResolution, Step
<1>13. ASSUME Fail PROVE OnceQueued'
  BY <1>0, <1>13 DEF Fail, Step
<1>14. ASSUME SaveFailed PROVE OnceQueued'
  BY <1>0, <1>14 DEF SaveFailed, Step, Save
<1>15. ASSUME Drop PROVE OnceQueued'
  <2> USE TaskAssumption DEF TypeOK, QueueListed, Known, OnceQueued, Sole, Calls, Entries
  <2> SUFFICES ASSUME taskQueue' = Tail(taskQueue), taskQueue # <<>> PROVE OnceQueued'
    BY <1>15 DEF Drop, Step, PopOwn
  <2>1. \A i \in DOMAIN taskQueue' : i + 1 \in DOMAIN taskQueue /\ taskQueue'[i] = taskQueue[i + 1]
    OBVIOUS
  <2>2. DOMAIN taskQueue' \subseteq Nat
    OBVIOUS
  <2> QED
    BY <2>1, <2>2
<1>16. ASSUME Elsewhere PROVE OnceQueued'
  BY <1>0, <1>16 DEF Elsewhere, Saving
<1> QED
  BY StepsOfBooks, <1>1, <1>2, <1>3, <1>4, <1>5, <1>6, <1>7, <1>8, <1>9, <1>10, <1>11, <1>12, <1>13, <1>14, <1>15, <1>16 DEF Entering, Loop

\* The worker saves the state that its task has.
LEMMA SavesStep == IInv /\ Books /\ [Next]_vars => SavesState'
<1> SUFFICES ASSUME IInv, Books, [Next]_vars PROVE SavesState'
  OBVIOUS
<1> TypeOK /\ QueueListed /\ WorksOnHead /\ Known /\ SavesState
  BY DEF IInv, Books
<1> USE TaskAssumption DEF TypeOK, Known, SavesState, Calls, Entries, flags, queueVars, results, dbVars, place, history
<1>1. ASSUME NEW t \in Tasks, Enqueue(t) PROVE SavesState'
  BY <1>1 DEF Enqueue
<1>2. ASSUME NEW t \in Tasks, EnqueueSave(t) PROVE SavesState'
  BY <1>2 DEF EnqueueSave
<1>3. ASSUME Poll PROVE SavesState'
  BY <1>3 DEF Poll
<1>4. ASSUME Peek PROVE SavesState'
  BY <1>4 DEF Peek, Step
<1>5. ASSUME Mark PROVE SavesState'
  BY <1>5 DEF Mark, Step
<1>6. ASSUME SaveRunning PROVE SavesState'
  BY <1>6 DEF SaveRunning, Step, Save
<1>7. ASSUME Pause PROVE SavesState'
  BY <1>7 DEF Pause, Step
<1>8. ASSUME SavePaused PROVE SavesState'
  BY <1>8 DEF SavePaused, Step, Save
<1>9. ASSUME Complete PROVE SavesState'
  BY <1>9 DEF Complete, Step
<1>10. ASSUME Resolve PROVE SavesState'
  BY <1>10 DEF Resolve, Step, PopOwn
<1>11. ASSUME SaveDone PROVE SavesState'
  BY <1>11 DEF SaveDone, Step, Save
<1>12. ASSUME SaveResolution PROVE SavesState'
  BY <1>12 DEF SaveResolution, Step
<1>13. ASSUME Fail PROVE SavesState'
  BY <1>13 DEF Fail, Step
<1>14. ASSUME SaveFailed PROVE SavesState'
  BY <1>14 DEF SaveFailed, Step, Save
<1>15. ASSUME Drop PROVE SavesState'
  BY <1>15 DEF Drop, Step, PopOwn
<1>16. ASSUME Elsewhere PROVE SavesState'
  BY <1>16 DEF Elsewhere, Saving
<1> QED
  BY StepsOfBooks, <1>1, <1>2, <1>3, <1>4, <1>5, <1>6, <1>7, <1>8, <1>9, <1>10, <1>11, <1>12, <1>13, <1>14, <1>15, <1>16 DEF Entering, Loop

\* Resolutions are filed as they are made and collected.
LEMMA FiledStep == IInv /\ Books /\ [Next]_vars => Filed'
<1> SUFFICES ASSUME IInv, Books, [Next]_vars PROVE Filed'
  OBVIOUS
<1> TypeOK /\ QueueListed /\ WorksOnHead /\ Filed
  BY DEF IInv, Books
<1> USE TaskAssumption DEF TypeOK, Filed, Entries, flags, queueVars, results, dbVars, place, history
<1>1. ASSUME NEW t \in Tasks, Enqueue(t) PROVE Filed'
  BY <1>1 DEF Enqueue
<1>2. ASSUME NEW t \in Tasks, EnqueueSave(t) PROVE Filed'
  BY <1>2 DEF EnqueueSave
<1>3. ASSUME Poll PROVE Filed'
  BY <1>3 DEF Poll
<1>4. ASSUME Peek PROVE Filed'
  BY <1>4 DEF Peek, Step
<1>5. ASSUME Mark PROVE Filed'
  BY <1>5 DEF Mark, Step
<1>6. ASSUME SaveRunning PROVE Filed'
  BY <1>6 DEF SaveRunning, Step, Save
<1>7. ASSUME Pause PROVE Filed'
  BY <1>7 DEF Pause, Step
<1>8. ASSUME SavePaused PROVE Filed'
  BY <1>8 DEF SavePaused, Step, Save
<1>9. ASSUME Complete PROVE Filed'
  BY <1>9 DEF Complete, Step
<1>10. ASSUME Resolve PROVE Filed'
  BY <1>10 DEF Resolve, Step, PopOwn
<1>11. ASSUME SaveDone PROVE Filed'
  BY <1>11 DEF SaveDone, Step, Save
<1>12. ASSUME SaveResolution PROVE Filed'
  BY <1>12 DEF SaveResolution, Step
<1>13. ASSUME Fail PROVE Filed'
  BY <1>13 DEF Fail, Step
<1>14. ASSUME SaveFailed PROVE Filed'
  BY <1>14 DEF SaveFailed, Step, Save
<1>15. ASSUME Drop PROVE Filed'
  BY <1>15 DEF Drop, Step, PopOwn
<1>16. ASSUME Elsewhere PROVE Filed'
  BY <1>16 DEF Elsewhere, Saving
<1> QED
  BY StepsOfBooks, <1>1, <1>2, <1>3, <1>4, <1>5, <1>6, <1>7, <1>8, <1>9, <1>10, <1>11, <1>12, <1>13, <1>14, <1>15, <1>16 DEF Entering, Loop

\* A task is finished by Resolve alone, and stays so.
LEMMA FinishedStep ==
  ASSUME TypeOK, Known, [Next]_vars
  PROVE  Finished' \subseteq Finished \cup (IF Resolve THEN {job} ELSE {})
<1> USE DEF TypeOK, Finished, Entries, flags, queueVars, results, dbVars, place, history
<1>1. ASSUME Entering PROVE Finished' \subseteq Finished
  BY <1>1 DEF Entering, Enqueue, EnqueueSave
<1>2. ASSUME Poll PROVE Finished' \subseteq Finished
  <2>1. delivered' = delivered \o resolved /\ resolved' = <<>>
    BY <1>2 DEF Poll
  <2>2. \A i \in DOMAIN delivered' : delivered'[i] \in Finished
    BY <2>1
  <2> QED
    BY <2>1, <2>2
<1>3. ASSUME Resolve PROVE Finished' \subseteq Finished \cup {job}
  <2>1. resolved' = Append(resolved, job) /\ delivered' = delivered
    BY <1>3 DEF Resolve
  <2> QED
    BY <2>1
<1>4. ASSUME Loop, ~Resolve PROVE Finished' \subseteq Finished
  BY <1>4 DEF Loop, Peek, Mark, SaveRunning, Pause, SavePaused, Complete, SaveDone, SaveResolution, Fail, SaveFailed, Drop
<1>5. ASSUME Elsewhere PROVE Finished' \subseteq Finished
  BY <1>5 DEF Elsewhere
<1> QED
  BY <1>1, <1>2, <1>3, <1>4, <1>5, StepsOfBooks

\* A task that is settled stays settled.
Settled(t) ==
  /\ state[t] = "COMPLETED"
  /\ \A i \in DOMAIN taskQueue : taskQueue[i] # IdOf[t]
  /\ currentTaskId # IdOf[t]

LEMMA SettledStep ==
  ASSUME IInv, Books, [Next]_vars,
         NEW t \in Tasks, Sole(t), call[t] # "todo", Settled(t)
  PROVE  Settled(t)'
<1> TypeOK /\ QueueListed /\ WorksOnHead /\ Known
  BY DEF IInv, Books
<1>1. pc \in Holding => job # t
  BY DEF WorksOnHead, Settled, TypeOK
<1> USE TaskAssumption DEF TypeOK, Settled, flags, queueVars, results, dbVars, place, history
<1>2. ASSUME NEW u \in Tasks, Enqueue(u) PROVE Settled(t)'
  <2>1. u # t /\ IdOf[u] # IdOf[t]
    BY <1>2 DEF Enqueue, Sole
  <2> QED
    BY <1>2, <2>1 DEF Enqueue
<1>3. ASSUME NEW u \in Tasks, EnqueueSave(u) PROVE Settled(t)'
  BY <1>3 DEF EnqueueSave
<1>4. ASSUME Poll \/ Peek \/ SaveRunning \/ SavePaused \/ SaveDone \/ SaveResolution \/ SaveFailed PROVE Settled(t)'
  BY <1>4 DEF Poll, Peek, SaveRunning, SavePaused, SaveDone, SaveResolution, SaveFailed, Save
<1>5. ASSUME Mark PROVE Settled(t)'
  <2>1. job # t /\ IdOf[job] # IdOf[t] /\ job \in Tasks
    BY <1>1, <1>5 DEF Mark, Step, Holding, Sole
  <2> QED
    BY <1>5, <2>1 DEF Mark
<1>6. ASSUME Pause \/ Complete \/ Fail PROVE Settled(t)'
  <2>1. job # t
    BY <1>1, <1>6 DEF Pause, Complete, Fail, Step, Holding
  <2> QED
    BY <1>6, <2>1 DEF Pause, Complete, Fail
<1>7. ASSUME Resolve \/ Drop PROVE Settled(t)'
  <2>1. PopOwn /\ state' = state
    BY <1>7 DEF Resolve, Drop
  <2>2. None # IdOf[t]
    OBVIOUS
  <2> QED
    BY <2>1, <2>2 DEF PopOwn
<1>8. ASSUME Elsewhere PROVE Settled(t)'
  BY <1>8 DEF Elsewhere
<1> QED
  BY StepsOfBooks, <1>2, <1>3, <1>4, <1>5, <1>6, <1>7, <1>8 DEF Entering, Loop

\* The worker settles its task as it files the resolution.
LEMMA SettledByResolve ==
  ASSUME IInv, Books, Resolve, Sole(job)
  PROVE  Settled(job)'
<1> TypeOK /\ WorksOnHead /\ OnceQueued /\ SavesState
  BY DEF IInv, Books
<1> USE TaskAssumption DEF TypeOK
<1>1. pc = "resolve" /\ job \in Tasks /\ state[job] = "COMPLETED"
  BY DEF Resolve, Step, SavesState
<1>2. taskQueue # <<>> /\ Head(taskQueue) = IdOf[job]
  BY <1>1 DEF WorksOnHead, Holding
<1>3. taskQueue' = Tail(taskQueue) /\ currentTaskId' = None /\ job' = job /\ state' = state
  BY <1>2 DEF Resolve, PopOwn
<1>4. ASSUME NEW i \in DOMAIN taskQueue' PROVE taskQueue'[i] # IdOf[job]
  <2>1. i + 1 \in DOMAIN taskQueue /\ taskQueue'[i] = taskQueue[i + 1] /\ i + 1 # 1 /\ 1 \in DOMAIN taskQueue
    BY <1>2, <1>3
  <2>2. taskQueue[1] = IdOf[job]
    BY <1>2
  <2> QED
    BY <1>1, <2>1, <2>2 DEF OnceQueued
<1> QED
  BY <1>1, <1>3, <1>4 DEF Settled

\* A task that has a resolution is out of the queue and stays COMPLETED.
LEMMA FinalStep == IInv /\ Books /\ [Next]_vars => ResolutionFinal'
<1> SUFFICES ASSUME IInv, Books, [Next]_vars, NEW t \in Finished', Sole(t) PROVE Settled(t)'
  BY DEF ResolutionFinal, Settled, Finished, Sole, Entries
<1>1. TypeOK /\ Known
  BY DEF IInv, Books
<1>2. CASE t \in Finished
  <2>1. t \in Tasks /\ call[t] # "todo"
    BY <1>1, <1>2 DEF TypeOK, Known, Finished, Entries
  <2>2. Settled(t)
    BY <1>2 DEF Books, ResolutionFinal, Settled, Finished, Entries
  <2> QED
    BY <2>1, <2>2, SettledStep
<1>3. CASE t \notin Finished
  <2>1. Resolve /\ t = job
    BY <1>1, <1>3, FinishedStep
  <2>2. job' = job
    BY <2>1 DEF Resolve
  <2>3. Settled(job)'
    BY <2>1, SettledByResolve
  <2> QED
    BY <2>1, <2>2, <2>3 DEF Settled
<1> QED
  BY <1>2, <1>3

\* The row of a task follows its state.
LEMMA DbStep == IInv /\ Books /\ [Next]_vars => DbStateOrQueued'
<1> SUFFICES ASSUME IInv, Books, [Next]_vars PROVE DbStateOrQueued'
  OBVIOUS
<1> TypeOK /\ QueueListed /\ WorksOnHead /\ Known /\ SavesState /\ DbStateOrQueued
  BY DEF IInv, Books
<1> USE TaskAssumption DEF TypeOK, Known, SavesState, DbStateOrQueued, Unsaved, Sole, Calls, Entries, flags, queueVars, results, dbVars, place, history
<1>1. ASSUME NEW t \in Tasks, Enqueue(t) PROVE DbStateOrQueued'
  BY <1>1 DEF Enqueue
<1>2. ASSUME NEW t \in Tasks, EnqueueSave(t) PROVE DbStateOrQueued'
  BY <1>2 DEF EnqueueSave
<1>3. ASSUME Poll PROVE DbStateOrQueued'
  BY <1>3 DEF Poll
<1>4. ASSUME Peek PROVE DbStateOrQueued'
  BY <1>4 DEF Peek, Step
<1>5. ASSUME Mark PROVE DbStateOrQueued'
  BY <1>5 DEF Mark, Step
<1>6. ASSUME SaveRunning PROVE DbStateOrQueued'
  BY <1>6 DEF SaveRunning, Step, Save
<1>7. ASSUME Pause PROVE DbStateOrQueued'
  BY <1>7 DEF Pause, Step
<1>8. ASSUME SavePaused PROVE DbStateOrQueued'
  BY <1>8 DEF SavePaused, Step, Save
<1>9. ASSUME Complete PROVE DbStateOrQueued'
  BY <1>9 DEF Complete, Step
<1>10. ASSUME Resolve PROVE DbStateOrQueued'
  BY <1>10 DEF Resolve, Step, PopOwn
<1>11. ASSUME SaveDone PROVE DbStateOrQueued'
  BY <1>11 DEF SaveDone, Step, Save
<1>12. ASSUME SaveResolution PROVE DbStateOrQueued'
  BY <1>12 DEF SaveResolution, Step
<1>13. ASSUME Fail PROVE DbStateOrQueued'
  BY <1>13 DEF Fail, Step
<1>14. ASSUME SaveFailed PROVE DbStateOrQueued'
  BY <1>14 DEF SaveFailed, Step, Save
<1>15. ASSUME Drop PROVE DbStateOrQueued'
  BY <1>15 DEF Drop, Step, PopOwn
<1>16. ASSUME Elsewhere PROVE DbStateOrQueued'
  BY <1>16 DEF Elsewhere, Saving
<1> QED
  BY StepsOfBooks, <1>1, <1>2, <1>3, <1>4, <1>5, <1>6, <1>7, <1>8, <1>9, <1>10, <1>11, <1>12, <1>13, <1>14, <1>15, <1>16 DEF Entering, Loop

LEMMA InitBooks == Init => Books
<1> SUFFICES ASSUME Init PROVE Books
  OBVIOUS
<1> USE TaskAssumption DEF Init
<1>1. Finished = {}
  BY DEF Finished, Entries
<1>2. Known /\ OnceQueued /\ SavesState
  BY <1>1 DEF Known, OnceQueued, SavesState, Calls
<1>3. Filed /\ DbStateOrQueued
  BY DEF Filed, DbStateOrQueued, Calls
<1>4. ResolutionFinal
  BY <1>1 DEF ResolutionFinal, Finished
<1> QED
  BY <1>2, <1>3, <1>4 DEF Books

LEMMA BooksStep == IInv /\ Books /\ [Next]_vars => Books'
  BY KnownStep, OnceStep, SavesStep, FiledStep, FinalStep, DbStep DEF Books

THEOREM InductiveInvariant == Spec => []IInv
<1>1. IInv /\ [Next]_vars => IInv'
  BY TypeStep, ListedStep, HeadStep, StandsStep, StrayStep DEF IInv
<1> QED
  BY InitIInv, <1>1, PTL DEF Spec

\* The queue and the list of resolutions implement JobQueue for any ids.
THEOREM RefinesJobQueue == Spec => ImplementsJobQueue
<1>1. Init => Jobs!Init
  BY DEF Init, Jobs!Init
<1> QED
  BY <1>1, InductiveInvariant, JobStep, PTL DEF Spec, ImplementsJobQueue, Jobs!Spec

\* Every variable of the daemon keeps its type.
THEOREM TypeCorrect == Spec => []TypeOK
<1>1. IInv => TypeOK
  BY DEF IInv
<1> QED
  BY InductiveInvariant, <1>1, PTL

\* The entry the worker peeked at is still the head when it pops it, whatever
\* ids the clients use.
THEOREM HeadHolds == Spec => []WorksOnHead
<1>1. IInv => WorksOnHead
  BY DEF IInv
<1> QED
  BY InductiveInvariant, <1>1, PTL

\* After an idle_stop at most one piece of work begins until the next start.
THEOREM OneStray == Spec => []AtMostOneStray
<1>1. IInv => AtMostOneStray
  BY DEF IInv, StrayFits, AtMostOneStray
<1> QED
  BY InductiveInvariant, <1>1, PTL

\* The worker's task stays the head of the queue and a stop leaves one stray.
THEOREM HeadAlwaysConsistent == Spec => []HeadConsistent
<1>1. IInv => HeadConsistent
  BY DEF IInv, HeadConsistent, StrayFits, AtMostOneStray
<1> QED BY <1>1, InductiveInvariant, PTL

\* What polls have returned, the task table and the database agree: a
\* resolution is final, a row lags by the save under way or the client's own
\* QUEUED, and every resolution is filed once, for any ids and calls.
THEOREM ResolutionsAlwaysConsistent == Spec => []ResolutionsConsistent
<1>1. Spec => []Books
  BY InitBooks, BooksStep, InductiveInvariant, PTL DEF Spec
<1>2. IInv /\ Books => ResolutionsConsistent
  <2> SUFFICES ASSUME IInv, Books PROVE ResolutionsFiled
    BY DEF ResolutionsConsistent, Books
  <2> DEFINE all == delivered \o resolved
  <2>1. TypeOK /\ Filed
    BY DEF IInv, Books
  <2>2. CASE pc \in {"saveDone", "saveResolution"}
    <3>1. all = Append(dbResolutions, job) /\ dbResolutions \in Seq(Tasks) /\ job \in Tasks
      BY <2>1, <2>2 DEF Filed, TypeOK
    <3>2. Len(all) = Len(dbResolutions) + 1 /\ \A i \in 1 .. Len(dbResolutions) : all[i] = dbResolutions[i]
      BY <3>1
    <3>3. SubSeq(all, 1, Len(all) - 1) = dbResolutions
      BY <3>1, <3>2
    <3> QED
      BY <2>2, <3>3 DEF ResolutionsFiled
  <2>3. CASE pc \notin {"saveDone", "saveResolution"}
    BY <2>1, <2>3 DEF Filed, ResolutionsFiled
  <2> QED
    BY <2>2, <2>3
<1> QED
  BY <1>1, <1>2, InductiveInvariant, PTL
===============================================================================
