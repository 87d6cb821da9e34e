------------------------- MODULE HostServicesProofs -------------------------
(***************************************************************************)
(* Theorems about two services of the host: the browser agent that is      *)
(* started, stepped, approved and aborted over HTTP, and the idle notices  *)
(* the IDE sends to the learning daemon, for every value of their constants.*)
(***************************************************************************)
EXTENDS BrowserAgent, IdleNotices, FiniteSetTheorems, TLAPS

-----------------------------------------------------------------------------
(* The browser agent.                                                      *)

(* Where an agent may be: a chat agent outside the slot until its run is    *)
(* stored, an action pending exactly while the agent waits, an agent being  *)
(* stepped or approved with the lock held, a loop only after its request.   *)
Whereabouts ==
  /\ \A a \in Agents : state[a] = "Waiting" <=> pending[a] # "none"
  /\ \A a \in Agents : state[a] = "none" => history[a] = <<>> /\ slot # a
  /\ \A c \in Chats :
       /\ chat[c] = "idle" <=> state[c] = "none"
       /\ chat[c] = "driving" => slot # c /\ state[c] # "Aborted"
  /\ \A w \in Workers : worker[w] = "stepping" => Running(slot)
  /\ \A r \in Approvers : approver[r] = "acting" => slot # NoOne /\ state[slot] = "Waiting"
  /\ \A r \in Approvals : approver[r] # "approved" => worker[r] = "none"

IInv == TypeOK /\ Whereabouts /\ StepsOnceInOrder

(* The initial state satisfies the invariant.                               *)
LEMMA InitInv == AgentInit => IInv /\ RunningIsDriven
BY BrowserAssumption DEF AgentInit, IInv, TypeOK, Whereabouts, StepsOnceInOrder, RunningIsDriven,
   Running, Agents, Approvers, Workers, Places

(* One action of an agent keeps its history in order: a step or a release   *)
(* appends the step after the last one and moves on, or the run is over.    *)
LEMMA OrderKept ==
  ASSUME IInv, NEW a \in Agents, NEW act \in Proposals, NEW cp \in BOOLEAN, NEW done \in BOOLEAN,
         state[a] \in {"Running", "Waiting"}, Execute(a, act, cp), AdvanceOrComplete(a, done)
  PROVE  /\ StepsOnceInOrder'
         /\ history' \in [Agents -> Seq([step : Nat, sensitive : BOOLEAN, checkpoint : BOOLEAN])]
         /\ step' \in [Agents -> Nat]
         /\ state' \in [Agents -> {"none", "Running", "Waiting", "Completed", "Aborted"}]
<1> DEFINE e == [step |-> step[a], sensitive |-> Sensitive(act), checkpoint |-> cp]
           E == [step : Nat, sensitive : BOOLEAN, checkpoint : BOOLEAN]
<1>1. history \in [Agents -> Seq(E)] /\ step \in [Agents -> Nat] /\ MaxSteps \in Nat
  BY BrowserAssumption DEF IInv, TypeOK
<1>2. e \in E
  BY <1>1 DEF Sensitive
<1>3. history' = [history EXCEPT ![a] = Append(@, e)] /\ history[a] \in Seq(E)
  BY <1>1 DEF Execute
<1>4. step[a] = Len(history[a]) + 1
  BY DEF IInv, StepsOnceInOrder
<1>5. /\ history'[a] = Append(history[a], e)
      /\ Len(history'[a]) = Len(history[a]) + 1
      /\ \A i \in 1..Len(history[a]) : history'[a][i] = history[a][i]
      /\ history'[a][Len(history[a]) + 1] = e
  BY <1>1, <1>2, <1>3
<1>6. \A b \in Agents : b # a => history'[b] = history[b] /\ step'[b] = step[b] /\ state'[b] = state[b]
  BY <1>1, <1>3 DEF AdvanceOrComplete, IInv, TypeOK
<1>7. step[a] = Len(history[a]) + 1 /\ Len(history[a]) \in Nat /\ e.step = step[a]
  BY <1>1, <1>4
<1>8. \A i \in 1..Len(history'[a]) : history'[a][i].step = i
  <2> TAKE i \in 1..Len(history'[a])
  <2>1. CASE i = Len(history[a]) + 1
    BY <2>1, <1>5, <1>7
  <2>2. CASE i # Len(history[a]) + 1
    <3>1. i \in 1..Len(history[a])
      BY <2>2, <1>5, <1>7
    <3>2. history[a][i].step = i
      BY <3>1 DEF IInv, StepsOnceInOrder
    <3> QED BY <3>1, <3>2, <1>5
  <2> QED BY <2>1, <2>2
<1>9. /\ Len(history'[a]) <= MaxSteps \/ Len(history'[a]) <= 1
      /\ state'[a] \in {"Running", "Waiting"} =>
           step'[a] = Len(history'[a]) + 1 /\ (step'[a] <= MaxSteps \/ step'[a] = 1)
  <2>1. CASE done \/ step[a] >= MaxSteps
    <3>1. state'[a] = "Completed"
      BY <2>1 DEF AdvanceOrComplete, IInv, TypeOK
    <3>2. step[a] = 1 \/ step[a] <= MaxSteps
      BY <1>1, <1>7 DEF IInv, StepsOnceInOrder, TypeOK
    <3> QED BY <3>1, <3>2, <1>1, <1>5, <1>7
  <2>2. CASE ~(done \/ step[a] >= MaxSteps)
    <3>1. step'[a] = step[a] + 1
      BY <2>2, <1>1 DEF AdvanceOrComplete
    <3> QED BY <2>2, <3>1, <1>1, <1>5, <1>7
  <2> QED BY <2>1, <2>2
<1>10. StepsOnceInOrder'
  BY <1>6, <1>8, <1>9 DEF StepsOnceInOrder, IInv
<1>11. history' \in [Agents -> Seq(E)]
  <2>1. Append(history[a], e) \in Seq(E)
    BY <1>2, <1>3
  <2> HIDE DEF e, E
  <2> QED BY <2>1, <1>1, <1>3
<1>12. /\ step' \in [Agents -> Nat]
       /\ state' \in [Agents -> {"none", "Running", "Waiting", "Completed", "Aborted"}]
  <2>1. state \in [Agents -> {"none", "Running", "Waiting", "Completed", "Aborted"}]
    BY DEF IInv, TypeOK
  <2>2. CASE done \/ step[a] >= MaxSteps
    BY <2>1, <2>2, <1>1 DEF AdvanceOrComplete
  <2>3. CASE ~(done \/ step[a] >= MaxSteps)
    <3>1. /\ state' = [state EXCEPT ![a] = "Running"]
          /\ step' = [step EXCEPT ![a] = step[a] + 1]
      BY <2>3 DEF AdvanceOrComplete
    <3>2. step \in [Agents -> Nat] /\ step[a] + 1 \in Nat
      BY <1>1, <1>7
    <3>3. step' \in [Agents -> Nat]
      BY <3>1, <3>2
    <3> QED BY <2>1, <3>1, <3>3
  <2> QED BY <2>2, <2>3
<1> QED BY <1>10, <1>11, <1>12

(* A step of the agent a, by a loop or by a chat command, and the release   *)
(* of its checkpoint, as far as the agent itself is concerned.              *)
LEMMA StepKept ==
  ASSUME IInv, NEW a \in Agents, NEW act \in Proposals, state[a] = "Running", Step(a, act)
  PROVE  /\ StepsOnceInOrder'
         /\ history' \in [Agents -> Seq([step : Nat, sensitive : BOOLEAN, checkpoint : BOOLEAN])]
         /\ step' \in [Agents -> Nat]
         /\ state' \in [Agents -> {"none", "Running", "Waiting", "Completed", "Aborted"}]
         /\ pending' \in [Agents -> Proposals \cup {"none"}]
         /\ url' \in [Agents -> Places] /\ page' \in [Agents -> Places]
         /\ \A b \in Agents : b # a => /\ state'[b] = state[b] /\ pending'[b] = pending[b]
                                       /\ history'[b] = history[b]
         /\ state'[a] \in {"Running", "Waiting", "Completed"}
         /\ state'[a] = "Waiting" <=> pending'[a] # "none"
         /\ state'[a] = "Waiting" <=> NeedsApproval(a, act)
<1>1. /\ state \in [Agents -> {"none", "Running", "Waiting", "Completed", "Aborted"}]
      /\ pending \in [Agents -> Proposals \cup {"none"}]
      /\ url \in [Agents -> Places] /\ page \in [Agents -> Places]
      /\ pending[a] = "none"
      /\ step \in [Agents -> Nat]
      /\ history \in [Agents -> Seq([step : Nat, sensitive : BOOLEAN, checkpoint : BOOLEAN])]
  BY DEF IInv, TypeOK, Whereabouts
<1>2. CASE NeedsApproval(a, act)
  <2>1. /\ state' = [state EXCEPT ![a] = "Waiting"] /\ pending' = [pending EXCEPT ![a] = act]
        /\ UNCHANGED <<step, url, page, history>>
    BY <1>2 DEF Step
  <2>2. StepsOnceInOrder'
    BY <2>1, <1>1 DEF StepsOnceInOrder, IInv
  <2>3. act # "none"
    BY DEF Proposals
  <2> QED BY <2>1, <2>2, <2>3, <1>1, <1>2
<1>3. CASE ~NeedsApproval(a, act)
  <2>1. /\ Execute(a, act, FALSE) /\ AdvanceOrComplete(a, act = "complete")
        /\ pending' = pending /\ url' = [url EXCEPT ![a] = Target(act, @)]
    BY <1>3 DEF Step
  <2>2. (act = "complete") \in BOOLEAN
    OBVIOUS
  <2>3. /\ StepsOnceInOrder'
        /\ history' \in [Agents -> Seq([step : Nat, sensitive : BOOLEAN, checkpoint : BOOLEAN])]
        /\ step' \in [Agents -> Nat]
        /\ state' \in [Agents -> {"none", "Running", "Waiting", "Completed", "Aborted"}]
    BY <2>1, <2>2, OrderKept
  <2>4. /\ \A b \in Agents : b # a => state'[b] = state[b] /\ history'[b] = history[b]
        /\ state'[a] \in {"Running", "Completed"}
    BY <2>1, <1>1 DEF Execute, AdvanceOrComplete
  <2>5. url' \in [Agents -> Places]
    BY <2>1, <1>1 DEF Target, Places
  <2>6. page' \in [Agents -> Places]
    BY <2>1, <1>1 DEF Execute, Target, Places
  <2> QED BY <2>1, <2>3, <2>4, <2>5, <2>6, <1>1, <1>3
<1> QED BY <1>2, <1>3

LEMMA ReleaseKept ==
  ASSUME IInv, NEW a \in Agents, state[a] = "Waiting", Release(a)
  PROVE  /\ StepsOnceInOrder'
         /\ history' \in [Agents -> Seq([step : Nat, sensitive : BOOLEAN, checkpoint : BOOLEAN])]
         /\ step' \in [Agents -> Nat]
         /\ state' \in [Agents -> {"none", "Running", "Waiting", "Completed", "Aborted"}]
         /\ pending' \in [Agents -> Proposals \cup {"none"}]
         /\ url' = url /\ page' \in [Agents -> Places]
         /\ \A b \in Agents : b # a => /\ state'[b] = state[b] /\ pending'[b] = pending[b]
                                       /\ history'[b] = history[b]
         /\ state'[a] \in {"Running", "Completed"}
         /\ pending'[a] = "none"
<1>1. /\ state \in [Agents -> {"none", "Running", "Waiting", "Completed", "Aborted"}]
      /\ pending \in [Agents -> Proposals \cup {"none"}]
      /\ pending[a] \in Proposals
      /\ history \in [Agents -> Seq([step : Nat, sensitive : BOOLEAN, checkpoint : BOOLEAN])]
  BY DEF IInv, TypeOK, Whereabouts
<1>2. /\ Execute(a, pending[a], TRUE) /\ AdvanceOrComplete(a, FALSE)
      /\ pending' = [pending EXCEPT ![a] = "none"] /\ url' = url
  BY DEF Release
<1>3. /\ StepsOnceInOrder'
      /\ history' \in [Agents -> Seq([step : Nat, sensitive : BOOLEAN, checkpoint : BOOLEAN])]
      /\ step' \in [Agents -> Nat]
      /\ state' \in [Agents -> {"none", "Running", "Waiting", "Completed", "Aborted"}]
  BY <1>1, <1>2, OrderKept
<1>4. /\ \A b \in Agents : b # a => state'[b] = state[b] /\ history'[b] = history[b]
      /\ state'[a] \in {"Running", "Completed"}
  BY <1>1, <1>2 DEF Execute, AdvanceOrComplete
<1>5. page' \in [Agents -> Places]
  BY <1>2 DEF Execute, Target, Places, IInv, TypeOK
<1> QED BY <1>1, <1>2, <1>3, <1>4, <1>5

LEMMA StartRunInv ==
  ASSUME IInv, RunningIsDriven, NEW s \in Starts, StartRun(s)
  PROVE  IInv' /\ RunningIsDriven'
<1> USE BrowserAssumption DEF IInv, StartRun, Agents, Approvers, Workers
<1>1. TypeOK'
  BY DEF TypeOK, Running, Begin
<1>2. Whereabouts'
  BY DEF TypeOK, Whereabouts, Running, Begin
<1>3. StepsOnceInOrder'
  BY DEF TypeOK, Whereabouts, StepsOnceInOrder, Begin
<1>4. RunningIsDriven'
  BY DEF TypeOK, Whereabouts, RunningIsDriven, Driven, Running, Begin
<1> QED BY <1>1, <1>2, <1>3, <1>4

LEMMA SpawnWorkerInv ==
  ASSUME IInv, RunningIsDriven, NEW w \in Workers, SpawnWorker(w)
  PROVE  IInv' /\ RunningIsDriven'
<1> USE BrowserAssumption DEF IInv, SpawnWorker, Agents, Approvers, Workers
<1>1. TypeOK'
  BY DEF TypeOK, Running, Begin
<1>2. Whereabouts'
  BY DEF TypeOK, Whereabouts, Running, Begin
<1>3. StepsOnceInOrder'
  BY DEF TypeOK, Whereabouts, StepsOnceInOrder, Begin
<1>4. RunningIsDriven'
  BY DEF TypeOK, Whereabouts, RunningIsDriven, Driven, Running, Begin
<1> QED BY <1>1, <1>2, <1>3, <1>4

LEMMA LookInv ==
  ASSUME IInv, RunningIsDriven, NEW w \in Workers, Look(w)
  PROVE  IInv' /\ RunningIsDriven'
<1> USE BrowserAssumption DEF IInv, Look, Agents, Approvers, Workers
<1>1. TypeOK'
  BY DEF TypeOK, Running, Begin
<1>2. Whereabouts'
  BY DEF TypeOK, Whereabouts, Running, Begin
<1>3. StepsOnceInOrder'
  BY DEF TypeOK, Whereabouts, StepsOnceInOrder, Begin
<1>4. RunningIsDriven'
  BY DEF TypeOK, Whereabouts, RunningIsDriven, Driven, Running, Begin
<1> QED BY <1>1, <1>2, <1>3, <1>4

LEMMA BeginStepInv ==
  ASSUME IInv, RunningIsDriven, NEW w \in Workers, BeginStep(w)
  PROVE  IInv' /\ RunningIsDriven'
<1> USE BrowserAssumption DEF IInv, BeginStep, Agents, Approvers, Workers
<1>1. TypeOK'
  <2> HIDE DEF Agents, Approvers, Workers
  <2>1. /\ worker[w] = "due" /\ lock = NoOne
        /\ \/ lock' = w /\ worker' = [worker EXCEPT ![w] = "stepping"]
           \/ lock' = lock /\ worker' = [worker EXCEPT ![w] = "ended"]
        /\ UNCHANGED <<slot, state, step, pending, url, page, history, approver, granted, aborted, chat>>
    OBVIOUS
  <2>2. TypeOK /\ \A v \in Workers : worker[v] # "stepping"
    <3>1. NoOne \notin Workers
      BY DEF Agents, Approvers, Workers
    <3> QED BY <2>1, <3>1 DEF TypeOK
  <2> HIDE DEF BeginStep, IInv
  <2>3. CASE lock' = w /\ worker' = [worker EXCEPT ![w] = "stepping"]
    <3>1. \A r \in Approvers : approver[r] # "acting"
      <4>1. NoOne \notin Approvers
        BY DEF Agents, Approvers, Workers
      <4> QED BY <2>1, <2>2, <4>1 DEF TypeOK
    <3> QED BY <2>1, <2>2, <2>3, <3>1 DEF TypeOK
  <2>4. CASE lock' = lock /\ worker' = [worker EXCEPT ![w] = "ended"]
    BY <2>1, <2>2, <2>4 DEF TypeOK
  <2> QED BY <2>1, <2>3, <2>4
<1>2. Whereabouts'
  BY DEF TypeOK, Whereabouts, Running, Begin
<1>3. StepsOnceInOrder'
  BY DEF TypeOK, Whereabouts, StepsOnceInOrder, Begin
<1>4. RunningIsDriven'
  BY DEF TypeOK, Whereabouts, RunningIsDriven, Driven, Running, Begin
<1> QED BY <1>1, <1>2, <1>3, <1>4

LEMMA ReportInv ==
  ASSUME IInv, RunningIsDriven, NEW w \in Workers, Report(w)
  PROVE  IInv' /\ RunningIsDriven'
<1> USE BrowserAssumption DEF IInv, Report, Agents, Approvers, Workers
<1>1. TypeOK'
  BY DEF TypeOK, Running, Begin
<1>2. Whereabouts'
  BY DEF TypeOK, Whereabouts, Running, Begin
<1>3. StepsOnceInOrder'
  BY DEF TypeOK, Whereabouts, StepsOnceInOrder, Begin
<1>4. RunningIsDriven'
  BY DEF TypeOK, Whereabouts, RunningIsDriven, Driven, Running, Begin
<1> QED BY <1>1, <1>2, <1>3, <1>4

LEMMA BeginApproveInv ==
  ASSUME IInv, RunningIsDriven, NEW r \in Approvers, BeginApprove(r)
  PROVE  IInv' /\ RunningIsDriven'
<1> USE BrowserAssumption DEF IInv, BeginApprove, Agents, Approvers, Workers
<1>1. TypeOK'
  <2>1. /\ \A w \in Workers : worker[w] # "stepping"
        /\ \A p \in Approvers : approver[p] # "acting"
    BY DEF TypeOK
  <2>2. /\ approver' \in [Approvers -> {"idle", "acting", "approved", "refused"}]
        /\ lock' \in Workers \cup Approvers \cup {NoOne}
    <3>1. /\ approver \in [Approvers -> {"idle", "acting", "approved", "refused"}]
          /\ lock \in Workers \cup Approvers \cup {NoOne}
      BY DEF TypeOK
    <3>2. \/ approver' = [approver EXCEPT ![r] = "acting"] /\ lock' = r
          \/ approver' = [approver EXCEPT ![r] = "refused"] /\ lock' = lock
      OBVIOUS
    <3> HIDE DEF IInv, BeginApprove, Agents, Approvers, Workers
    <3> QED
      BY <3>1, <3>2
  <2>3. \A p \in Approvers : approver'[p] = "acting" => lock' = p
    BY <2>1 DEF TypeOK
  <2>4. UNCHANGED <<slot, state, step, pending, url, page, history, worker, granted, aborted, chat>>
    OBVIOUS
  <2> QED BY <2>1, <2>2, <2>3, <2>4 DEF TypeOK
<1>2. Whereabouts'
  BY DEF TypeOK, Whereabouts, Running, Begin
<1>3. StepsOnceInOrder'
  BY DEF TypeOK, Whereabouts, StepsOnceInOrder, Begin
<1>4. RunningIsDriven'
  BY DEF TypeOK, Whereabouts, RunningIsDriven, Driven, Running, Begin
<1> QED BY <1>1, <1>2, <1>3, <1>4

LEMMA AbortInv ==
  ASSUME IInv, RunningIsDriven, NEW q \in Aborts, Abort(q)
  PROVE  IInv' /\ RunningIsDriven'
<1> USE BrowserAssumption DEF IInv, Abort, Agents, Approvers, Workers
<1>1. TypeOK'
  BY DEF TypeOK, Running, Begin
<1>2. Whereabouts'
  <2>1. /\ \A w \in Workers : worker[w] # "stepping"
        /\ \A p \in Approvers : approver[p] # "acting"
    BY DEF TypeOK
  <2>2. CASE slot # NoOne
    <3>1. /\ state' = [state EXCEPT ![slot] = "Aborted"] /\ pending' = [pending EXCEPT ![slot] = "none"]
          /\ UNCHANGED <<slot, history, chat, worker, approver>>
      BY <2>2
    <3>2. slot \in Agents /\ state[slot] # "none"
      BY <2>2 DEF TypeOK, Whereabouts
    <3> QED BY <2>1, <3>1, <3>2 DEF TypeOK, Whereabouts
  <2>3. CASE slot = NoOne
    BY <2>1, <2>3 DEF TypeOK, Whereabouts, Running
  <2> QED BY <2>2, <2>3
<1>3. StepsOnceInOrder'
  BY DEF TypeOK, Whereabouts, StepsOnceInOrder, Begin
<1>4. RunningIsDriven'
  BY DEF TypeOK, Whereabouts, RunningIsDriven, Driven, Running, Begin
<1> QED BY <1>1, <1>2, <1>3, <1>4

LEMMA ChatBeginInv ==
  ASSUME IInv, RunningIsDriven, NEW c \in Chats, ChatBegin(c)
  PROVE  IInv' /\ RunningIsDriven'
<1> USE BrowserAssumption DEF IInv, ChatBegin, Agents, Approvers, Workers
<1>1. TypeOK'
  BY DEF TypeOK, Running, Begin
<1>2. Whereabouts'
  BY DEF TypeOK, Whereabouts, Running, Begin
<1>3. StepsOnceInOrder'
  BY DEF TypeOK, Whereabouts, StepsOnceInOrder, Begin
<1>4. RunningIsDriven'
  BY DEF TypeOK, Whereabouts, RunningIsDriven, Driven, Running, Begin
<1> QED BY <1>1, <1>2, <1>3, <1>4

LEMMA ChatStoreInv ==
  ASSUME IInv, RunningIsDriven, NEW c \in Chats, ChatStore(c)
  PROVE  IInv' /\ RunningIsDriven'
<1> USE BrowserAssumption DEF IInv, ChatStore, Agents, Approvers, Workers
<1>1. TypeOK'
  BY DEF TypeOK, Running, Begin
<1>2. Whereabouts'
  BY DEF TypeOK, Whereabouts, Running, Begin
<1>3. StepsOnceInOrder'
  BY DEF TypeOK, Whereabouts, StepsOnceInOrder, Begin
<1>4. RunningIsDriven'
  BY DEF TypeOK, Whereabouts, RunningIsDriven, Driven, Running, Begin
<1> QED BY <1>1, <1>2, <1>3, <1>4

LEMMA EndStepInv ==
  ASSUME IInv, RunningIsDriven, NEW w \in Workers, EndStep(w)
  PROVE  IInv' /\ RunningIsDriven'
<1>1. PICK act \in Moves :
        /\ Step(slot, act)
        /\ worker' = [worker EXCEPT ![w] = IF NeedsApproval(slot, act) THEN "paused" ELSE "stepped"]
  BY DEF EndStep
<1>2. /\ slot \in Agents /\ state[slot] = "Running" /\ lock = w /\ act \in Proposals
      /\ lock' = NoOne /\ UNCHANGED <<slot, approver, granted, aborted, chat>>
  BY BrowserAssumption DEF EndStep, IInv, TypeOK, Whereabouts, Running
<1>3. /\ StepsOnceInOrder'
      /\ history' \in [Agents -> Seq([step : Nat, sensitive : BOOLEAN, checkpoint : BOOLEAN])]
      /\ step' \in [Agents -> Nat]
      /\ state' \in [Agents -> {"none", "Running", "Waiting", "Completed", "Aborted"}]
      /\ pending' \in [Agents -> Proposals \cup {"none"}]
      /\ url' \in [Agents -> Places] /\ page' \in [Agents -> Places]
      /\ \A b \in Agents : b # slot => /\ state'[b] = state[b] /\ pending'[b] = pending[b]
                                       /\ history'[b] = history[b]
      /\ state'[slot] \in {"Running", "Waiting", "Completed"}
      /\ state'[slot] = "Waiting" <=> pending'[slot] # "none"
      /\ state'[slot] = "Waiting" <=> NeedsApproval(slot, act)
  BY <1>1, <1>2, StepKept
<1>4. /\ \A v \in Workers : v # w => worker[v] # "stepping"
      /\ \A r \in Approvers : approver[r] # "acting"
      /\ worker'[w] \in {"paused", "stepped"}
      /\ \A v \in Workers : v # w => worker'[v] = worker[v]
      /\ worker' \in [Workers -> {"none", "spawning", "look", "due", "stepping", "paused", "stepped", "ended"}]
      /\ state'[slot] = "Running" => worker'[w] = "stepped"
      /\ w \in Approvals => approver[w] = "approved"
  BY <1>1, <1>2, <1>3, BrowserAssumption
     DEF IInv, TypeOK, Whereabouts, EndStep, Workers, Approvers, Agents
<1>5. TypeOK'
  BY <1>2, <1>3, <1>4 DEF IInv, TypeOK
<1>6. Whereabouts'
  <2> DEFINE Frame == /\ slot' = slot /\ chat' = chat
                      /\ \A b \in Agents : b # slot =>
                           state'[b] = state[b] /\ pending'[b] = pending[b] /\ history'[b] = history[b]
                      /\ state'[slot] \in {"Running", "Waiting", "Completed"}
                      /\ state'[slot] = "Waiting" <=> pending'[slot] # "none"
                      /\ \A b \in Agents : state[b] = "Waiting" <=> pending[b] # "none"
                      /\ \A b \in Agents : state[b] = "none" => history[b] = <<>> /\ slot # b
                      /\ slot \in Agents
  <2>0. Frame
    BY <1>2, <1>3 DEF IInv, Whereabouts
  <2>1. \A a \in Agents : state'[a] = "Waiting" <=> pending'[a] # "none"
    BY <2>0
  <2>2. \A a \in Agents : state'[a] = "none" => history'[a] = <<>> /\ slot' # a
    BY <2>0
  <2>3. \A c \in Chats : /\ chat'[c] = "idle" <=> state'[c] = "none"
                         /\ chat'[c] = "driving" => slot' # c /\ state'[c] # "Aborted"
    BY <1>2, <1>3, <1>4, BrowserAssumption, SMTT(30) DEF IInv, Whereabouts, Agents
  <2>4. \A v \in Workers : worker'[v] = "stepping" => Running(slot)'
    BY <1>4
  <2>5. \A r \in Approvers : approver'[r] = "acting" => slot' # NoOne /\ state'[slot'] = "Waiting"
    BY <1>2, <1>3, <1>4, BrowserAssumption DEF IInv, Whereabouts, TypeOK
  <2>6. ASSUME NEW r \in Approvals, approver'[r] # "approved"
        PROVE  worker'[r] = "none"
    <3>1. approver[r] # "approved" /\ r \in Workers
      BY <1>2, <2>6 DEF Workers
    <3>2. r # w /\ worker[r] = "none"
      BY <1>4, <3>1 DEF IInv, Whereabouts
    <3> QED BY <1>4, <3>1, <3>2
  <2> QED BY <2>1, <2>2, <2>3, <2>4, <2>5, <2>6 DEF Whereabouts, Running
<1>7. RunningIsDriven'
  BY <1>2, <1>3, <1>4 DEF RunningIsDriven, Driven, Running
<1> QED BY <1>3, <1>5, <1>6, <1>7 DEF IInv

LEMMA EndApproveInv ==
  ASSUME IInv, RunningIsDriven, NEW r \in Approvers, EndApprove(r)
  PROVE  IInv' /\ RunningIsDriven'
<1>1. /\ Release(slot) /\ lock' = NoOne /\ lock = r
      /\ slot \in Agents /\ state[slot] = "Waiting"
      /\ granted' = [granted EXCEPT ![r] = slot]
      /\ approver' = [approver EXCEPT ![r] = "approved"] /\ approver[r] = "acting"
      /\ worker' = IF r \in Approvals THEN [worker EXCEPT ![r] = "spawning"] ELSE worker
      /\ UNCHANGED <<slot, aborted, chat>>
  BY BrowserAssumption DEF EndApprove, IInv, TypeOK, Whereabouts
<1>2. /\ StepsOnceInOrder'
      /\ history' \in [Agents -> Seq([step : Nat, sensitive : BOOLEAN, checkpoint : BOOLEAN])]
      /\ step' \in [Agents -> Nat]
      /\ state' \in [Agents -> {"none", "Running", "Waiting", "Completed", "Aborted"}]
      /\ pending' \in [Agents -> Proposals \cup {"none"}]
      /\ url' = url /\ page' \in [Agents -> Places]
      /\ \A b \in Agents : b # slot => /\ state'[b] = state[b] /\ pending'[b] = pending[b]
                                       /\ history'[b] = history[b]
      /\ state'[slot] \in {"Running", "Completed"}
      /\ pending'[slot] = "none"
  BY <1>1, ReleaseKept
<1>3. /\ \A p \in Approvers : p # r => approver[p] # "acting" /\ approver'[p] = approver[p]
      /\ approver'[r] = "approved"
      /\ \A w \in Workers : worker[w] # "stepping"
      /\ r \in Approvals => worker'[r] = "spawning"
      /\ \A w \in Workers : w # r => worker'[w] = worker[w]
      /\ \A w \in Workers : worker'[w] # "stepping"
      /\ worker' \in [Workers -> {"none", "spawning", "look", "due", "stepping", "paused", "stepped", "ended"}]
  BY <1>1, BrowserAssumption
     DEF IInv, TypeOK, Whereabouts, Workers, Approvers, Agents, Running
<1>4. TypeOK'
  BY <1>1, <1>2, <1>3, BrowserAssumption DEF IInv, TypeOK, Approvers
<1>5. Whereabouts'
  <2> DEFINE Frame == /\ slot' = slot /\ chat' = chat
                      /\ \A b \in Agents : b # slot =>
                           state'[b] = state[b] /\ pending'[b] = pending[b] /\ history'[b] = history[b]
                      /\ state'[slot] \in {"Running", "Completed"}
                      /\ state'[slot] = "Waiting" <=> pending'[slot] # "none"
                      /\ \A b \in Agents : state[b] = "Waiting" <=> pending[b] # "none"
                      /\ \A b \in Agents : state[b] = "none" => history[b] = <<>> /\ slot # b
                      /\ slot \in Agents
  <2>0. Frame
    BY <1>1, <1>2 DEF IInv, Whereabouts
  <2>1. \A a \in Agents : state'[a] = "Waiting" <=> pending'[a] # "none"
    BY <2>0
  <2>2. \A a \in Agents : state'[a] = "none" => history'[a] = <<>> /\ slot' # a
    BY <2>0
  <2>3. \A c \in Chats : /\ chat'[c] = "idle" <=> state'[c] = "none"
                         /\ chat'[c] = "driving" => slot' # c /\ state'[c] # "Aborted"
    <3>1. \A c \in Chats : c \in Agents /\ state[slot] = "Waiting"
      BY <1>1 DEF Agents
    <3>2. \A c \in Chats : /\ chat[c] = "idle" <=> state[c] = "none"
                           /\ chat[c] = "driving" => slot # c /\ state[c] # "Aborted"
      BY DEF IInv, Whereabouts
    <3>3. "Waiting" # "none" /\ "Waiting" # "Aborted" /\ state'[slot] # "none" /\ state'[slot] # "Aborted"
      BY <2>0
    <3> QED BY <2>0, <3>1, <3>2, <3>3
  <2>4. \A w \in Workers : worker'[w] = "stepping" => Running(slot)'
    BY <1>1, <1>2, <1>3, BrowserAssumption DEF IInv, Whereabouts, Running
  <2>5. \A p \in Approvers : approver'[p] = "acting" => slot' # NoOne /\ state'[slot'] = "Waiting"
    BY <1>1, <1>2, <1>3, BrowserAssumption DEF IInv, Whereabouts, TypeOK
  <2>6. \A p \in Approvals : approver'[p] # "approved" => worker'[p] = "none"
    BY <1>1, <1>2, <1>3, BrowserAssumption DEF IInv, Whereabouts, Workers, Approvers
  <2> QED BY <2>1, <2>2, <2>3, <2>4, <2>5, <2>6 DEF Whereabouts, Running
<1>6. RunningIsDriven'
  <2>1. CASE r \in Approvals
    BY <2>1, <1>3 DEF RunningIsDriven, Driven, Workers
  <2>2. CASE r \in ChatApprovals
    <3>1. granted'[r] = slot /\ slot' = slot
      BY <1>1 DEF IInv, TypeOK
    <3> QED BY <2>2, <3>1 DEF RunningIsDriven
  <2> QED BY <2>1, <2>2 DEF Approvers
<1> QED BY <1>2, <1>4, <1>5, <1>6 DEF IInv

LEMMA ChatStepInv ==
  ASSUME IInv, RunningIsDriven, NEW c \in Chats, ChatStep(c)
  PROVE  IInv' /\ RunningIsDriven'
<1>1. PICK act \in Moves : Step(c, act)
  BY DEF ChatStep
<1>2. /\ c \in Agents /\ state[c] = "Running" /\ slot # c /\ act \in Proposals
      /\ chat[c] = "driving" /\ UNCHANGED <<slot, lock, worker, approver, granted, aborted, chat>>
  BY BrowserAssumption DEF ChatStep, IInv, TypeOK, Whereabouts, Running, Agents
<1>3. /\ StepsOnceInOrder'
      /\ history' \in [Agents -> Seq([step : Nat, sensitive : BOOLEAN, checkpoint : BOOLEAN])]
      /\ step' \in [Agents -> Nat]
      /\ state' \in [Agents -> {"none", "Running", "Waiting", "Completed", "Aborted"}]
      /\ pending' \in [Agents -> Proposals \cup {"none"}]
      /\ url' \in [Agents -> Places] /\ page' \in [Agents -> Places]
      /\ \A b \in Agents : b # c => /\ state'[b] = state[b] /\ pending'[b] = pending[b]
                                    /\ history'[b] = history[b]
      /\ state'[c] \in {"Running", "Waiting", "Completed"}
      /\ state'[c] = "Waiting" <=> pending'[c] # "none"
  BY <1>1, <1>2, StepKept
<1>4. TypeOK'
  BY <1>2, <1>3 DEF IInv, TypeOK
<1>5. Whereabouts'
  <2> DEFINE Frame == /\ slot' = slot /\ chat' = chat
                      /\ \A b \in Agents : b # c =>
                           state'[b] = state[b] /\ pending'[b] = pending[b] /\ history'[b] = history[b]
                      /\ state'[c] \in {"Running", "Waiting", "Completed"}
                      /\ state'[c] = "Waiting" <=> pending'[c] # "none"
                      /\ \A b \in Agents : state[b] = "Waiting" <=> pending[b] # "none"
                      /\ \A b \in Agents : state[b] = "none" => history[b] = <<>> /\ slot # b
                      /\ c \in Agents
  <2>0. Frame
    BY <1>2, <1>3 DEF IInv, Whereabouts
  <2>1. \A a \in Agents : state'[a] = "Waiting" <=> pending'[a] # "none"
    BY <2>0
  <2>2. \A a \in Agents : state'[a] = "none" => history'[a] = <<>> /\ slot' # a
    BY <2>0
  <2>3. \A b \in Chats : /\ chat'[b] = "idle" <=> state'[b] = "none"
                         /\ chat'[b] = "driving" => slot' # b /\ state'[b] # "Aborted"
    BY <1>2, <1>3, BrowserAssumption DEF IInv, Whereabouts, Agents
  <2>4. \A w \in Workers : worker'[w] = "stepping" => Running(slot)'
    <3>1. \A w \in Workers : worker[w] = "stepping" => slot # NoOne /\ state[slot] = "Running"
      BY DEF IInv, Whereabouts, Running
    <3>2. slot # NoOne => slot \in Agents /\ slot # c
      BY <1>2 DEF IInv, TypeOK
    <3> QED BY <2>0, <3>1, <3>2, <1>2 DEF Running
  <2>5. \A r \in Approvers : approver'[r] = "acting" => slot' # NoOne /\ state'[slot'] = "Waiting"
    BY <1>2, <1>3, BrowserAssumption DEF IInv, Whereabouts, TypeOK
  <2>6. \A r \in Approvals : approver'[r] # "approved" => worker'[r] = "none"
    BY <1>2, <1>3, BrowserAssumption DEF IInv, Whereabouts, Workers, Approvers
  <2> QED BY <2>1, <2>2, <2>3, <2>4, <2>5, <2>6 DEF Whereabouts, Running
<1>6. RunningIsDriven'
  BY <1>2, <1>3 DEF RunningIsDriven, Driven, Running, IInv, TypeOK
<1> QED BY <1>3, <1>4, <1>5, <1>6 DEF IInv

(* Every step preserves the invariant.                                      *)
LEMMA NextInv == IInv /\ RunningIsDriven /\ [AgentNext]_agentVars => IInv' /\ RunningIsDriven'
<1> SUFFICES ASSUME IInv, RunningIsDriven, [AgentNext]_agentVars PROVE IInv' /\ RunningIsDriven'
  OBVIOUS
<1>1. ASSUME NEW s \in Starts, StartRun(s) PROVE IInv' /\ RunningIsDriven'
  BY <1>1, StartRunInv
<1>2. ASSUME NEW w \in Workers, WorkerStep(w) PROVE IInv' /\ RunningIsDriven'
  BY <1>2, SpawnWorkerInv, LookInv, BeginStepInv, EndStepInv, ReportInv DEF WorkerStep
<1>3. ASSUME NEW r \in Approvers, BeginApprove(r) \/ EndApprove(r) PROVE IInv' /\ RunningIsDriven'
  BY <1>3, BeginApproveInv, EndApproveInv
<1>4. ASSUME NEW q \in Aborts, Abort(q) PROVE IInv' /\ RunningIsDriven'
  BY <1>4, AbortInv
<1>5. ASSUME NEW c \in Chats, ChatBegin(c) \/ ChatStep(c) \/ ChatStore(c)
      PROVE IInv' /\ RunningIsDriven'
  BY <1>5, ChatBeginInv, ChatStepInv, ChatStoreInv
<1>6. CASE UNCHANGED agentVars
  BY <1>6 DEF agentVars, IInv, TypeOK, Whereabouts, StepsOnceInOrder, RunningIsDriven, Driven, Running
<1> QED BY <1>1, <1>2, <1>3, <1>4, <1>5, <1>6 DEF AgentNext

(* Types, the lock and the place of every agent.                           *)
THEOREM Invariant == AgentSpec => [](IInv /\ RunningIsDriven)
BY InitInv, NextInv, PTL DEF AgentSpec

(* Types, and the lock held by the step or the approval under way.          *)
THEOREM TypeCorrect == AgentSpec => []TypeOK
BY Invariant, PTL DEF IInv

(* However many loops drive an agent, its steps are executed once, in order  *)
(* and within the limit.                                                   *)
THEOREM StepsInOrder == AgentSpec => []StepsOnceInOrder
BY Invariant, PTL DEF IInv

(* A Running agent in the slot has a loop, unless a chat approval released   *)
(* it.                                                                      *)
THEOREM AlwaysDriven == AgentSpec => []RunningIsDriven
BY Invariant, PTL

(* While an agent waits for a human nothing of it is executed except the    *)
(* pending action, by an approval.                                         *)
THEOREM WaitingPaused == AgentSpec => WaitingIsPaused
<1> DEFINE Held == \A a \in Agents :
       state[a] = "Waiting" /\ history'[a] # history[a] =>
         /\ \E r \in Approvers : approver[r] = "acting" /\ approver'[r] = "approved"
         /\ history'[a] = Append(history[a],
              [step |-> step[a], sensitive |-> Sensitive(pending[a]), checkpoint |-> TRUE])
<1>1. ASSUME IInv, [AgentNext]_agentVars PROVE Held
  <2> SUFFICES ASSUME NEW a \in Agents, state[a] = "Waiting", history'[a] # history[a]
               PROVE  /\ \E r \in Approvers : approver[r] = "acting" /\ approver'[r] = "approved"
                      /\ history'[a] = Append(history[a],
                           [step |-> step[a], sensitive |-> Sensitive(pending[a]), checkpoint |-> TRUE])
    OBVIOUS
  <2>1. ASSUME NEW w \in Workers, EndStep(w) PROVE FALSE
    <3>1. slot \in Agents /\ state[slot] = "Running"
      BY <1>1, <2>1, BrowserAssumption DEF EndStep, IInv, TypeOK, Whereabouts, Running
    <3>2. PICK act \in Moves : Step(slot, act)
      BY <2>1 DEF EndStep
    <3>3. act \in Proposals
      BY BrowserAssumption
    <3>4. \A b \in Agents : b # slot => history'[b] = history[b]
      BY <1>1, <3>1, <3>2, <3>3, StepKept
    <3> QED BY <3>1, <3>4
  <2>2. ASSUME NEW c \in Chats, ChatStep(c) PROVE FALSE
    <3>1. c \in Agents /\ state[c] = "Running"
      BY <2>2 DEF ChatStep, Running, Agents
    <3>2. PICK act \in Moves : Step(c, act)
      BY <2>2 DEF ChatStep
    <3>3. act \in Proposals
      BY BrowserAssumption
    <3>4. \A b \in Agents : b # c => history'[b] = history[b]
      BY <1>1, <3>1, <3>2, <3>3, StepKept
    <3> QED BY <3>1, <3>4
  <2>3. ASSUME NEW r \in Approvers, EndApprove(r)
        PROVE  /\ approver[r] = "acting" /\ approver'[r] = "approved"
               /\ history'[a] = Append(history[a],
                    [step |-> step[a], sensitive |-> Sensitive(pending[a]), checkpoint |-> TRUE])
    <3>1. approver[r] = "acting" /\ approver'[r] = "approved"
      BY <1>1, <2>3 DEF EndApprove, IInv, TypeOK
    <3>2. history \in [Agents -> Seq([step : Nat, sensitive : BOOLEAN, checkpoint : BOOLEAN])]
      BY <1>1 DEF IInv, TypeOK
    <3>3. history' = [history EXCEPT ![slot] = Append(@,
            [step |-> step[slot], sensitive |-> Sensitive(pending[slot]), checkpoint |-> TRUE])]
      BY <2>3 DEF EndApprove, Release, Execute
    <3>4. a = slot
      BY <3>2, <3>3
    <3> QED BY <3>1, <3>2, <3>3, <3>4
  <2>4. CASE UNCHANGED history
    BY <2>4
  <2>5. UNCHANGED history \/ (\E w \in Workers : EndStep(w)) \/ (\E c \in Chats : ChatStep(c))
          \/ (\E r \in Approvers : EndApprove(r))
    BY <1>1 DEF AgentNext, WorkerStep, StartRun, SpawnWorker, Look, BeginStep, Report, BeginApprove,
                Abort, ChatBegin, ChatStore, agentVars
  <2> QED BY <2>1, <2>2, <2>3, <2>4, <2>5
<1>2. AgentSpec => []IInv
  BY Invariant, PTL
<1> QED BY <1>1, <1>2, PTL DEF AgentSpec, WaitingIsPaused

(* An aborted agent executes nothing more and stays aborted.               *)
THEOREM AbortFinal == AgentSpec => AbortIsFinal
<1> DEFINE Still == \A a \in Agents :
       state[a] = "Aborted" => state'[a] = "Aborted" /\ history'[a] = history[a]
<1>1. ASSUME IInv, [AgentNext]_agentVars PROVE Still
  <2> SUFFICES ASSUME NEW a \in Agents, state[a] = "Aborted"
               PROVE  state'[a] = "Aborted" /\ history'[a] = history[a]
    OBVIOUS
  <2>0. state \in [Agents -> {"none", "Running", "Waiting", "Completed", "Aborted"}]
    BY <1>1 DEF IInv, TypeOK
  <2>1. ASSUME NEW w \in Workers, EndStep(w) PROVE state'[a] = state[a] /\ history'[a] = history[a]
    <3>1. slot \in Agents /\ state[slot] = "Running"
      BY <1>1, <2>1, BrowserAssumption DEF EndStep, IInv, TypeOK, Whereabouts, Running
    <3>2. PICK act \in Moves : Step(slot, act)
      BY <2>1 DEF EndStep
    <3>3. act \in Proposals
      BY BrowserAssumption
    <3>4. \A b \in Agents : b # slot => state'[b] = state[b] /\ history'[b] = history[b]
      BY <1>1, <3>1, <3>2, <3>3, StepKept
    <3> QED BY <3>1, <3>4
  <2>2. ASSUME NEW c \in Chats, ChatStep(c) PROVE state'[a] = state[a] /\ history'[a] = history[a]
    <3>1. c \in Agents /\ state[c] = "Running"
      BY <2>2 DEF ChatStep, Running, Agents
    <3>2. PICK act \in Moves : Step(c, act)
      BY <2>2 DEF ChatStep
    <3>3. act \in Proposals
      BY BrowserAssumption
    <3>4. \A b \in Agents : b # c => state'[b] = state[b] /\ history'[b] = history[b]
      BY <1>1, <3>1, <3>2, <3>3, StepKept
    <3> QED BY <3>1, <3>4
  <2>3. ASSUME NEW r \in Approvers, EndApprove(r) PROVE state'[a] = state[a] /\ history'[a] = history[a]
    <3>1. slot \in Agents /\ state[slot] = "Waiting" /\ Release(slot)
      BY <1>1, <2>3, BrowserAssumption DEF EndApprove, IInv, TypeOK, Whereabouts
    <3>2. \A b \in Agents : b # slot => state'[b] = state[b] /\ history'[b] = history[b]
      BY <1>1, <3>1, ReleaseKept
    <3> QED BY <3>1, <3>2
  <2>4. ASSUME NEW q \in Aborts, Abort(q) PROVE state'[a] = "Aborted" /\ history'[a] = history[a]
    BY <2>0, <2>4 DEF Abort
  <2>5. ASSUME NEW s \in Starts, StartRun(s) PROVE state'[a] = "Aborted" /\ history'[a] = history[a]
    BY <2>0, <2>5 DEF StartRun, Begin
  <2>6. ASSUME NEW c \in Chats, ChatBegin(c) PROVE state'[a] = "Aborted" /\ history'[a] = history[a]
    <3>1. state[c] = "none"
      BY <1>1, <2>6 DEF ChatBegin, IInv, Whereabouts
    <3> QED BY <2>0, <2>6, <3>1 DEF ChatBegin, Begin
  <2>7. \/ UNCHANGED <<state, history>> \/ (\E w \in Workers : EndStep(w)) \/ (\E c \in Chats : ChatStep(c))
        \/ (\E r \in Approvers : EndApprove(r)) \/ (\E q \in Aborts : Abort(q))
        \/ (\E s \in Starts : StartRun(s)) \/ (\E c \in Chats : ChatBegin(c))
    BY <1>1 DEF AgentNext, WorkerStep, SpawnWorker, Look, BeginStep, Report, BeginApprove, ChatStore, agentVars
  <2> QED BY <2>1, <2>2, <2>3, <2>4, <2>5, <2>6, <2>7
<1>2. AgentSpec => []IInv
  BY Invariant, PTL
<1> QED BY <1>1, <1>2, PTL DEF AgentSpec, AbortIsFinal

(* The agent of the slot is well formed and driven, and steps once, in order. *)
THEOREM Consistent == AgentSpec => []AgentConsistent
<1>1. TypeOK /\ StepsOnceInOrder /\ RunningIsDriven => AgentConsistent
  BY DEF AgentConsistent
<1> QED BY <1>1, TypeCorrect, StepsInOrder, AlwaysDriven, PTL

(* A waiting agent is paused until a human approves, an aborted one for good. *)
THEOREM StoppedByHuman == AgentSpec => HumanDecides
BY WaitingPaused, AbortFinal DEF HumanDecides

-----------------------------------------------------------------------------
(* Checkpoints of the browser agent.                                       *)

(* The approvals that released a checkpoint of an agent.                    *)
Releases(a) == {r \in Approvers : granted[r] = a}

GatedAsked(a) ==
  a \in Gated => \A i \in 1..Len(history[a]) : history[a][i].sensitive => history[a][i].checkpoint

(* The browser of a gated agent is at a checkout page only after a checkpoint. *)
PageAsked(a) == a \in Gated /\ page[a] = "checkout" => Checkpoints(a) # {}

(* An agent has executed as many checkpoints as were released, and an        *)
(* approval that is not over has released none.                             *)
Ledger ==
  /\ \A r \in Approvers : approver[r] # "approved" => granted[r] = NoOne
  /\ \A a \in Agents : /\ GatedAsked(a) /\ PageAsked(a)
                       /\ IsFiniteSet(Checkpoints(a)) /\ IsFiniteSet(Releases(a))
                       /\ Cardinality(Checkpoints(a)) = Cardinality(Releases(a))

(* An action is one entry of the history of its agent: a checkpoint is new   *)
(* there exactly when a human released the action.                          *)
LEMMA ExecuteCounts ==
  ASSUME TypeOK, NEW a \in Agents, NEW act \in Proposals, NEW cp \in BOOLEAN,
         Execute(a, act, cp), Sensitive(act) /\ a \in Gated => cp,
         \A b \in Agents : GatedAsked(b) /\ PageAsked(b)
  PROVE  /\ \A b \in Agents : GatedAsked(b)' /\ PageAsked(b)'
         /\ \A b \in Agents : b # a \/ ~cp => Checkpoints(b)' = Checkpoints(b)
         /\ cp => \E i : i \notin Checkpoints(a) /\ Checkpoints(a)' = Checkpoints(a) \cup {i}
<1> DEFINE e == [step |-> step[a], sensitive |-> Sensitive(act), checkpoint |-> cp]
           E == [step : Nat, sensitive : BOOLEAN, checkpoint : BOOLEAN]
           n == Len(history[a])
<1>1. history \in [Agents -> Seq(E)] /\ step[a] \in Nat /\ n \in Nat
  BY DEF TypeOK
<1>2. e \in E
  BY <1>1 DEF Sensitive
<1>3. history' = [history EXCEPT ![a] = Append(@, e)]
  BY DEF Execute
<1>4. /\ Len(history'[a]) = n + 1 /\ history'[a][n + 1] = e
      /\ \A i \in 1..n : history'[a][i] = history[a][i]
  <2> HIDE DEF e, E
  <2> QED BY <1>1, <1>2, <1>3
<1>5. \A b \in Agents : b # a => history'[b] = history[b]
  BY <1>1, <1>3
<1>6. e.sensitive = Sensitive(act) /\ e.checkpoint = cp
  OBVIOUS
<1>7. GatedAsked(a)'
  <2> SUFFICES ASSUME a \in Gated, NEW i \in 1..(n + 1), history'[a][i].sensitive
               PROVE  history'[a][i].checkpoint
    BY <1>4 DEF GatedAsked
  <2>1. CASE i = n + 1
    BY <2>1, <1>4, <1>6
  <2>2. CASE i # n + 1
    <3>1. i \in 1..n
      BY <2>2, <1>1
    <3> QED BY <3>1, <1>4 DEF GatedAsked
  <2> QED BY <2>1, <2>2
<1>8. \A b \in Agents : GatedAsked(b)'
  BY <1>5, <1>7 DEF GatedAsked
<1>9. \A b \in Agents : b # a => Checkpoints(b)' = Checkpoints(b)
  BY <1>5 DEF Checkpoints
<1>10. Checkpoints(a)' = Checkpoints(a) \cup (IF cp THEN {n + 1} ELSE {})
  <2>1. Checkpoints(a)' = {i \in 1..(n + 1) : history'[a][i].checkpoint}
    BY <1>4 DEF Checkpoints
  <2>2. \A i : i \in 1..(n + 1) <=> i \in 1..n \/ i = n + 1
    BY <1>1
  <2>3. \A i : i \in Checkpoints(a)' <=> (i \in 1..n /\ history'[a][i].checkpoint) \/ (i = n + 1 /\ cp)
    BY <2>1, <2>2, <1>4, <1>6
  <2>4. \A i : i \in Checkpoints(a) <=> i \in 1..n /\ history'[a][i].checkpoint
    BY <1>4 DEF Checkpoints
  <2> QED BY <2>3, <2>4
<1>11. n + 1 \notin Checkpoints(a)
  BY <1>1 DEF Checkpoints
<1>12. page \in [Agents -> Places] /\ page' = [page EXCEPT ![a] = Target(act, @)]
  BY DEF TypeOK, Execute
<1>13. \A b \in Agents : PageAsked(b)'
  <2> SUFFICES ASSUME NEW b \in Agents, b \in Gated, page'[b] = "checkout"
               PROVE  Checkpoints(b)' # {}
    BY DEF PageAsked
  <2>1. CASE b # a
    BY <2>1, <1>9, <1>12 DEF PageAsked
  <2>2. CASE b = a /\ cp
    BY <2>2, <1>10
  <2>3. CASE b = a /\ ~cp
    <3>1. ~Sensitive(act) /\ page'[a] = Target(act, page[a])
      BY <2>3, <1>12
    <3>2. page[a] = "checkout"
      BY <2>3, <3>1 DEF Sensitive, Target
    <3> QED BY <2>3, <3>2, <1>10 DEF PageAsked
  <2> QED BY <2>1, <2>2, <2>3
<1> QED BY <1>8, <1>9, <1>10, <1>11, <1>13

(* A step asks before it runs a sensitive action of a gated agent.           *)
LEMMA StepCounts ==
  ASSUME TypeOK, Ledger, NEW a \in Agents, NEW act \in Proposals, Step(a, act),
         UNCHANGED <<approver, granted>>
  PROVE  Ledger'
<1>1. /\ \A b \in Agents : GatedAsked(b)' /\ PageAsked(b)'
      /\ \A b \in Agents : Checkpoints(b)' = Checkpoints(b)
  <2>1. CASE NeedsApproval(a, act)
    <3>1. history' = history /\ page' = page
      BY <2>1 DEF Step
    <3> QED BY <3>1 DEF Ledger, GatedAsked, PageAsked, Checkpoints
  <2>2. CASE ~NeedsApproval(a, act)
    <3>1. Execute(a, act, FALSE)
      BY <2>2 DEF Step
    <3>2. ~(Sensitive(act) /\ a \in Gated)
      BY <2>2 DEF NeedsApproval
    <3>3. \A b \in Agents : GatedAsked(b) /\ PageAsked(b)
      BY DEF Ledger
    <3> QED BY <3>1, <3>2, <3>3, ExecuteCounts
  <2> QED BY <2>1, <2>2
<1>2. \A b \in Agents : Releases(b)' = Releases(b)
  BY DEF Releases
<1> QED BY <1>1, <1>2 DEF Ledger

(* An approval releases the action of the agent in the slot, once.           *)
LEMMA ApproveCounts ==
  ASSUME IInv, Ledger, NEW r \in Approvers, EndApprove(r)
  PROVE  Ledger'
<1>1. slot \in Agents /\ pending[slot] \in Proposals /\ slot # NoOne
  <2>1. slot # NoOne /\ state[slot] = "Waiting"
    BY DEF EndApprove, IInv, Whereabouts
  <2>2. slot \in Agents
    BY <2>1 DEF IInv, TypeOK
  <2> QED BY <2>1, <2>2 DEF IInv, TypeOK, Whereabouts
<1>0. PICK a \in Agents : a = slot
  BY <1>1
<1>2. Execute(a, pending[a], TRUE)
  BY <1>0 DEF EndApprove, Release
<1>3. /\ \A b \in Agents : GatedAsked(b)' /\ PageAsked(b)'
      /\ \A b \in Agents : b # a => Checkpoints(b)' = Checkpoints(b)
      /\ \E i : i \notin Checkpoints(a) /\ Checkpoints(a)' = Checkpoints(a) \cup {i}
  <2>1. TypeOK /\ \A b \in Agents : GatedAsked(b) /\ PageAsked(b)
    BY DEF IInv, Ledger
  <2>2. TRUE \in BOOLEAN
    OBVIOUS
  <2> QED BY <2>1, <2>2, <1>0, <1>1, <1>2, ExecuteCounts
<1>4. /\ granted' = [granted EXCEPT ![r] = slot] /\ approver' = [approver EXCEPT ![r] = "approved"]
      /\ granted \in [Approvers -> Agents \cup {NoOne}] /\ granted[r] = NoOne
      /\ approver \in [Approvers -> {"idle", "acting", "approved", "refused"}]
  BY DEF EndApprove, IInv, TypeOK, Ledger
<1>5. /\ \A b \in Agents : b # a => Releases(b)' = Releases(b)
      /\ r \notin Releases(a) /\ Releases(a)' = Releases(a) \cup {r}
  <2>1. \A b \in Agents : b # NoOne
    BY BrowserAssumption
  <2>2. \A p \in Approvers : p # r => granted'[p] = granted[p]
    BY <1>4
  <2>3. granted'[r] = slot /\ granted[r] = NoOne
    BY <1>4
  <2> QED BY <1>0, <1>1, <2>1, <2>2, <2>3 DEF Releases
<1>6. /\ IsFiniteSet(Checkpoints(a)') /\ IsFiniteSet(Releases(a)')
      /\ Cardinality(Checkpoints(a)') = Cardinality(Releases(a)')
  <2>1. /\ IsFiniteSet(Checkpoints(a)) /\ IsFiniteSet(Releases(a))
        /\ Cardinality(Checkpoints(a)) = Cardinality(Releases(a))
    BY <1>1 DEF Ledger
  <2>2. PICK i : i \notin Checkpoints(a) /\ Checkpoints(a)' = Checkpoints(a) \cup {i}
    BY <1>3
  <2>3. /\ IsFiniteSet(Checkpoints(a)')
        /\ Cardinality(Checkpoints(a)') = Cardinality(Checkpoints(a)) + 1
    BY <2>1, <2>2, FS_AddElement
  <2>4. /\ IsFiniteSet(Releases(a)')
        /\ Cardinality(Releases(a)') = Cardinality(Releases(a)) + 1
    BY <2>1, <1>5, FS_AddElement
  <2> QED BY <2>1, <2>3, <2>4
<1>7. \A p \in Approvers : approver'[p] # "approved" => granted'[p] = NoOne
  BY <1>4 DEF Ledger
<1>8. ASSUME NEW b \in Agents
      PROVE  /\ IsFiniteSet(Checkpoints(b)') /\ IsFiniteSet(Releases(b)')
             /\ Cardinality(Checkpoints(b)') = Cardinality(Releases(b)')
  <2>1. CASE b = a
    BY <2>1, <1>6
  <2>2. CASE b # a
    BY <2>2, <1>3, <1>5 DEF Ledger
  <2> QED BY <2>1, <2>2
<1> QED BY <1>3, <1>7, <1>8 DEF Ledger

LEMMA LedgerStep == IInv /\ Ledger /\ [AgentNext]_agentVars => Ledger'
<1> SUFFICES ASSUME IInv, Ledger, [AgentNext]_agentVars PROVE Ledger'
  OBVIOUS
<1>1. TypeOK
  BY DEF IInv
<1>2. ASSUME NEW w \in Workers, EndStep(w) PROVE Ledger'
  <2>1. slot \in Agents
    BY <1>2, BrowserAssumption DEF EndStep, IInv, TypeOK, Whereabouts, Running
  <2>2. PICK act \in Moves : Step(slot, act)
    BY <1>2 DEF EndStep
  <2>3. act \in Proposals /\ UNCHANGED <<approver, granted>>
    BY <1>2, BrowserAssumption DEF EndStep
  <2> QED BY <1>1, <2>1, <2>2, <2>3, StepCounts
<1>3. ASSUME NEW c \in Chats, ChatStep(c) PROVE Ledger'
  <2>1. PICK act \in Moves : Step(c, act)
    BY <1>3 DEF ChatStep
  <2>2. act \in Proposals /\ c \in Agents /\ UNCHANGED <<approver, granted>>
    BY <1>3, BrowserAssumption DEF ChatStep, Agents
  <2> QED BY <1>1, <2>1, <2>2, StepCounts
<1>4. ASSUME NEW r \in Approvers, EndApprove(r) PROVE Ledger'
  BY <1>4, ApproveCounts
<1>5. ASSUME NEW r \in Approvers, BeginApprove(r) PROVE Ledger'
  <2>1. /\ UNCHANGED <<history, page, granted>>
        /\ \A p \in Approvers : approver[p] = "approved" => approver'[p] = "approved"
    BY <1>5 DEF BeginApprove, IInv, TypeOK
  <2>2. \A b \in Agents : Checkpoints(b)' = Checkpoints(b) /\ Releases(b)' = Releases(b)
    BY <2>1 DEF Checkpoints, Releases
  <2>3. \A p \in Approvers : approver'[p] # "approved" => granted'[p] = NoOne
    BY <2>1 DEF Ledger
  <2>4. ASSUME NEW b \in Agents
        PROVE  /\ GatedAsked(b)' /\ PageAsked(b)'
               /\ IsFiniteSet(Checkpoints(b)') /\ IsFiniteSet(Releases(b)')
               /\ Cardinality(Checkpoints(b)') = Cardinality(Releases(b)')
    <3>1. /\ IsFiniteSet(Checkpoints(b)) /\ IsFiniteSet(Releases(b))
          /\ Cardinality(Checkpoints(b)) = Cardinality(Releases(b))
      BY DEF Ledger
    <3>2. GatedAsked(b)' /\ PageAsked(b)'
      BY <2>1, <2>2 DEF Ledger, GatedAsked, PageAsked
    <3> QED BY <3>1, <3>2, <2>2
  <2> QED BY <2>3, <2>4 DEF Ledger
<1>6. CASE UNCHANGED <<history, page, granted, approver>>
  BY <1>6 DEF Ledger, GatedAsked, PageAsked, Checkpoints, Releases
<1>7. \/ UNCHANGED <<history, page, granted, approver>>
      \/ (\E w \in Workers : EndStep(w)) \/ (\E c \in Chats : ChatStep(c))
      \/ \E r \in Approvers : BeginApprove(r) \/ EndApprove(r)
  BY DEF AgentNext, WorkerStep, StartRun, SpawnWorker, Look, BeginStep, Report, Abort,
         ChatBegin, ChatStore, agentVars
<1> QED BY <1>2, <1>3, <1>4, <1>5, <1>6, <1>7

(* However approvals, loops and chat goals overlap, every checkpoint that was *)
(* executed has its own approval, and a gated agent neither runs a sensitive  *)
(* action nor navigates to a checkout page without one.                     *)
THEOREM CheckpointsApproved == AgentSpec => []OneCheckpointPerApproval
<1>1. AgentInit => Ledger
  <2> SUFFICES ASSUME AgentInit PROVE Ledger
    OBVIOUS
  <2>1. \A a \in Agents : Checkpoints(a) = {} /\ Releases(a) = {} /\ GatedAsked(a) /\ PageAsked(a)
    BY BrowserAssumption DEF AgentInit, Checkpoints, Releases, GatedAsked, PageAsked
  <2>2. IsFiniteSet({}) /\ Cardinality({}) = 0
    BY FS_EmptySet
  <2> QED BY <2>1, <2>2 DEF Ledger, AgentInit
<1>2. Ledger => OneCheckpointPerApproval
  BY DEF Ledger, OneCheckpointPerApproval, GatedAsked, PageAsked, Releases
<1>3. AgentSpec => []IInv
  BY Invariant, PTL
<1> QED BY <1>1, <1>2, <1>3, LedgerStep, PTL DEF AgentSpec

-----------------------------------------------------------------------------
(* The idle notices.                                                       *)

(* An IDE that waits for its calls has at most one on its way, the last one,  *)
(* unless it gave one up.                                                   *)
LastCallOnly ==
  /\ threads \in [Busy -> {"sent", "half"}] /\ waitingFor \subseteq Busy
  /\ late \in BOOLEAN /\ isIdle \in BOOLEAN /\ callsMade \in Nat
  /\ ~late => Busy \subseteq waitingFor /\ Busy \subseteq {callsMade}

(* A user is away after an odd number of calls.                             *)
CallsAlternate == isIdle <=> IsStart(callsMade)

(* While the user types the daemon trains only until it has read the last     *)
(* call, an idle_stop.                                                      *)
StopIsComing ==
  ~late /\ ~isIdle /\ Working => callsMade \in Busy /\ threads[callsMade] = "sent"

IdleInv == LastCallOnly /\ CallsAlternate /\ StopIsComing

LEMMA Alternation ==
  \A n \in Nat : n + 1 \in Nat /\ n + 1 # n /\ (IsStart(n + 1) <=> ~IsStart(n))
BY DEF IsStart

(* What a call changes, be the daemon there or not.                         *)
LEMMA CallMade ==
  ASSUME LastCallOnly, Call, waitingFor = {}
  PROVE  /\ callsMade' = callsMade + 1
         /\ threads' \in [DOMAIN threads' -> {"sent", "half"}]
         /\ waitingFor' \subseteq DOMAIN threads'
         /\ Busy = {} => /\ DOMAIN threads' \subseteq waitingFor'
                         /\ DOMAIN threads' \subseteq {callsMade'}
         /\ Busy = {} /\ alive => callsMade' \in DOMAIN threads' /\ threads'[callsMade'] = "sent"
<1>1. CASE alive
  <2>1. threads' = [n \in Busy \cup {callsMade'} |-> IF n \in Busy THEN threads[n] ELSE "sent"]
    BY <1>1 DEF Call
  <2>2. DOMAIN threads' = Busy \cup {callsMade'}
    BY <2>1
  <2> QED BY <1>1, <2>1, <2>2 DEF Call, LastCallOnly, Busy
<1>2. CASE ~alive
  BY <1>2 DEF Call, LastCallOnly, Busy
<1> QED BY <1>1, <1>2

LEMMA IdleStep ==
  ASSUME Locked, IdleInv, [IdleNext]_idleVars
  PROVE  IdleInv'
<1> USE DEF IdleInv, LastCallOnly, CallsAlternate, StopIsComing, Busy, Working
<1>1. CASE FallIdle
  <2>1. waitingFor = {} /\ Call /\ ~isIdle /\ isIdle' /\ late' = late
    BY <1>1 DEF FallIdle, MayCall
  <2>2. CallsAlternate'
    BY <2>1, CallMade, Alternation DEF IsStart
  <2>3. late' \in BOOLEAN /\ isIdle' \in BOOLEAN /\ callsMade' \in Nat
    BY <2>1, CallMade, Alternation
  <2>4. ~late => Busy = {}
    BY <2>1
  <2>5. LastCallOnly'
    BY <2>1, <2>3, <2>4, CallMade
  <2> QED BY <2>1, <2>2, <2>5
<1>2. CASE UserActivity
  <2>1. waitingFor = {} /\ Call /\ isIdle /\ ~isIdle' /\ late' = (late /\ Busy # {})
    BY <1>2 DEF UserActivity, MayCall
  <2>2. CallsAlternate'
    BY <2>1, CallMade, Alternation DEF IsStart
  <2>3. alive' = alive
    BY <1>2 DEF UserActivity
  <2>4. ~late' => Busy = {}
    BY <2>1
  <2>5. LastCallOnly'
    <3>1. late' \in BOOLEAN /\ isIdle' \in BOOLEAN /\ callsMade' \in Nat
      BY <2>1, CallMade, Alternation, <1>2 DEF UserActivity
    <3> QED BY <2>1, <2>4, <3>1, CallMade
  <2>6. StopIsComing'
    BY <2>1, <2>3, <2>4, CallMade
  <2> QED BY <2>2, <2>5, <2>6
<1>3. ASSUME NEW n \in 1..MaxCalls, TimeOut(n) PROVE IdleInv'
  BY <1>3 DEF TimeOut, IsStart
<1>4. ASSUME NEW n \in 1..MaxCalls, SetIdle(n) PROVE IdleInv'
  <2>1. DOMAIN threads' = Busy /\ threads' \in [Busy -> {"sent", "half"}]
    BY <1>4 DEF SetIdle
  <2>2. LastCallOnly' /\ CallsAlternate'
    BY <1>4, <2>1 DEF SetIdle, IsStart
  <2>3. ASSUME ~late, ~isIdle PROVE ~daemonIdle'
    BY <1>4, <2>3 DEF SetIdle
  <2> QED BY <1>4, <2>2, <2>3 DEF SetIdle
<1>5. ASSUME NEW n \in 1..MaxCalls, SetPaused(n) PROVE IdleInv'
  <2>1. DOMAIN threads' = Busy \ {n} /\ threads' \in [Busy \ {n} -> {"sent", "half"}]
    BY <1>5 DEF SetPaused, Restrict
  <2>2. LastCallOnly' /\ CallsAlternate'
    BY <1>5, <2>1 DEF SetPaused, IsStart
  <2>3. ASSUME ~late, ~isIdle PROVE paused'
    BY <1>5, <2>3 DEF SetPaused
  <2> QED BY <1>5, <2>2, <2>3 DEF SetPaused
<1>6. CASE DaemonDies
  <2>1. DOMAIN threads' = {} /\ threads' \in [{} -> {"sent", "half"}]
    BY <1>6 DEF DaemonDies
  <2> QED BY <1>6, <2>1 DEF DaemonDies, IsStart
<1>7. CASE DaemonStarts
  BY <1>7 DEF DaemonStarts, IsStart
<1>8. CASE UNCHANGED idleVars
  BY <1>8 DEF idleVars, IsStart
<1> QED BY <1>1, <1>2, <1>3, <1>4, <1>5, <1>6, <1>7, <1>8 DEF IdleNext

(* An IDE that waits for its calls, as the tracker does under its lock, finds *)
(* the daemon at rest while its user types, unless a call was given up.      *)
THEOREM TypingAlwaysPauses == ASSUME Locked PROVE IdleSpec => []TypingPauses
<1>1. IdleInit => IdleInv
  <2> HAVE IdleInit
  <2>1. DOMAIN threads = {} /\ threads \in [{} -> {"sent", "half"}]
    BY DEF IdleInit
  <2>2. CallsAlternate /\ StopIsComing
    BY DEF IdleInit, CallsAlternate, StopIsComing, Working, IsStart
  <2> QED BY <2>1, <2>2 DEF IdleInit, IdleInv, LastCallOnly, Busy
<1>2. IdleInv /\ [IdleNext]_idleVars => IdleInv'
  BY IdleStep
<1>3. IdleInv => TypingPauses
  BY DEF IdleInv, StopIsComing, TypingPauses
<1> QED BY <1>1, <1>2, <1>3, PTL DEF IdleSpec
=============================================================================
