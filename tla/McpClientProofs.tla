------------------------- MODULE McpClientProofs -------------------------
(***************************************************************************)
(* Theorems about McpClient, for every set of requests, every number of    *)
(* shards, every channel capacity, and a peer that does what it likes.     *)
(***************************************************************************)
EXTENDS McpClient, TLAPS

IInv == TypeOK /\ CallsFit /\ PendingExact

LEMMA InitIInv == Init => IInv
<1> SUFFICES ASSUME Init PROVE IInv
  OBVIOUS
<1> USE ClientAssumption DEF Init
<1>1. TypeOK
  <2>1. sweep \in 0 .. NumShards
    OBVIOUS
  <2> QED
    BY <2>1 DEF TypeOK, Verdicts, Failures
<1>2. CallsFit
  BY DEF CallsFit, CallFits, Verdicts, Request
<1>3. PendingExact
  BY DEF PendingExact
<1> QED
  BY <1>1, <1>2, <1>3 DEF IInv

\* Each action keeps the types.
LEMMA TypeStep == IInv /\ [Next]_vars => TypeOK'
<1> SUFFICES ASSUME IInv, [Next]_vars PROVE TypeOK'
  OBVIOUS
<1> TypeOK /\ (recv # "ended" => sweep < NumShards)
  BY DEF IInv, CallsFit
<1> USE ClientAssumption DEF TypeOK, Message, Response, Verdicts, Failures
<1>1. ASSUME NEW c \in Calls, Register(c), UNCHANGED served PROVE TypeOK'
  BY <1>1 DEF Register, callerVars, linkVars
<1>2. ASSUME NEW c \in Calls, Send(c), UNCHANGED served PROVE TypeOK'
  BY <1>2 DEF Send, callerVars, linkVars, SendOk, Request
<1>3. ASSUME NEW c \in Calls, SendFailed(c), UNCHANGED served PROVE TypeOK'
  BY <1>3 DEF SendFailed, callerVars, linkVars, SendFails
<1>4. ASSUME NEW c \in Calls, Return(c), UNCHANGED served PROVE TypeOK'
  BY <1>4 DEF Return, callerVars, linkVars
<1>5. ASSUME NEW c \in Calls, Confirm(c), UNCHANGED served PROVE TypeOK'
  BY <1>5 DEF Confirm, callerVars, linkVars, SendOk, SendFails, Confirmation
<1>6. ASSUME NEW c \in Calls, Orphaned(c), UNCHANGED served PROVE TypeOK'
  BY <1>6 DEF Orphaned, callerVars, linkVars
<1>7. ASSUME NEW c \in Calls, ReturnDropped(c), UNCHANGED served PROVE TypeOK'
  BY <1>7 DEF ReturnDropped, callerVars, linkVars
<1>8. ASSUME NEW c \in Calls, TimeOut(c), UNCHANGED served PROVE TypeOK'
  BY <1>8 DEF TimeOut, callerVars, linkVars
<1>9. ASSUME NEW c \in Calls, Forget(c), UNCHANGED served PROVE TypeOK'
  BY <1>9 DEF Forget, callerVars, linkVars
<1>10. ASSUME NEW c \in Calls, ReturnTimeout(c), UNCHANGED served PROVE TypeOK'
  BY <1>10 DEF ReturnTimeout, callerVars, linkVars, SendOk, SendFails, CancelNote
<1>11. ASSUME NEW c \in Calls, CancelRequest(c), UNCHANGED served PROVE TypeOK'
  BY <1>11 DEF CancelRequest, callerVars, linkVars, Drop
<1>12. ASSUME NEW c \in Calls, CancelTell(c), UNCHANGED served PROVE TypeOK'
  BY <1>12 DEF CancelTell, callerVars, linkVars, SendOk, SendFails, CancelNote
<1>13. ASSUME NEW m \in toClient, Receive(m), UNCHANGED served PROVE TypeOK'
  BY <1>13 DEF Receive, Wake, callerVars, linkVars
<1>14. ASSUME Close, UNCHANGED served PROVE TypeOK'
  BY <1>14 DEF Close, callerVars, linkVars
<1>15. ASSUME StopReceiving, UNCHANGED served PROVE TypeOK'
  BY <1>15 DEF StopReceiving, callerVars, linkVars
<1>16. ASSUME Sweep, UNCHANGED served PROVE TypeOK'
  BY <1>16 DEF Sweep, callerVars, linkVars, InShard
<1>17. ASSUME NEW m \in toServer, PeerReads(m) PROVE TypeOK'
  BY <1>17 DEF PeerReads, callerVars, linkVars
<1>18. ASSUME NEW m \in toServer, PeerAnswers(m) PROVE TypeOK'
  BY <1>18 DEF PeerAnswers, callerVars, linkVars
<1>19. ASSUME PeerStopsTalking PROVE TypeOK'
  BY <1>19 DEF PeerStopsTalking, callerVars, linkVars
<1>20. ASSUME PeerStopsListening PROVE TypeOK'
  BY <1>20 DEF PeerStopsListening, callerVars, linkVars
<1>21. CASE UNCHANGED vars
  BY <1>21 DEF vars, clientVars, callerVars, linkVars
<1> QED
  BY <1>1, <1>2, <1>3, <1>4, <1>5, <1>6, <1>7, <1>8, <1>9, <1>10, <1>11, <1>12, <1>13, <1>14, <1>15, <1>16, <1>17, <1>18, <1>19, <1>20, <1>21
     DEF Next, ClientNext, Caller, Canceller, Receiver, Peer, Reading

\* The channel and the answer of a call fit its stage after each action.
LEMMA FitStep == IInv /\ [Next]_vars => CallsFit'
<1> SUFFICES ASSUME IInv, [Next]_vars PROVE CallsFit'
  OBVIOUS
<1> TypeOK /\ CallsFit /\ PendingExact
  BY DEF IInv
<1> USE ClientAssumption DEF TypeOK, CallsFit, CallFits, PendingExact,
        Message, Response, Verdicts, Failures, Request, CancelNote, Confirmation
<1>1. ASSUME NEW c \in Calls, Register(c), UNCHANGED served PROVE CallsFit'
  BY <1>1 DEF Register, callerVars, linkVars
<1>2. ASSUME NEW c \in Calls, Send(c), UNCHANGED served PROVE CallsFit'
  BY <1>2 DEF Send, callerVars, linkVars, SendOk, Request
<1>3. ASSUME NEW c \in Calls, SendFailed(c), UNCHANGED served PROVE CallsFit'
  BY <1>3 DEF SendFailed, callerVars, linkVars, SendFails
<1>4. ASSUME NEW c \in Calls, Return(c), UNCHANGED served PROVE CallsFit'
  BY <1>4 DEF Return, callerVars, linkVars
<1>5. ASSUME NEW c \in Calls, Confirm(c), UNCHANGED served PROVE CallsFit'
  BY <1>5 DEF Confirm, callerVars, linkVars, SendOk, SendFails, Confirmation
<1>6. ASSUME NEW c \in Calls, Orphaned(c), UNCHANGED served PROVE CallsFit'
  BY <1>6 DEF Orphaned, callerVars, linkVars
<1>7. ASSUME NEW c \in Calls, ReturnDropped(c), UNCHANGED served PROVE CallsFit'
  BY <1>7 DEF ReturnDropped, callerVars, linkVars
<1>8. ASSUME NEW c \in Calls, TimeOut(c), UNCHANGED served PROVE CallsFit'
  BY <1>8 DEF TimeOut, callerVars, linkVars
<1>9. ASSUME NEW c \in Calls, Forget(c), UNCHANGED served PROVE CallsFit'
  BY <1>9 DEF Forget, callerVars, linkVars
<1>10. ASSUME NEW c \in Calls, ReturnTimeout(c), UNCHANGED served PROVE CallsFit'
  BY <1>10 DEF ReturnTimeout, callerVars, linkVars, SendOk, SendFails, CancelNote
<1>11. ASSUME NEW c \in Calls, CancelRequest(c), UNCHANGED served PROVE CallsFit'
  BY <1>11 DEF CancelRequest, callerVars, linkVars, Drop
<1>12. ASSUME NEW c \in Calls, CancelTell(c), UNCHANGED served PROVE CallsFit'
  BY <1>12 DEF CancelTell, callerVars, linkVars, SendOk, SendFails, CancelNote
<1>13. ASSUME NEW m \in toClient, Receive(m), UNCHANGED served PROVE CallsFit'
  BY <1>13 DEF Receive, Wake, callerVars, linkVars
<1>14. ASSUME Close, UNCHANGED served PROVE CallsFit'
  BY <1>14 DEF Close, callerVars, linkVars
<1>15. ASSUME StopReceiving, UNCHANGED served PROVE CallsFit'
  BY <1>15 DEF StopReceiving, callerVars, linkVars
<1>16. ASSUME Sweep, UNCHANGED served PROVE CallsFit'
  BY <1>16 DEF Sweep, callerVars, linkVars, InShard
<1>17. ASSUME NEW m \in toServer, PeerReads(m) PROVE CallsFit'
  BY <1>17 DEF PeerReads, callerVars, linkVars
<1>18. ASSUME NEW m \in toServer, PeerAnswers(m) PROVE CallsFit'
  BY <1>18 DEF PeerAnswers, callerVars, linkVars
<1>19. ASSUME PeerStopsTalking PROVE CallsFit'
  BY <1>19 DEF PeerStopsTalking, callerVars, linkVars
<1>20. ASSUME PeerStopsListening PROVE CallsFit'
  BY <1>20 DEF PeerStopsListening, callerVars, linkVars
<1>21. CASE UNCHANGED vars
  BY <1>21 DEF vars, clientVars, callerVars, linkVars
<1> QED
  BY <1>1, <1>2, <1>3, <1>4, <1>5, <1>6, <1>7, <1>8, <1>9, <1>10, <1>11, <1>12, <1>13, <1>14, <1>15, <1>16, <1>17, <1>18, <1>19, <1>20, <1>21
     DEF Next, ClientNext, Caller, Canceller, Receiver, Peer, Reading

\* Each action keeps the map and the callers in step.
LEMMA PendingStep == IInv /\ [Next]_vars => PendingExact'
<1> SUFFICES ASSUME IInv, [Next]_vars PROVE PendingExact'
  OBVIOUS
<1> TypeOK /\ CallsFit /\ PendingExact
  BY DEF IInv
<1> USE DEF TypeOK, CallsFit, CallFits, PendingExact, Response, Verdicts, Failures
<1>1. ASSUME NEW c \in Calls, Register(c), UNCHANGED served PROVE PendingExact'
  BY <1>1 DEF Register, callerVars, linkVars
<1>2. ASSUME NEW c \in Calls, Send(c), UNCHANGED served PROVE PendingExact'
  BY <1>2 DEF Send, callerVars, linkVars, SendOk, Request
<1>3. ASSUME NEW c \in Calls, SendFailed(c), UNCHANGED served PROVE PendingExact'
  BY <1>3 DEF SendFailed, callerVars, linkVars, SendFails
<1>4. ASSUME NEW c \in Calls, Return(c), UNCHANGED served PROVE PendingExact'
  BY <1>4 DEF Return, callerVars, linkVars
<1>5. ASSUME NEW c \in Calls, Confirm(c), UNCHANGED served PROVE PendingExact'
  BY <1>5 DEF Confirm, callerVars, linkVars, SendOk, SendFails, Confirmation
<1>6. ASSUME NEW c \in Calls, Orphaned(c), UNCHANGED served PROVE PendingExact'
  BY <1>6 DEF Orphaned, callerVars, linkVars
<1>7. ASSUME NEW c \in Calls, ReturnDropped(c), UNCHANGED served PROVE PendingExact'
  BY <1>7 DEF ReturnDropped, callerVars, linkVars
<1>8. ASSUME NEW c \in Calls, TimeOut(c), UNCHANGED served PROVE PendingExact'
  BY <1>8 DEF TimeOut, callerVars, linkVars
<1>9. ASSUME NEW c \in Calls, Forget(c), UNCHANGED served PROVE PendingExact'
  BY <1>9 DEF Forget, callerVars, linkVars
<1>10. ASSUME NEW c \in Calls, ReturnTimeout(c), UNCHANGED served PROVE PendingExact'
  BY <1>10 DEF ReturnTimeout, callerVars, linkVars, SendOk, SendFails, CancelNote
<1>11. ASSUME NEW c \in Calls, CancelRequest(c), UNCHANGED served PROVE PendingExact'
  BY <1>11 DEF CancelRequest, callerVars, linkVars, Drop
<1>12. ASSUME NEW c \in Calls, CancelTell(c), UNCHANGED served PROVE PendingExact'
  BY <1>12 DEF CancelTell, callerVars, linkVars, SendOk, SendFails, CancelNote
<1>13. ASSUME NEW m \in toClient, Receive(m), UNCHANGED served PROVE PendingExact'
  BY <1>13 DEF Receive, Wake, callerVars, linkVars
<1>14. ASSUME Close, UNCHANGED served PROVE PendingExact'
  BY <1>14 DEF Close, callerVars, linkVars
<1>15. ASSUME StopReceiving, UNCHANGED served PROVE PendingExact'
  BY <1>15 DEF StopReceiving, callerVars, linkVars
<1>16. ASSUME Sweep, UNCHANGED served PROVE PendingExact'
  BY <1>16 DEF Sweep, callerVars, linkVars, InShard
<1>17. ASSUME NEW m \in toServer, PeerReads(m) PROVE PendingExact'
  BY <1>17 DEF PeerReads, callerVars, linkVars
<1>18. ASSUME NEW m \in toServer, PeerAnswers(m) PROVE PendingExact'
  BY <1>18 DEF PeerAnswers, callerVars, linkVars
<1>19. ASSUME PeerStopsTalking PROVE PendingExact'
  BY <1>19 DEF PeerStopsTalking, callerVars, linkVars
<1>20. ASSUME PeerStopsListening PROVE PendingExact'
  BY <1>20 DEF PeerStopsListening, callerVars, linkVars
<1>21. CASE UNCHANGED vars
  BY <1>21 DEF vars, clientVars, callerVars, linkVars
<1> QED
  BY <1>1, <1>2, <1>3, <1>4, <1>5, <1>6, <1>7, <1>8, <1>9, <1>10, <1>11, <1>12, <1>13, <1>14, <1>15, <1>16, <1>17, <1>18, <1>19, <1>20, <1>21
     DEF Next, ClientNext, Caller, Canceller, Receiver, Peer, Reading

\* The inductive invariant holds in every reachable state.
THEOREM InductiveInvariant == Spec => []IInv
<1>1. IInv /\ [Next]_vars => IInv'
  BY TypeStep, FitStep, PendingStep DEF IInv
<1> QED
  BY InitIInv, <1>1, PTL DEF Spec

\* client.rs: every variable of the client keeps its type.
THEOREM TypeCorrect == Spec => []TypeOK
<1>1. IInv => TypeOK
  BY DEF IInv
<1> QED
  BY InductiveInvariant, <1>1, PTL

\* client.rs: an entry of pending_requests stands for a caller that has yet to
\* hear or for a failed send, and every such caller has its entry.
THEOREM PendingAlwaysExact == Spec => []PendingExact
<1>1. IInv => PendingExact
  BY DEF IInv
<1> QED
  BY InductiveInvariant, <1>1, PTL

\* The contract's Return and Respond, as steps of its Next.
LEMMA ContractSteps ==
  ASSUME NEW c \in Calls
  PROVE  /\ \A o \in Verdicts \cup Failures : Contract!Return(c, o) => Contract!Next
         /\ \A v \in Verdicts : Contract!Respond(c, v) => Contract!Next
  BY DEF Contract!Next, Verdicts, Failures, Contract!Verdicts, Contract!Failures

LEMMA ReturnStep ==
  ASSUME IInv, NEW c \in Calls, Return(c), UNCHANGED served
  PROVE  [Contract!Next]_(Contract!rrVars)
<1> TypeOK /\ CallsFit
  BY DEF IInv
<1>1. CASE c \in Hellos /\ slot[c] = "result"
  BY <1>1 DEF Return, callerVars, linkVars, Contract!rrVars, TypeOK
<1>2. CASE ~ (c \in Hellos /\ slot[c] = "result")
  <2>1. PICK v \in Verdicts : slot[c] = v
    BY DEF Return
  <2>2. Contract!Return(c, v)
    BY <1>2, <2>1
       DEF Return, callerVars, linkVars, TypeOK, CallsFit, CallFits, Contract!Return,
           Verdicts, Contract!Verdicts
  <2> QED
    BY <2>2, ContractSteps
<1> QED
  BY <1>1, <1>2

LEMMA ConfirmStep ==
  ASSUME IInv, NEW c \in Calls, Confirm(c), UNCHANGED served
  PROVE  [Contract!Next]_(Contract!rrVars)
<1> TypeOK /\ CallsFit
  BY DEF IInv
<1>1. Contract!Return(c, "result") \/ Contract!Return(c, "unsent")
  BY DEF Confirm, SendOk, SendFails, callerVars, linkVars, TypeOK, CallsFit, CallFits,
         Contract!Return, Verdicts, Contract!Verdicts, Contract!Failures
<1> QED
  BY <1>1, ContractSteps DEF Verdicts, Failures

LEMMA AnswerStep ==
  ASSUME IInv, NEW m \in toServer, PeerAnswers(m)
  PROVE  [Contract!Next]_(Contract!rrVars)
<1> TypeOK /\ CallsFit
  BY DEF IInv
<1>1. PICK v \in Verdicts : served' = [served EXCEPT ![m.call] = v]
  BY DEF PeerAnswers
<1>2. m.call \in Calls
  BY DEF TypeOK, Message
<1>3. Contract!Respond(m.call, v)
  BY <1>1, <1>2
     DEF PeerAnswers, callerVars, linkVars, TypeOK, CallsFit, Contract!Respond
<1> QED
  BY <1>2, <1>3, ContractSteps

\* Each action is a step of the contract, or changes nothing of it.
LEMMA ContractStep == IInv /\ [Next]_vars => [Contract!Next]_(Contract!rrVars)
<1> SUFFICES ASSUME IInv, [Next]_vars PROVE [Contract!Next]_(Contract!rrVars)
  OBVIOUS
<1> TypeOK /\ CallsFit /\ PendingExact
  BY DEF IInv
<1> USE DEF TypeOK, CallsFit, CallFits, Response, Verdicts, Failures,
        Contract!Next, Contract!rrVars,
        Contract!Issue, Contract!Return, Contract!Failures
<1>1. ASSUME NEW c \in Calls, Register(c), UNCHANGED served PROVE [Contract!Next]_(Contract!rrVars)
  BY <1>1 DEF Register, callerVars, linkVars
<1>2. ASSUME NEW c \in Calls, Send(c), UNCHANGED served PROVE [Contract!Next]_(Contract!rrVars)
  BY <1>2 DEF Send, callerVars, linkVars, SendOk, Request
<1>3. ASSUME NEW c \in Calls, SendFailed(c), UNCHANGED served PROVE [Contract!Next]_(Contract!rrVars)
  BY <1>3 DEF SendFailed, callerVars, linkVars, SendFails
<1>4. ASSUME NEW c \in Calls, Return(c), UNCHANGED served PROVE [Contract!Next]_(Contract!rrVars)
  BY <1>4, ReturnStep
<1>5. ASSUME NEW c \in Calls, Confirm(c), UNCHANGED served PROVE [Contract!Next]_(Contract!rrVars)
  BY <1>5, ConfirmStep
<1>6. ASSUME NEW c \in Calls, Orphaned(c), UNCHANGED served PROVE [Contract!Next]_(Contract!rrVars)
  BY <1>6 DEF Orphaned, callerVars, linkVars
<1>7. ASSUME NEW c \in Calls, ReturnDropped(c), UNCHANGED served PROVE [Contract!Next]_(Contract!rrVars)
  BY <1>7 DEF ReturnDropped, callerVars, linkVars
<1>8. ASSUME NEW c \in Calls, TimeOut(c), UNCHANGED served PROVE [Contract!Next]_(Contract!rrVars)
  BY <1>8 DEF TimeOut, callerVars, linkVars
<1>9. ASSUME NEW c \in Calls, Forget(c), UNCHANGED served PROVE [Contract!Next]_(Contract!rrVars)
  BY <1>9 DEF Forget, callerVars, linkVars
<1>10. ASSUME NEW c \in Calls, ReturnTimeout(c), UNCHANGED served PROVE [Contract!Next]_(Contract!rrVars)
  BY <1>10 DEF ReturnTimeout, callerVars, linkVars, SendOk, SendFails, CancelNote
<1>11. ASSUME NEW c \in Calls, CancelRequest(c), UNCHANGED served PROVE [Contract!Next]_(Contract!rrVars)
  BY <1>11 DEF CancelRequest, callerVars, linkVars, Drop
<1>12. ASSUME NEW c \in Calls, CancelTell(c), UNCHANGED served PROVE [Contract!Next]_(Contract!rrVars)
  BY <1>12 DEF CancelTell, callerVars, linkVars, SendOk, SendFails, CancelNote
<1>13. ASSUME NEW m \in toClient, Receive(m), UNCHANGED served PROVE [Contract!Next]_(Contract!rrVars)
  BY <1>13 DEF Receive, Wake, callerVars, linkVars
<1>14. ASSUME Close, UNCHANGED served PROVE [Contract!Next]_(Contract!rrVars)
  BY <1>14 DEF Close, callerVars, linkVars
<1>15. ASSUME StopReceiving, UNCHANGED served PROVE [Contract!Next]_(Contract!rrVars)
  BY <1>15 DEF StopReceiving, callerVars, linkVars
<1>16. ASSUME Sweep, UNCHANGED served PROVE [Contract!Next]_(Contract!rrVars)
  BY <1>16 DEF Sweep, callerVars, linkVars, InShard
<1>17. ASSUME NEW m \in toServer, PeerReads(m) PROVE [Contract!Next]_(Contract!rrVars)
  BY <1>17 DEF PeerReads, callerVars, linkVars
<1>18. ASSUME NEW m \in toServer, PeerAnswers(m) PROVE [Contract!Next]_(Contract!rrVars)
  BY <1>18, AnswerStep
<1>19. ASSUME PeerStopsTalking PROVE [Contract!Next]_(Contract!rrVars)
  BY <1>19 DEF PeerStopsTalking, callerVars, linkVars
<1>20. ASSUME PeerStopsListening PROVE [Contract!Next]_(Contract!rrVars)
  BY <1>20 DEF PeerStopsListening, callerVars, linkVars
<1>21. CASE UNCHANGED vars
  BY <1>21 DEF vars, clientVars, callerVars, linkVars
<1> QED
  BY <1>1, <1>2, <1>3, <1>4, <1>5, <1>6, <1>7, <1>8, <1>9, <1>10, <1>11, <1>12, <1>13, <1>14, <1>15, <1>16, <1>17, <1>18, <1>19, <1>20, <1>21
     DEF Next, ClientNext, Caller, Canceller, Receiver, Peer, Reading

\* client.rs: a request returns once, with the verdict the peer gave on it or
\* with a failure, and with "dropped" only if it was cancelled.
THEOREM RefinesRequestReply == Spec => StepsOfRequestReply
<1>1. Init => Contract!Init
  BY DEF Init, Contract!Init
<1> QED
  BY InductiveInvariant, ContractStep, <1>1, PTL DEF Spec, StepsOfRequestReply

\* The map of pending requests is exact, in every well-typed state.
THEOREM PendingAlwaysConsistent == Spec => []PendingConsistent
<1>1. IInv => PendingConsistent
  BY DEF IInv, PendingConsistent
<1> QED BY <1>1, InductiveInvariant, PTL
=============================================================================
