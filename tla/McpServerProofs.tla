------------------------- MODULE McpServerProofs -------------------------
(***************************************************************************)
(* Theorems about McpServer, for every set of requests, sessions and ids.  *)
(***************************************************************************)
EXTENDS McpServer, TLAPS

\* The inductive invariant.
IInv == TypeOK /\ AllFit /\ ActiveExact /\ OwnToken /\ GreetedNeverRefused

LEMMA InitIInv == Init => IInv
<1> SUFFICES ASSUME Init PROVE IInv
  OBVIOUS
<1> USE ServerAssumption DEF Init
<1>1. TypeOK
  BY DEF TypeOK, Message
<1>2. WireFits /\ EntriesFit
  BY DEF WireFits, EntriesFit
<1>3. \A c \in Calls : CallFits(c)
  BY DEF CallFits, TokenCancelled, Results
<1>4. ActiveExact
  BY DEF ActiveExact, CanCancel, Ids
<1>5. OwnToken /\ GreetedNeverRefused
  BY DEF OwnToken, GreetedNeverRefused
<1> QED
  BY <1>1, <1>2, <1>3, <1>4, <1>5 DEF IInv, AllFit

\* Each action keeps the types.
LEMMA TypeStep == IInv /\ [Next]_vars => TypeOK'
<1> SUFFICES ASSUME IInv, [Next]_vars PROVE TypeOK'
  OBVIOUS
<1> TypeOK
  BY DEF IInv
<1> USE ServerAssumption DEF TypeOK, Message, Response, Errors, Results, Methods, Ids, Request, CancelNote, Confirmation
<1>1. ASSUME NEW m \in toServer, ReceiveRequest(m), UNCHANGED peerVars PROVE TypeOK'
  BY <1>1 DEF ReceiveRequest, serverVars, peerVars
<1>2. ASSUME NEW m \in toServer, ReceiveNote(m), UNCHANGED peerVars PROVE TypeOK'
  BY <1>2 DEF ReceiveNote, serverVars, peerVars
<1>3. ASSUME NEW c \in Calls, Refuse(c), UNCHANGED peerVars PROVE TypeOK'
  BY <1>3 DEF Refuse, Refused, Answer, serverVars, peerVars
<1>4. ASSUME NEW c \in Calls, Invalid(c), UNCHANGED peerVars PROVE TypeOK'
  BY <1>4 DEF Invalid, Refused, Answer, serverVars, peerVars
<1>5. ASSUME NEW c \in Calls, HandleInitialize(c), UNCHANGED peerVars PROVE TypeOK'
  BY <1>5 DEF HandleInitialize, Answer, serverVars, peerVars
<1>6. ASSUME NEW c \in Calls, HandleList(c), UNCHANGED peerVars PROVE TypeOK'
  BY <1>6 DEF HandleList, Refused, Answer, serverVars, peerVars
<1>7. ASSUME NEW c \in Calls, StartCall(c), UNCHANGED peerVars PROVE TypeOK'
  BY <1>7 DEF StartCall, Refused, serverVars, peerVars
<1>8. ASSUME NEW c \in Calls, EndCall(c), UNCHANGED peerVars PROVE TypeOK'
  BY <1>8 DEF EndCall, TokenCancelled, serverVars, peerVars
<1>9. ASSUME NEW c \in Calls, Panic(c), UNCHANGED peerVars PROVE TypeOK'
  BY <1>9 DEF Panic, serverVars, peerVars
<1>10. ASSUME NEW c \in Calls, FileAway(c), UNCHANGED peerVars PROVE TypeOK'
  BY <1>10 DEF FileAway, serverVars, peerVars
<1>11. ASSUME NEW c \in Calls, Reply(c), UNCHANGED peerVars PROVE TypeOK'
  BY <1>11 DEF Reply, serverVars, peerVars
<1>12. ASSUME NEW m \in spawned, NoteInitialized(m), UNCHANGED peerVars PROVE TypeOK'
  BY <1>12 DEF NoteInitialized, serverVars, peerVars
<1>13. ASSUME NEW m \in spawned, NoteCancelled(m), UNCHANGED peerVars PROVE TypeOK'
  BY <1>13 DEF NoteCancelled, serverVars, peerVars
<1>14. ASSUME Shutdown, UNCHANGED peerVars PROVE TypeOK'
  BY <1>14 DEF Shutdown, serverVars, peerVars
<1>15. ASSUME NEW c \in Calls, MakeRequest(c) PROVE TypeOK'
  <2>1. Request(c) \in Message
    OBVIOUS
  <2>2. greeted' \subseteq greeted \cup {c}
    BY <1>15 DEF MakeRequest
  <2>3. sent' = sent \cup {c} /\ toServer' = toServer \cup {Request(c)}
    BY <1>15 DEF MakeRequest, Send
  <2> QED
    BY <1>15, <2>1, <2>2, <2>3 DEF MakeRequest, serverVars
<1>16. ASSUME NEW c \in Calls, AskCancel(c) PROVE TypeOK'
  BY <1>16 DEF AskCancel, Send, serverVars, peerVars
<1>17. ASSUME NEW c \in Calls, Confirm(c) PROVE TypeOK'
  BY <1>17 DEF Confirm, Send, serverVars, peerVars
<1>18. CASE UNCHANGED vars
  BY <1>18 DEF vars, serverVars, peerVars
<1> QED
  BY <1>1, <1>2, <1>3, <1>4, <1>5, <1>6, <1>7, <1>8, <1>9, <1>10, <1>11, <1>12,
     <1>13, <1>14, <1>15, <1>16, <1>17, <1>18
     DEF Next, ServerNext, Serve, Handle, HandleNote, Clients

\* Each action keeps the messages in step with the tasks.
LEMMA WireStep == IInv /\ [Next]_vars => WireFits'
<1> SUFFICES ASSUME IInv, [Next]_vars PROVE WireFits'
  OBVIOUS
<1> TypeOK /\ WireFits /\ (\A c \in Calls : CallFits(c))
  BY DEF IInv, AllFit
<1> USE ServerAssumption DEF TypeOK, WireFits, CallFits, Message, Response, Errors, Results,
        Methods, Request, CancelNote, Confirmation
<1>1. ASSUME NEW m \in toServer, ReceiveRequest(m), UNCHANGED peerVars PROVE WireFits'
  BY <1>1 DEF ReceiveRequest, serverVars, peerVars
<1>2. ASSUME NEW m \in toServer, ReceiveNote(m), UNCHANGED peerVars PROVE WireFits'
  BY <1>2 DEF ReceiveNote, serverVars, peerVars
<1>3. ASSUME NEW c \in Calls, Refuse(c), UNCHANGED peerVars PROVE WireFits'
  BY <1>3 DEF Refuse, Refused, Answer, serverVars, peerVars
<1>4. ASSUME NEW c \in Calls, Invalid(c), UNCHANGED peerVars PROVE WireFits'
  BY <1>4 DEF Invalid, Refused, Answer, serverVars, peerVars
<1>5. ASSUME NEW c \in Calls, HandleInitialize(c), UNCHANGED peerVars PROVE WireFits'
  BY <1>5 DEF HandleInitialize, Answer, serverVars, peerVars
<1>6. ASSUME NEW c \in Calls, HandleList(c), UNCHANGED peerVars PROVE WireFits'
  BY <1>6 DEF HandleList, Refused, Answer, serverVars, peerVars
<1>7. ASSUME NEW c \in Calls, StartCall(c), UNCHANGED peerVars PROVE WireFits'
  BY <1>7 DEF StartCall, Refused, serverVars, peerVars
<1>8. ASSUME NEW c \in Calls, EndCall(c), UNCHANGED peerVars PROVE WireFits'
  BY <1>8 DEF EndCall, TokenCancelled, serverVars, peerVars
<1>9. ASSUME NEW c \in Calls, Panic(c), UNCHANGED peerVars PROVE WireFits'
  BY <1>9 DEF Panic, serverVars, peerVars
<1>10. ASSUME NEW c \in Calls, FileAway(c), UNCHANGED peerVars PROVE WireFits'
  BY <1>10 DEF FileAway, serverVars, peerVars
<1>11. ASSUME NEW c \in Calls, Reply(c), UNCHANGED peerVars PROVE WireFits'
  BY <1>11 DEF Reply, serverVars, peerVars
<1>12. ASSUME NEW m \in spawned, NoteInitialized(m), UNCHANGED peerVars PROVE WireFits'
  BY <1>12 DEF NoteInitialized, serverVars, peerVars
<1>13. ASSUME NEW m \in spawned, NoteCancelled(m), UNCHANGED peerVars PROVE WireFits'
  BY <1>13 DEF NoteCancelled, serverVars, peerVars
<1>14. ASSUME Shutdown, UNCHANGED peerVars PROVE WireFits'
  BY <1>14 DEF Shutdown, serverVars, peerVars
<1>15. ASSUME NEW c \in Calls, MakeRequest(c) PROVE WireFits'
  BY <1>15 DEF MakeRequest, Send, HandshakeDone, serverVars, peerVars
<1>16. ASSUME NEW c \in Calls, AskCancel(c) PROVE WireFits'
  BY <1>16 DEF AskCancel, Send, serverVars, peerVars
<1>17. ASSUME NEW c \in Calls, Confirm(c) PROVE WireFits'
  BY <1>17 DEF Confirm, Send, serverVars, peerVars
<1>18. CASE UNCHANGED vars
  BY <1>18 DEF vars, serverVars, peerVars
<1> QED
  BY <1>1, <1>2, <1>3, <1>4, <1>5, <1>6, <1>7, <1>8, <1>9, <1>10, <1>11, <1>12,
     <1>13, <1>14, <1>15, <1>16, <1>17, <1>18
     DEF Next, ServerNext, Serve, Handle, HandleNote, Clients

\* Once a handshake is answered the server has left its first state.
LEMMA HandshakeMoved ==
  ASSUME WireFits, \A c \in Calls : CallFits(c), NEW s, HandshakeDone(s)
  PROVE  state # "Uninitialized"
<1>1. PICK h \in Calls : /\ Method[h] = "initialize"
                         /\ [call |-> h, verdict |-> "result"] \in toClient
  BY DEF HandshakeDone
<1>2. verdict[h] \in Results
  BY <1>1 DEF WireFits
<1> QED
  BY <1>1, <1>2 DEF CallFits

\* Each action keeps every request in step with its task.
LEMMA CallStep == IInv /\ [Next]_vars => (\A d \in Calls : CallFits(d))'
<1> SUFFICES ASSUME IInv, [Next]_vars PROVE (\A d \in Calls : CallFits(d))'
  OBVIOUS
<1> TypeOK /\ WireFits /\ EntriesFit /\ (\A c \in Calls : CallFits(c))
  BY DEF IInv, AllFit
<1> USE ServerAssumption DEF TypeOK, WireFits, EntriesFit, CallFits, TokenCancelled, Message,
        Response, Errors, Results, Methods, Ids
<1>1. ASSUME NEW m \in toServer, ReceiveRequest(m), UNCHANGED peerVars PROVE (\A d \in Calls : CallFits(d))'
  BY <1>1 DEF ReceiveRequest, serverVars, peerVars
<1>2. ASSUME NEW m \in toServer, ReceiveNote(m), UNCHANGED peerVars PROVE (\A d \in Calls : CallFits(d))'
  BY <1>2 DEF ReceiveNote, serverVars, peerVars
<1>3. ASSUME NEW c \in Calls, Refuse(c), UNCHANGED peerVars PROVE (\A d \in Calls : CallFits(d))'
  BY <1>3 DEF Refuse, Refused, Answer, serverVars, peerVars
<1>4. ASSUME NEW c \in Calls, Invalid(c), UNCHANGED peerVars PROVE (\A d \in Calls : CallFits(d))'
  BY <1>4 DEF Invalid, Refused, Answer, serverVars, peerVars
<1>5. ASSUME NEW c \in Calls, HandleInitialize(c), UNCHANGED peerVars PROVE (\A d \in Calls : CallFits(d))'
  BY <1>5 DEF HandleInitialize, Answer, serverVars, peerVars
<1>6. ASSUME NEW c \in Calls, HandleList(c), UNCHANGED peerVars PROVE (\A d \in Calls : CallFits(d))'
  BY <1>6 DEF HandleList, Refused, Answer, serverVars, peerVars
<1>7. ASSUME NEW c \in Calls, StartCall(c), UNCHANGED peerVars PROVE (\A d \in Calls : CallFits(d))'
  BY <1>7 DEF StartCall, Refused, serverVars, peerVars
<1>8. ASSUME NEW c \in Calls, EndCall(c), UNCHANGED peerVars PROVE (\A d \in Calls : CallFits(d))'
  BY <1>8 DEF EndCall, TokenCancelled, serverVars, peerVars
<1>9. ASSUME NEW c \in Calls, Panic(c), UNCHANGED peerVars PROVE (\A d \in Calls : CallFits(d))'
  BY <1>9 DEF Panic, serverVars, peerVars
<1>10. ASSUME NEW c \in Calls, FileAway(c), UNCHANGED peerVars PROVE (\A d \in Calls : CallFits(d))'
  BY <1>10 DEF FileAway, serverVars, peerVars
<1>11. ASSUME NEW c \in Calls, Reply(c), UNCHANGED peerVars PROVE (\A d \in Calls : CallFits(d))'
  BY <1>11 DEF Reply, serverVars, peerVars
<1>12. ASSUME NEW m \in spawned, NoteInitialized(m), UNCHANGED peerVars PROVE (\A d \in Calls : CallFits(d))'
  BY <1>12 DEF NoteInitialized, serverVars, peerVars
<1>13. ASSUME NEW m \in spawned, NoteCancelled(m), UNCHANGED peerVars PROVE (\A d \in Calls : CallFits(d))'
  <2>1. \A d \in token' : task[d] \notin {"none", "spawned"}
    BY <1>13 DEF NoteCancelled
  <2>2. token \subseteq token' /\ UNCHANGED <<task, verdict, state, root, greeted, sent>>
    BY <1>13 DEF NoteCancelled, peerVars
  <2> QED
    BY <2>1, <2>2
<1>14. ASSUME Shutdown, UNCHANGED peerVars PROVE (\A d \in Calls : CallFits(d))'
  BY <1>14 DEF Shutdown, serverVars, peerVars
<1>15. ASSUME NEW c \in Calls, MakeRequest(c) PROVE (\A d \in Calls : CallFits(d))'
  <2>1. greeted' \subseteq greeted \cup {c} /\ (greeted' # greeted => state # "Uninitialized")
    BY <1>15, HandshakeMoved DEF MakeRequest
  <2>2. sent \subseteq sent' /\ UNCHANGED <<task, verdict, state, root, token>>
    BY <1>15 DEF MakeRequest, serverVars
  <2> QED
    BY <2>1, <2>2
<1>16. ASSUME NEW c \in Calls, AskCancel(c) PROVE (\A d \in Calls : CallFits(d))'
  BY <1>16 DEF AskCancel, Send, serverVars, peerVars
<1>17. ASSUME NEW c \in Calls, Confirm(c) PROVE (\A d \in Calls : CallFits(d))'
  BY <1>17 DEF Confirm, Send, serverVars, peerVars
<1>18. CASE UNCHANGED vars
  BY <1>18 DEF vars, serverVars, peerVars
<1> QED
  BY <1>1, <1>2, <1>3, <1>4, <1>5, <1>6, <1>7, <1>8, <1>9, <1>10, <1>11, <1>12,
     <1>13, <1>14, <1>15, <1>16, <1>17, <1>18
     DEF Next, ServerNext, Serve, Handle, HandleNote, Clients

\* Each action keeps every entry with its call.
LEMMA EntryStep == IInv /\ [Next]_vars => EntriesFit'
<1> SUFFICES ASSUME IInv, [Next]_vars PROVE EntriesFit'
  OBVIOUS
<1> TypeOK /\ EntriesFit
  BY DEF IInv, AllFit
<1> USE ServerAssumption DEF TypeOK, EntriesFit, Ids
<1> WireFits
  BY DEF IInv, AllFit
<1> USE DEF WireFits
<1>1. ASSUME NEW m \in toServer, ReceiveRequest(m), UNCHANGED peerVars PROVE EntriesFit'
  BY <1>1 DEF ReceiveRequest
<1>2. ASSUME NEW c \in Calls, Refuse(c), UNCHANGED peerVars PROVE EntriesFit'
  BY <1>2 DEF Refuse, Answer
<1>3. ASSUME NEW c \in Calls, Invalid(c), UNCHANGED peerVars PROVE EntriesFit'
  BY <1>3 DEF Invalid, Answer
<1>4. ASSUME NEW c \in Calls, HandleInitialize(c), UNCHANGED peerVars PROVE EntriesFit'
  BY <1>4 DEF HandleInitialize, Answer
<1>5. ASSUME NEW c \in Calls, HandleList(c), UNCHANGED peerVars PROVE EntriesFit'
  BY <1>5 DEF HandleList, Answer
<1>6. ASSUME NEW c \in Calls, StartCall(c), UNCHANGED peerVars PROVE EntriesFit'
  BY <1>6 DEF StartCall
<1>7. ASSUME NEW c \in Calls, EndCall(c), UNCHANGED peerVars PROVE EntriesFit'
  BY <1>7 DEF EndCall
<1>8. ASSUME NEW c \in Calls, Panic(c), UNCHANGED peerVars PROVE EntriesFit'
  BY <1>8 DEF Panic
<1>9. ASSUME NEW c \in Calls, FileAway(c), UNCHANGED peerVars PROVE EntriesFit'
  BY <1>9 DEF FileAway
<1>10. ASSUME NEW c \in Calls, Reply(c), UNCHANGED peerVars PROVE EntriesFit'
  BY <1>10 DEF Reply
<1>11. ASSUME NEW m \in spawned, NoteCancelled(m), UNCHANGED peerVars PROVE EntriesFit'
  BY <1>11 DEF NoteCancelled
<1>12. CASE UNCHANGED <<active, task>>
  BY <1>12
<1> QED
  BY <1>1, <1>2, <1>3, <1>4, <1>5, <1>6, <1>7, <1>8, <1>9, <1>10, <1>11, <1>12
     DEF Next, vars, serverVars, peerVars, ServerNext, Serve, Handle, HandleNote, Clients,
     Answer, ReceiveNote, NoteInitialized, Shutdown, MakeRequest, AskCancel, Confirm

\* Each action keeps the map exact.
LEMMA ActiveStep == IInv /\ [Next]_vars => ActiveExact'
<1> SUFFICES ASSUME IInv, [Next]_vars PROVE ActiveExact'
  OBVIOUS
<1> TypeOK /\ WireFits /\ EntriesFit /\ (\A c \in Calls : CallFits(c)) /\ ActiveExact
  BY DEF IInv, AllFit
<1> USE ServerAssumption DEF TypeOK, WireFits, EntriesFit, CallFits, Message, ActiveExact, CanCancel, Contested, Ids
<1>1. ASSUME NEW m \in toServer, ReceiveRequest(m), UNCHANGED peerVars PROVE ActiveExact'
  BY <1>1 DEF ReceiveRequest
<1>2. ASSUME NEW c \in Calls, Refuse(c), UNCHANGED peerVars PROVE ActiveExact'
  BY <1>2 DEF Refuse, Answer
<1>3. ASSUME NEW c \in Calls, Invalid(c), UNCHANGED peerVars PROVE ActiveExact'
  BY <1>3 DEF Invalid, Answer
<1>4. ASSUME NEW c \in Calls, HandleInitialize(c), UNCHANGED peerVars PROVE ActiveExact'
  BY <1>4 DEF HandleInitialize, Answer
<1>5. ASSUME NEW c \in Calls, HandleList(c), UNCHANGED peerVars PROVE ActiveExact'
  BY <1>5 DEF HandleList, Answer
<1>6. ASSUME NEW c \in Calls, StartCall(c), UNCHANGED peerVars PROVE ActiveExact'
  BY <1>6 DEF StartCall
<1>7. ASSUME NEW c \in Calls, EndCall(c), UNCHANGED peerVars PROVE ActiveExact'
  BY <1>7 DEF EndCall
<1>8. ASSUME NEW c \in Calls, Panic(c), UNCHANGED peerVars PROVE ActiveExact'
  BY <1>8 DEF Panic
<1>9. ASSUME NEW c \in Calls, FileAway(c), UNCHANGED peerVars PROVE ActiveExact'
  BY <1>9 DEF FileAway
<1>10. ASSUME NEW c \in Calls, Reply(c), UNCHANGED peerVars PROVE ActiveExact'
  BY <1>10 DEF Reply
<1>11. ASSUME NEW m \in spawned, NoteCancelled(m), UNCHANGED peerVars PROVE ActiveExact'
  <2>1. m.call \in Calls /\ UNCHANGED task
    BY <1>11 DEF NoteCancelled
  <2> DEFINE i == Id[m.call]
  <2>2. active' = [active EXCEPT ![i] = NoCall]
        /\ token' = IF active[i] = NoCall THEN token ELSE token \cup {active[i]}
    BY <1>11 DEF NoteCancelled
  <2> SUFFICES ASSUME NEW d \in Calls
               PROVE  /\ active'[Id[d]] = d => CanCancel(d)'
                      /\ CanCancel(d)' => active'[Id[d]] = d \/ Contested(d)'
    BY <2>1
  <2>3. CASE active[Id[d]] = d /\ Id[d] = i
    BY <2>1, <2>2, <2>3
  <2>4. CASE active[Id[d]] = d /\ Id[d] # i
    <3>1. active'[Id[d]] = d /\ (d \in token' <=> d \in token)
      BY <2>1, <2>2, <2>4
    <3> QED BY <2>1, <2>4, <3>1
  <2>5. CASE active[Id[d]] # d
    <3>1. active'[Id[d]] # d /\ token \subseteq token'
      BY <2>1, <2>2, <2>5
    <3> QED BY <2>1, <2>5, <3>1
  <2> QED
    BY <2>3, <2>4, <2>5
<1>12. CASE UNCHANGED <<active, task, token>>
  BY <1>12
<1> QED
  BY <1>1, <1>2, <1>3, <1>4, <1>5, <1>6, <1>7, <1>8, <1>9, <1>10, <1>11, <1>12
     DEF Next, vars, serverVars, peerVars, ServerNext, Serve, Handle, HandleNote, Clients,
     Answer, ReceiveNote, NoteInitialized, Shutdown, MakeRequest, AskCancel, Confirm

\* Each action cancels only what was asked for.
LEMMA TokenStep == IInv /\ [Next]_vars => OwnToken'
<1> SUFFICES ASSUME IInv, [Next]_vars PROVE OwnToken'
  OBVIOUS
<1> TypeOK /\ WireFits /\ EntriesFit /\ OwnToken
  BY DEF IInv, AllFit
<1> USE DEF OwnToken, AskedFor
<1>1. ASSUME NEW m \in spawned, NoteCancelled(m), UNCHANGED peerVars PROVE OwnToken'
  <2>1. m.call \in asked /\ m.call \in Calls /\ Id[m.call] \in Ids
    BY <1>1 DEF NoteCancelled, WireFits, TypeOK, Message, Ids
  <2> DEFINE a == active[Id[m.call]]
  <2>2. a # NoCall => a \in Calls /\ Id[a] = Id[m.call]
    BY <2>1 DEF EntriesFit, TypeOK
  <2>3. a # NoCall => AskedFor(a)
    BY <2>1, <2>2, ServerAssumption DEF AskedFor, ServerAssumption
  <2> QED
    BY <1>1, <2>3 DEF NoteCancelled, AskedFor, peerVars
<1>2. ASSUME NEW c \in Calls, AskCancel(c) PROVE OwnToken'
  BY <1>2 DEF AskCancel, serverVars
<1>3. CASE UNCHANGED <<token, asked>>
  BY <1>3
<1> QED
  BY <1>1, <1>2, <1>3
     DEF Next, vars, serverVars, peerVars, ServerNext, Serve, Handle, HandleNote, Clients,
     Answer, ReceiveRequest, ReceiveNote, Refuse, Invalid, HandleInitialize, HandleList,
     StartCall, EndCall, Panic, FileAway, Reply, NoteInitialized, Shutdown, MakeRequest,
     Confirm

\* No action refuses a request made after a handshake.
LEMMA GreetedStep == IInv /\ [Next]_vars => GreetedNeverRefused'
<1> SUFFICES ASSUME IInv, [Next]_vars PROVE GreetedNeverRefused'
  OBVIOUS
<1> TypeOK /\ (\A c \in Calls : CallFits(c)) /\ GreetedNeverRefused
  BY DEF IInv, AllFit
<1> USE DEF TypeOK, CallFits, GreetedNeverRefused, Results, Errors
<1>1. ASSUME NEW c \in Calls, Refuse(c), UNCHANGED peerVars PROVE GreetedNeverRefused'
  BY <1>1 DEF Refuse, Refused, Answer, peerVars
<1>2. ASSUME NEW c \in Calls, Invalid(c), UNCHANGED peerVars PROVE GreetedNeverRefused'
  BY <1>2 DEF Invalid, Answer, peerVars
<1>3. ASSUME NEW c \in Calls, HandleInitialize(c), UNCHANGED peerVars PROVE GreetedNeverRefused'
  BY <1>3 DEF HandleInitialize, Answer, peerVars
<1>4. ASSUME NEW c \in Calls, HandleList(c), UNCHANGED peerVars PROVE GreetedNeverRefused'
  BY <1>4 DEF HandleList, Answer, peerVars
<1>5. ASSUME NEW c \in Calls, EndCall(c), UNCHANGED peerVars PROVE GreetedNeverRefused'
  BY <1>5 DEF EndCall, peerVars
<1>6. ASSUME NEW c \in Calls, MakeRequest(c) PROVE GreetedNeverRefused'
  <2>1. verdict[c] = "none"
    BY <1>6 DEF MakeRequest
  <2>2. greeted' \subseteq greeted \cup {c} /\ verdict' = verdict
    BY <1>6 DEF MakeRequest, serverVars
  <2> QED
    BY <2>1, <2>2
<1>7. CASE UNCHANGED <<verdict, greeted>>
  BY <1>7
<1> QED
  BY <1>1, <1>2, <1>3, <1>4, <1>5, <1>6, <1>7
     DEF Next, vars, serverVars, peerVars, ServerNext, Serve, Handle, HandleNote, Clients,
     Answer, ReceiveRequest, ReceiveNote, StartCall, Panic, FileAway, Reply,
     NoteInitialized, NoteCancelled, Shutdown, AskCancel, Confirm

\* The inductive invariant holds in every reachable state.
THEOREM InductiveInvariant == Spec => []IInv
<1>1. IInv /\ [Next]_vars => IInv'
  BY TypeStep, WireStep, CallStep, EntryStep, ActiveStep, TokenStep, GreetedStep DEF IInv, AllFit
<1> QED
  BY InitIInv, <1>1, PTL DEF Spec

\* server.rs: every variable of the server keeps its type.
THEOREM TypeCorrect == Spec => []TypeOK
<1>1. IInv => TypeOK
  BY DEF IInv
<1> QED
  BY InductiveInvariant, <1>1, PTL

\* server.rs: a client that sends a request after its initialize was answered
\* is never told that the server is not initialized.
THEOREM HandshakeHolds == Spec => []GreetedNeverRefused
<1>1. IInv => GreetedNeverRefused
  BY DEF IInv
<1> QED
  BY InductiveInvariant, <1>1, PTL

\* server.rs: a call that active_requests holds can be cancelled, and a running
\* call is in it unless another client has started one under the same id.
THEOREM MapExact == Spec => []ActiveExact
<1>1. IInv => ActiveExact
  BY DEF IInv
<1> QED
  BY InductiveInvariant, <1>1, PTL

\* server.rs: a call ends as cancelled only on account of a shutdown, of its own
\* client, or of a client of another session that uses the same id.
THEOREM CancelledOnlyByItsId == Spec => []CancelledByItsId
<1>1. IInv => CancelledByItsId
  BY DEF IInv, AllFit, CallFits, OwnToken, CancelledByItsId, TokenCancelled
<1> QED
  BY InductiveInvariant, <1>1, PTL

\* The map of active requests is exact, in every well-typed state.
THEOREM ActiveAlwaysConsistent == Spec => []ActiveConsistent
<1>1. IInv => ActiveConsistent
  BY DEF IInv, ActiveConsistent
<1> QED BY <1>1, InductiveInvariant, PTL
=============================================================================
