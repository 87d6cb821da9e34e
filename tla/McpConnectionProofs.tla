------------------------- MODULE McpConnectionProofs -------------------------
(***************************************************************************)
(* Theorems about a client and a server on one connection, for every set of *)
(* requests.  They are composed from what McpClientProofs and               *)
(* McpServerProofs show of each side: a step of one side is a step of its   *)
(* own specification, and leaves what the other side relies on.            *)
(***************************************************************************)
EXTENDS McpConnection, TLAPS

Made == {c \in Calls : call[c] # "idle"}

(* The client may at any time ask to cancel what it has made, and confirm.   *)
ServerSide == INSTANCE McpServerProofs WITH
  Session <- [c \in Calls |-> "session"], Id <- [c \in Calls |-> c],
  Panicking <- {}, MayShutdown <- FALSE, sent <- Made,
  asked <- Made, confirmed <- Calls

ClientSide == INSTANCE McpClientProofs WITH MayDisconnect <- FALSE

(* The server knows of no request before it is sent, and a result that an     *)
(* initialize() returned is one the server gave.                            *)
Linked ==
  /\ \A c \in Calls :
       /\ call[c] \in {"idle", "sending"} => task[c] = "none"
       /\ cancel[c] # "none" => call[c] # "idle"
       /\ outcome[c] = "result" => served[c] = "result"
  /\ writable

IInv == ServerSide!IInv /\ ClientSide!IInv /\ Linked

-----------------------------------------------------------------------------
LEMMA ServerSideAssumption == ServerSide!ServerAssumption
BY ConnectionAssumption DEF ServerSide!ServerAssumption, ServerSide!Methods

LEMMA ClientSideAssumption == ClientSide!ClientAssumption
BY ConnectionAssumption DEF ClientSide!ClientAssumption, Hellos

(* What either side proves of its own steps.                                *)
LEMMA ServerSideStep ==
  ServerSide!IInv /\ [ServerSide!Next]_(ServerSide!vars) => ServerSide!IInv'
<1> USE ServerSideAssumption DEF ServerSide!ServerAssumption
<1> SUFFICES ASSUME ServerSide!IInv, [ServerSide!Next]_(ServerSide!vars) PROVE ServerSide!IInv'
  OBVIOUS
<1>1. ServerSide!TypeOK'
  BY ServerSide!TypeStep
<1>2. ServerSide!WireFits'
  BY ServerSide!WireStep
<1>3. (\A c \in Calls : ServerSide!CallFits(c))'
  BY ServerSide!CallStep
<1>4. ServerSide!EntriesFit'
  BY ServerSide!EntryStep
<1>5. ServerSide!ActiveExact'
  BY ServerSide!ActiveStep
<1>6. ServerSide!OwnToken'
  BY ServerSide!TokenStep
<1>7. ServerSide!GreetedNeverRefused'
  BY ServerSide!GreetedStep
<1> QED BY <1>1, <1>2, <1>3, <1>4, <1>5, <1>6, <1>7 DEF ServerSide!IInv, ServerSide!AllFit

LEMMA ClientSideStep ==
  ClientSide!IInv /\ [ClientSide!Next]_(ClientSide!vars) => ClientSide!IInv'
<1> USE ClientSideAssumption DEF ClientSide!ClientAssumption
<1> SUFFICES ASSUME ClientSide!IInv, [ClientSide!Next]_(ClientSide!vars) PROVE ClientSide!IInv'
  OBVIOUS
<1>1. ClientSide!TypeOK'
  BY ClientSide!TypeStep
<1>2. ClientSide!CallsFit'
  BY ClientSide!FitStep
<1>3. ClientSide!PendingExact'
  BY ClientSide!PendingStep
<1> QED BY <1>1, <1>2, <1>3 DEF ClientSide!IInv

-----------------------------------------------------------------------------
(* The steps of a side of the connection are steps of its specification.      *)
LEMMA ServerStepIsOwn ==
  Server!ServerNext /\ OfServer => ServerSide!Next /\ ServerSide!ServerNext
BY DEF OfServer, ownVars, Made, Server!ServerNext, Server!Serve, Server!ReceiveRequest,
  Server!ReceiveNote, Server!Handle, Server!Refuse, Server!Refused, Server!Answer, Server!Invalid,
  Server!HandleInitialize, Server!HandleList, Server!StartCall, Server!EndCall,
  Server!TokenCancelled, Server!Results, Server!Panic, Server!FileAway, Server!Reply,
  Server!HandleNote, Server!NoteInitialized, Server!NoteCancelled, Server!Shutdown,
  ServerSide!Next, ServerSide!peerVars, ServerSide!ServerNext, ServerSide!Serve,
  ServerSide!ReceiveRequest,
  ServerSide!ReceiveNote, ServerSide!Handle, ServerSide!Refuse, ServerSide!Refused, ServerSide!Answer,
  ServerSide!Invalid,
  ServerSide!HandleInitialize, ServerSide!HandleList, ServerSide!StartCall, ServerSide!EndCall,
  ServerSide!TokenCancelled, ServerSide!Results, ServerSide!Panic, ServerSide!FileAway,
  ServerSide!Reply,
  ServerSide!HandleNote, ServerSide!NoteInitialized, ServerSide!NoteCancelled, ServerSide!Shutdown

LEMMA ClientStepIsOwn ==
  Client!ClientNext /\ OfClient => ClientSide!Next /\ ClientSide!ClientNext
<1>1. OfClient => UNCHANGED served
  BY DEF OfClient, serverVars, served
<1>2. Client!ClientNext => ClientSide!ClientNext
  BY DEF Client!ClientNext, Client!Register, Client!Caller, Client!Send, Client!SendOk,
  Client!SendFails, Client!SendFailed, Client!Return, Client!Confirm, Client!Orphaned,
  Client!ReturnDropped, Client!TimeOut, Client!Forget, Client!ReturnTimeout, Client!Canceller,
  Client!CancelRequest, Client!CancelTell, Client!Drop, Client!Receiver, Client!Receive,
  Client!Wake, Client!StopReceiving, Client!Sweep, Client!Close, Client!Unlocked, Client!InShard,
  Client!HasRoom, Client!Cardinality, ClientSide!Cardinality, Client!linkVars, Client!callerVars, Client!Verdicts,
  Client!Request, Client!CancelNote, Client!Confirmation,
  ClientSide!ClientNext, ClientSide!Register, ClientSide!Caller, ClientSide!Send, ClientSide!SendOk,
  ClientSide!SendFails, ClientSide!SendFailed, ClientSide!Return, ClientSide!Confirm,
  ClientSide!Orphaned,
  ClientSide!ReturnDropped, ClientSide!TimeOut, ClientSide!Forget, ClientSide!ReturnTimeout,
  ClientSide!Canceller,
  ClientSide!CancelRequest, ClientSide!CancelTell, ClientSide!Drop, ClientSide!Receiver,
  ClientSide!Receive,
  ClientSide!Wake, ClientSide!StopReceiving, ClientSide!Sweep, ClientSide!Close,
  ClientSide!Unlocked, ClientSide!InShard,
  ClientSide!HasRoom, ClientSide!linkVars, ClientSide!callerVars, ClientSide!Verdicts,
  ClientSide!Request, ClientSide!CancelNote, ClientSide!Confirmation
<1> QED BY <1>1, <1>2 DEF ClientSide!Next

-----------------------------------------------------------------------------
(* What the client sees of the server is the answer of a task that is done.   *)
LEMMA ServedValue ==
  /\ served = [c \in Calls |-> served[c]]
  /\ \A c \in Calls :
       served[c] = IF task[c] # "done" THEN "none"
                   ELSE IF verdict[c] \in {"ok", "failed", "cancelled"} THEN "result" ELSE "error"
BY DEF served, Server!Results

LEMMA ServedNext ==
  /\ served' = [c \in Calls |-> served'[c]]
  /\ \A c \in Calls :
       served'[c] = IF task'[c] # "done" THEN "none"
                    ELSE IF verdict'[c] \in {"ok", "failed", "cancelled"} THEN "result" ELSE "error"
BY DEF served, Server!Results

LEMMA ServedUnlessDone ==
  ASSUME \A d \in Calls : /\ task'[d] = "done" <=> task[d] = "done"
                          /\ task[d] = "done" => verdict'[d] = verdict[d]
  PROVE  served' = served
<1>1. ASSUME NEW c \in Calls PROVE served'[c] = served[c]
  <2>1. CASE task[c] = "done"
    BY <2>1, ServedNext, ServedValue
  <2>2. CASE task[c] # "done"
    BY <2>2, ServedNext, ServedValue
  <2> QED BY <2>1, <2>2
<1> QED BY <1>1, ServedNext, ServedValue

(* A step of the server either answers one request, or takes no more than a   *)
(* message away.  A task begins only for a request that came.               *)
Quiet ==
  /\ toServer' \subseteq toServer /\ toClient' = toClient /\ served' = served
  /\ \A c \in Calls : task[c] = "none" /\ task'[c] # "none" =>
       \E m \in toServer : m.type = "request" /\ m.call = c

Answers(c, v) ==
  /\ task[c] = "replying" /\ task' = [task EXCEPT ![c] = "done"]
  /\ v \in {"result", "error"} /\ served' = [served EXCEPT ![c] = v]
  /\ toClient' = toClient \cup {[call |-> c, verdict |-> v]} /\ toServer' = toServer

LEMMA ServerShape ==
  ASSUME ServerSide!IInv, ServerSide!ServerNext
  PROVE  Quiet \/ \E c \in Calls, v \in {"result", "error"} : Answers(c, v)
<1>1. /\ task \in [Calls -> {"none", "spawned", "running", "ending", "replying", "done", "dead"}]
      /\ \A m \in toServer : m.call \in Calls
      /\ \A m \in toServer : m.type = "request" => task[m.call] = "none"
      /\ verdict \in [Calls -> {"refused", "invalid", "ok", "failed", "cancelled", "none"}]
  BY DEF ServerSide!IInv, ServerSide!AllFit, ServerSide!TypeOK, ServerSide!WireFits,
         ServerSide!Message, ServerSide!Errors, ServerSide!Results
<1>2. ASSUME NEW m \in toServer, ServerSide!ReceiveRequest(m) PROVE Quiet
  <2>1. served' = served
    BY <1>1, <1>2, ServedUnlessDone DEF ServerSide!ReceiveRequest
  <2> QED BY <1>1, <1>2, <2>1 DEF ServerSide!ReceiveRequest, Quiet
<1>3. ASSUME NEW c \in Calls, ServerSide!Reply(c)
      PROVE  \E v \in {"result", "error"} : Answers(c, v)
  <2> DEFINE v == IF verdict[c] \in ServerSide!Results THEN "result" ELSE "error"
  <2>1. task[c] = "replying" /\ task' = [task EXCEPT ![c] = "done"] /\ v \in {"result", "error"}
    BY <1>3 DEF ServerSide!Reply
  <2>2. /\ toClient' = toClient \cup {[call |-> c, verdict |-> v]}
        /\ toServer' = toServer /\ verdict' = verdict
    BY <1>3 DEF ServerSide!Reply
  <2>3. served' = [served EXCEPT ![c] = v]
    <3>1. served'[c] = v
      BY ServedNext, <1>1, <2>1, <2>2 DEF ServerSide!Results
    <3>2. \A d \in Calls : d # c => served'[d] = served[d]
      BY ServedNext, <1>1, <2>1, <2>2, ServedValue
    <3> HIDE DEF v
    <3> QED BY <3>1, <3>2, ServedNext, ServedValue
  <2> HIDE DEF v
  <2> QED BY <2>1, <2>2, <2>3 DEF Answers
<1>4. ASSUME NEW c \in Calls, task[c] \notin {"none", "done"}, task'[c] \notin {"none", "done"},
             \A d \in Calls : d # c => task'[d] = task[d] /\ verdict'[d] = verdict[d],
             toServer' = toServer, toClient' = toClient
      PROVE  Quiet
  <2>1. served' = served
    BY <1>4, ServedUnlessDone
  <2> QED BY <1>4, <2>1 DEF Quiet
<1>5. ASSUME NEW c \in Calls, ServerSide!Handle(c) \/ ServerSide!Invalid(c) \/ ServerSide!Panic(c)
      PROVE  Quiet \/ \E v \in {"result", "error"} : Answers(c, v)
  <2>1. CASE ServerSide!Refuse(c) \/ ServerSide!Invalid(c)
    BY <2>1, <1>1, <1>4 DEF ServerSide!Refuse, ServerSide!Invalid, ServerSide!Answer
  <2>2. CASE ServerSide!HandleInitialize(c) \/ ServerSide!HandleList(c)
    BY <2>2, <1>1, <1>4 DEF ServerSide!HandleInitialize, ServerSide!HandleList, ServerSide!Answer
  <2>3. CASE ServerSide!StartCall(c)
    BY <2>3, <1>1, <1>4 DEF ServerSide!StartCall
  <2>4. CASE ServerSide!EndCall(c)
    BY <2>4, <1>1, <1>4 DEF ServerSide!EndCall
  <2>5. CASE ServerSide!FileAway(c)
    BY <2>5, <1>1, <1>4 DEF ServerSide!FileAway
  <2>6. CASE ServerSide!Panic(c)
    BY <2>6, <1>1, <1>4 DEF ServerSide!Panic
  <2> QED BY <1>3, <1>5, <2>1, <2>2, <2>3, <2>4, <2>5, <2>6 DEF ServerSide!Handle
<1>6. ASSUME UNCHANGED <<task, verdict, toClient>>, toServer' \subseteq toServer PROVE Quiet
  <2>1. served' = served
    BY <1>6, ServedUnlessDone
  <2> QED BY <1>6, <2>1 DEF Quiet
<1>7. ASSUME NEW m \in toServer, ServerSide!ReceiveNote(m) PROVE Quiet
  BY <1>6, <1>7 DEF ServerSide!ReceiveNote
<1>8. CASE ServerSide!HandleNote
  BY <1>6, <1>8 DEF ServerSide!HandleNote, ServerSide!NoteInitialized, ServerSide!NoteCancelled
<1>9. CASE ServerSide!Shutdown
  BY <1>9 DEF ServerSide!Shutdown
<1> QED BY <1>2, <1>5, <1>7, <1>8, <1>9 DEF ServerSide!ServerNext, ServerSide!Serve

(* A step of the server leaves the books of the client right: an answer goes  *)
(* to a request that was made and not answered before.                      *)
LEMMA ServerKeepsClient ==
  ASSUME IInv, ServerSide!ServerNext, OfServer
  PROVE  ClientSide!IInv' /\ Linked'
<1>1. UNCHANGED <<call, outcome, slot, pending, cancel, recv, sweep, closed, readable, writable>>
  BY DEF OfServer, ownVars
<1>2. /\ task \in [Calls -> {"none", "spawned", "running", "ending", "replying", "done", "dead"}]
      /\ \A m \in toServer : m.type = "request" => m.call \in Calls /\ task[m.call] = "none"
      /\ toClient \subseteq [call : Calls, verdict : {"result", "error"}]
  BY DEF IInv, ServerSide!IInv, ServerSide!AllFit, ServerSide!TypeOK, ServerSide!WireFits,
         ServerSide!Message, ServerSide!Response
<1>3. /\ served \in [Calls -> {"result", "error", "none"}]
      /\ \A c \in Calls : task[c] # "done" <=> served[c] = "none"
  BY ServedValue
<1>4. CASE Quiet
  <2>1. \A c \in Calls : call[c] \in {"idle", "sending"} => task'[c] = "none"
    BY <1>2, <1>4 DEF Quiet, IInv, Linked, ClientSide!IInv, ClientSide!CallsFit
  <2>2. Linked'
    BY <1>1, <1>4, <2>1 DEF Quiet, IInv, Linked
  <2>3. ClientSide!TypeOK'
    BY <1>1, <1>4 DEF Quiet, IInv, ClientSide!IInv, ClientSide!TypeOK
  <2>4. ClientSide!CallsFit'
    BY <1>1, <1>4 DEF Quiet, IInv, ClientSide!IInv, ClientSide!CallsFit, ClientSide!CallFits
  <2>5. ClientSide!PendingExact'
    BY <1>1 DEF IInv, ClientSide!IInv, ClientSide!PendingExact
  <2> QED BY <2>2, <2>3, <2>4, <2>5 DEF ClientSide!IInv
<1>5. ASSUME NEW c \in Calls, NEW v \in {"result", "error"}, Answers(c, v)
      PROVE  ClientSide!IInv' /\ Linked'
  <2>1. served[c] = "none" /\ call[c] \notin {"idle", "sending"}
    BY <1>3, <1>5 DEF Answers, IInv, Linked
  <2>2. Linked'
    BY <1>1, <1>2, <1>3, <1>5, <2>1 DEF Answers, IInv, Linked
  <2>3. ClientSide!TypeOK'
    BY <1>1, <1>3, <1>5 DEF Answers, IInv, ClientSide!IInv, ClientSide!TypeOK,
       ClientSide!Response, ClientSide!Verdicts
  <2>4. ClientSide!CallsFit'
    <3>1. \A d \in Calls : ClientSide!CallFits(d)'
      <4> TAKE d \in Calls
      <4>1. CASE d = c
        BY <4>1, <1>1, <1>3, <1>5, <2>1
        DEF Answers, IInv, ClientSide!IInv, ClientSide!CallsFit, ClientSide!CallFits, ClientSide!Verdicts
      <4>2. CASE d # c
        BY <4>2, <1>1, <1>3, <1>5
        DEF Answers, IInv, ClientSide!IInv, ClientSide!CallsFit, ClientSide!CallFits
      <4> QED BY <4>1, <4>2
    <3>2. \A m \in toClient' : served'[m.call] = m.verdict
      <4> TAKE m \in toClient'
      <4>1. CASE m \in toClient
        <5>1. served[m.call] = m.verdict /\ m.verdict # "none"
          BY <4>1, <1>2 DEF IInv, ClientSide!IInv, ClientSide!CallsFit
        <5>2. m.call # c
          BY <5>1, <2>1
        <5> QED BY <5>1, <5>2, <1>3, <1>5 DEF Answers
      <4>2. CASE m = [call |-> c, verdict |-> v]
        BY <4>2, <1>3, <1>5 DEF Answers
      <4> QED BY <4>1, <4>2, <1>5 DEF Answers
    <3>3. \A m \in toServer' : m.type = "request" =>
            served'[m.call] = "none" /\ call'[m.call] \notin {"idle", "sending"}
      BY <1>1, <1>2, <1>3, <1>5 DEF Answers, IInv, ClientSide!IInv, ClientSide!CallsFit
    <3>4. recv' # "ended" => sweep' < NumShards
      BY <1>1 DEF IInv, ClientSide!IInv, ClientSide!CallsFit
    <3> QED BY <3>1, <3>2, <3>3, <3>4 DEF ClientSide!CallsFit
  <2>5. ClientSide!PendingExact'
    BY <1>1 DEF IInv, ClientSide!IInv, ClientSide!PendingExact
  <2> QED BY <2>2, <2>3, <2>4, <2>5 DEF ClientSide!IInv
<1> QED BY <1>4, <1>5, ServerShape DEF IInv

-----------------------------------------------------------------------------
(* A step of the client sends a request once, asks to cancel only what it     *)
(* made, and returns only the result it was given.                          *)
Asks ==
  /\ toClient' \subseteq toClient
  /\ \A m \in toServer' : m \in toServer \/
       /\ m \in [type : {"request", "cancelled", "initialized"}, call : Made]
       /\ m.type = "request" => call[m.call] = "sending"
  /\ \A c \in Calls :
       /\ call[c] # "idle" => call'[c] # "idle"
       /\ call'[c] \in {"idle", "sending"} => call[c] \in {"idle", "sending"}
       /\ cancel'[c] # "none" => call[c] # "idle"
       /\ outcome'[c] = "result" => served[c] = "result"
  /\ writable'

LEMMA CallerAsks ==
  ASSUME IInv, NEW c \in Calls, ClientSide!Register(c) \/ ClientSide!Caller(c)
  PROVE  Asks
<1> USE DEF Asks, Made, ClientSide!linkVars, ClientSide!SendOk, ClientSide!SendFails
<1>1. /\ call \in [Calls -> {"idle", "sending", "waiting", "expired", "telling", "orphaned",
                              "confirming", "done"}]
      /\ outcome \in [Calls -> {"unsent", "timeout", "dropped", "result", "error", "none"}]
  BY DEF IInv, ClientSide!IInv, ClientSide!TypeOK, ClientSide!Failures, ClientSide!Verdicts
<1>2. \A d \in Calls :
        /\ cancel[d] # "none" => call[d] # "idle"
        /\ outcome[d] = "result" => served[d] = "result"
        /\ slot[d] = "result" => served[d] = "result"
        /\ call[d] = "confirming" => slot[d] = "result"
  BY DEF IInv, Linked, ClientSide!IInv, ClientSide!CallsFit, ClientSide!CallFits, ClientSide!Verdicts
<1>3. writable
  BY DEF IInv, Linked
<1>4. CASE ClientSide!Register(c)
  BY <1>1, <1>2, <1>3, <1>4 DEF ClientSide!Register
<1>5. CASE ClientSide!Send(c)
  BY <1>1, <1>2, <1>3, <1>5 DEF ClientSide!Send, ClientSide!Request
<1>6. CASE ClientSide!SendFailed(c)
  BY <1>3, <1>6 DEF ClientSide!SendFailed
<1>7. CASE ClientSide!Return(c)
  BY <1>1, <1>2, <1>3, <1>7 DEF ClientSide!Return
<1>8. CASE ClientSide!Confirm(c)
  BY <1>1, <1>2, <1>3, <1>8 DEF ClientSide!Confirm, ClientSide!Confirmation
<1>9. CASE ClientSide!Orphaned(c) \/ ClientSide!ReturnDropped(c)
  BY <1>1, <1>2, <1>3, <1>9 DEF ClientSide!Orphaned, ClientSide!ReturnDropped
<1>10. CASE ClientSide!TimeOut(c) \/ ClientSide!Forget(c)
  BY <1>1, <1>2, <1>3, <1>10 DEF ClientSide!TimeOut, ClientSide!Forget
<1>11. CASE ClientSide!ReturnTimeout(c)
  BY <1>1, <1>2, <1>3, <1>11 DEF ClientSide!ReturnTimeout, ClientSide!CancelNote
<1> QED BY <1>4, <1>5, <1>6, <1>7, <1>8, <1>9, <1>10, <1>11 DEF ClientSide!Caller

LEMMA ClientAsks ==
  ASSUME IInv, ClientSide!ClientNext
  PROVE  Asks
<1> USE DEF ClientSide!linkVars, ClientSide!callerVars
<1>1. \A d \in Calls :
        /\ cancel[d] # "none" => call[d] # "idle"
        /\ outcome[d] = "result" => served[d] = "result"
  BY DEF IInv, Linked
<1>2. writable /\ cancel \in [Calls -> {"none", "telling", "done"}]
  BY DEF IInv, Linked, ClientSide!IInv, ClientSide!TypeOK
<1>3. ASSUME NEW c \in Calls, ClientSide!CancelRequest(c) PROVE Asks
  BY <1>1, <1>2, <1>3 DEF Asks, ClientSide!CancelRequest
<1>4. ASSUME NEW c \in Calls, ClientSide!CancelTell(c) PROVE Asks
  BY <1>1, <1>2, <1>4 DEF Asks, Made, ClientSide!CancelTell, ClientSide!CancelNote,
     ClientSide!SendOk, ClientSide!SendFails
<1>5. ASSUME UNCHANGED <<call, outcome, cancel, writable, toServer>>, toClient' \subseteq toClient
      PROVE  Asks
  BY <1>1, <1>2, <1>5 DEF Asks
<1>6. ASSUME ClientSide!Receiver PROVE Asks
  BY <1>5, <1>6 DEF ClientSide!Receiver, ClientSide!Receive, ClientSide!StopReceiving, ClientSide!Sweep
<1>7. ASSUME ClientSide!Close PROVE Asks
  BY <1>5, <1>7 DEF ClientSide!Close
<1> QED BY <1>3, <1>4, <1>6, <1>7, CallerAsks DEF ClientSide!ClientNext, ClientSide!Canceller

(* Whoever is greeted was so after the server's result, and had sent nothing. *)
LEMMA NewlyGreeted ==
  ASSUME IInv, OfClient
  PROVE  \A c \in greeted' : c \in greeted \/
           (c \in Calls /\ call[c] = "idle" /\ call'[c] # "idle" /\ state # "Uninitialized")
<1>1. ASSUME Greeting PROVE state # "Uninitialized"
  <2>1. PICK h \in Calls : Method[h] = "initialize" /\ served[h] = "result"
    BY <1>1 DEF Greeting, Hellos, IInv, Linked
  <2>2. verdict[h] \in ServerSide!Results
    BY <2>1, ServedValue DEF ServerSide!Results
  <2> QED BY <2>1, <2>2 DEF IInv, ServerSide!IInv, ServerSide!AllFit, ServerSide!CallFits
<1>2. CASE Greeting
  BY <1>1, <1>2 DEF OfClient, Greeting
<1>3. CASE ~Greeting
  BY <1>3 DEF OfClient, Greeting
<1> QED BY <1>2, <1>3

(* A step of the client leaves what the server relies on.                     *)
LEMMA ClientKeepsServer ==
  ASSUME IInv, ClientSide!ClientNext, OfClient
  PROVE  ServerSide!IInv' /\ Linked'
<1>1. UNCHANGED <<state, root, active, token, task, verdict, spawned, served>>
  BY DEF OfClient, serverVars, served
<1>2. Asks
  BY ClientAsks
<1>3. Made \subseteq Made' /\ Made' \subseteq Calls
  BY <1>2 DEF Asks, Made
<1>4. \A c \in greeted' : c \in greeted \/
        (c \in Calls /\ call[c] = "idle" /\ call'[c] # "idle" /\ state # "Uninitialized")
  BY NewlyGreeted
<1>5. Linked'
  BY <1>1, <1>2 DEF Asks, IInv, Linked
<1>6. ServerSide!TypeOK'
  <2>1. toServer' \subseteq ServerSide!Message /\ toClient' \subseteq ServerSide!Response
    BY <1>2, <1>3 DEF Asks, Made, IInv, ServerSide!IInv, ServerSide!TypeOK, ServerSide!Message
  <2>2. greeted' \subseteq Made'
    BY <1>3, <1>4 DEF Made, IInv, ServerSide!IInv, ServerSide!TypeOK
  <2> QED BY <1>1, <1>3, <2>1, <2>2 DEF IInv, ServerSide!IInv, ServerSide!TypeOK
<1>7. ServerSide!WireFits'
  <2>1. \A m \in toServer' : m.type = "request" => m.call \in Made' /\ task[m.call] = "none"
    BY <1>2, <1>3 DEF Asks, Made, IInv, Linked, ServerSide!IInv, ServerSide!AllFit, ServerSide!WireFits
  <2>2. \A m \in toServer' \cup spawned : m.type = "cancelled" => m.call \in Made'
    BY <1>2, <1>3 DEF Asks, Made, IInv, ServerSide!IInv, ServerSide!AllFit, ServerSide!WireFits
  <2>3. \A m \in toClient' : m \in toClient
    BY <1>2 DEF Asks
  <2> QED BY <1>1, <2>1, <2>2, <2>3 DEF IInv, ServerSide!IInv, ServerSide!AllFit, ServerSide!WireFits
<1>8. (\A c \in Calls : ServerSide!CallFits(c))'
  <2>1. \A c \in greeted' : state = "Uninitialized" => c \in greeted
    BY <1>4
  <2> QED BY <1>1, <1>3, <2>1
    DEF IInv, ServerSide!IInv, ServerSide!AllFit, ServerSide!CallFits, ServerSide!TokenCancelled,
        ServerSide!Results
<1>9. ServerSide!EntriesFit' /\ ServerSide!ActiveExact'
  BY <1>1 DEF IInv, ServerSide!IInv, ServerSide!AllFit, ServerSide!EntriesFit,
     ServerSide!ActiveExact, ServerSide!CanCancel, ServerSide!Contested, ServerSide!Ids
<1>10. ServerSide!OwnToken'
  BY <1>1, <1>3 DEF IInv, ServerSide!IInv, ServerSide!OwnToken, ServerSide!AskedFor
<1>11. ServerSide!GreetedNeverRefused'
  <2>1. \A c \in Calls : call[c] = "idle" => task[c] = "none" /\ verdict[c] = "none"
    BY DEF IInv, Linked, ServerSide!IInv, ServerSide!AllFit, ServerSide!CallFits
  <2> QED BY <1>1, <1>4, <2>1 DEF IInv, ServerSide!IInv, ServerSide!GreetedNeverRefused
<1> QED BY <1>5, <1>6, <1>7, <1>8, <1>9, <1>10, <1>11 DEF ServerSide!IInv, ServerSide!AllFit

-----------------------------------------------------------------------------
LEMMA InitIInv == Init => IInv
<1> SUFFICES ASSUME Init PROVE IInv
  OBVIOUS
<1>1. /\ call = [c \in Calls |-> "idle"] /\ cancel = [c \in Calls |-> "none"]
      /\ outcome = [c \in Calls |-> "none"] /\ writable = TRUE
      /\ task = [c \in Calls |-> "none"] /\ toServer = {} /\ toClient = {}
  BY DEF Init, Client!Init
<1>2. Linked
  BY <1>1 DEF Linked
<1>3. ClientSide!Init
  BY DEF Init, Client!Init, ClientSide!Init
<1>4. ClientSide!IInv
  BY <1>3, ClientSideAssumption, ClientSide!InitIInv DEF ClientSide!ClientAssumption
<1>5. ServerSide!TypeOK /\ ServerSide!AllFit
  <2>1. Made = {}
    BY <1>1 DEF Made
  <2>2. /\ state = "Uninitialized" /\ root = FALSE /\ active = [c \in Calls |-> NoCall]
        /\ token = {} /\ verdict = [c \in Calls |-> "none"] /\ spawned = {} /\ greeted = {}
    BY DEF Init
  <2>3. ServerSide!TypeOK
    BY <1>1, <2>1, <2>2 DEF ServerSide!TypeOK, ServerSide!Ids, ServerSide!Message
  <2>4. ServerSide!WireFits /\ ServerSide!EntriesFit
    BY <1>1, <2>2 DEF ServerSide!WireFits, ServerSide!EntriesFit, ServerSide!Ids
  <2>5. \A c \in Calls : ServerSide!CallFits(c)
    BY <1>1, <2>2 DEF ServerSide!CallFits, ServerSide!Results, ServerSide!TokenCancelled
  <2> QED BY <2>3, <2>4, <2>5 DEF ServerSide!AllFit
<1>6. ServerSide!ActiveExact /\ ServerSide!OwnToken /\ ServerSide!GreetedNeverRefused
  BY <1>1, ConnectionAssumption DEF Init, ServerSide!ActiveExact, ServerSide!CanCancel, ServerSide!OwnToken,
    ServerSide!GreetedNeverRefused, ServerSide!Ids
<1> QED BY <1>2, <1>4, <1>5, <1>6 DEF IInv, ServerSide!IInv

LEMMA NextIInv == IInv /\ [Next]_vars => IInv'
<1> SUFFICES ASSUME IInv, [Next]_vars PROVE IInv'
  OBVIOUS
<1>1. ASSUME Server!ServerNext, OfServer PROVE IInv'
  <2>1. ServerSide!Next /\ ServerSide!ServerNext
    BY <1>1, ServerStepIsOwn
  <2>2. ServerSide!IInv'
    BY <2>1, ServerSideStep DEF IInv
  <2> QED BY <1>1, <2>1, <2>2, ServerKeepsClient DEF IInv
<1>2. ASSUME Client!ClientNext, OfClient PROVE IInv'
  <2>1. ClientSide!Next /\ ClientSide!ClientNext
    BY <1>2, ClientStepIsOwn
  <2>2. ClientSide!IInv'
    BY <2>1, ClientSideStep DEF IInv
  <2> QED BY <1>2, <2>1, <2>2, ClientKeepsServer DEF IInv
<1>3. CASE UNCHANGED vars
  <2>1. UNCHANGED ServerSide!vars /\ UNCHANGED ClientSide!vars /\ UNCHANGED served
    BY <1>3 DEF vars, ownVars, serverVars, served, Made, ServerSide!vars, ServerSide!serverVars,
       ServerSide!peerVars, ClientSide!vars, ClientSide!clientVars, ClientSide!callerVars,
       ClientSide!linkVars
  <2>2. ServerSide!IInv' /\ ClientSide!IInv'
    BY <2>1, ServerSideStep, ClientSideStep DEF IInv
  <2>3. Linked'
    BY <1>3, <2>1 DEF IInv, Linked, vars, ownVars, serverVars
  <2> QED BY <2>2, <2>3 DEF IInv
<1> QED BY <1>1, <1>2, <1>3 DEF Next

THEOREM InductiveInvariant == Spec => []IInv
BY InitIInv, NextIInv, PTL DEF Spec

(* On a healthy connection both ends keep their types, and a request made     *)
(* once initialize() has returned its result is never refused, however the    *)
(* tasks of the server that handle it, the confirmation and other requests    *)
(* interleave.                                                              *)
THEOREM HandshakeAlwaysConsistent == Spec => []HandshakeConsistent
<1>1. IInv => HandshakeConsistent
  <2> SUFFICES ASSUME IInv PROVE HandshakeConsistent
    OBVIOUS
  <2>1. HandshakeFirst
    BY DEF IInv, ServerSide!IInv, ServerSide!GreetedNeverRefused, HandshakeFirst
  <2>2. Client!TypeOK
    BY DEF IInv, ClientSide!IInv, ClientSide!TypeOK, Client!TypeOK, ClientSide!Message, Client!Message,
       ClientSide!Response, Client!Response, ClientSide!Verdicts, Client!Verdicts,
       ClientSide!Failures, Client!Failures
  <2>3. Server!TypeOK
    BY DEF IInv, ServerSide!IInv, ServerSide!TypeOK, Server!TypeOK, ServerSide!Message, Server!Message,
       ServerSide!Response, Server!Response, ServerSide!Errors, Server!Errors,
       ServerSide!Results, Server!Results, ServerSide!Ids, Server!Ids
  <2> QED BY <2>1, <2>2, <2>3 DEF HandshakeConsistent, TypeOK
<1> QED BY <1>1, InductiveInvariant, PTL

-----------------------------------------------------------------------------
(* A step of the client is one of the contract or changes nothing of it, and   *)
(* so is a step of the server: its reply is the contract's answer.           *)
LEMMA ContractStep ==
  IInv /\ [Next]_vars => [Client!Contract!Next]_(Client!Contract!rrVars)
<1> SUFFICES ASSUME IInv, [Next]_vars PROVE [Client!Contract!Next]_(Client!Contract!rrVars)
  OBVIOUS
<1>1. ASSUME Client!ClientNext, OfClient PROVE [Client!Contract!Next]_(Client!Contract!rrVars)
  <2>1. ClientSide!IInv /\ ClientSide!Next
    BY <1>1, ClientStepIsOwn DEF IInv
  <2>2. [ClientSide!Contract!Next]_(ClientSide!Contract!rrVars)
    BY <2>1, ClientSideAssumption, ClientSide!ContractStep DEF ClientSide!ClientAssumption
  <2> QED BY <2>2
    DEF ClientSide!Contract!Next, ClientSide!Contract!rrVars, ClientSide!Contract!Issue,
        ClientSide!Contract!Respond, ClientSide!Contract!Return, ClientSide!Contract!Verdicts,
        ClientSide!Contract!Failures,
        Client!Contract!Next, Client!Contract!rrVars, Client!Contract!Issue,
        Client!Contract!Respond, Client!Contract!Return, Client!Contract!Verdicts,
        Client!Contract!Failures
<1>2. ASSUME Server!ServerNext, OfServer PROVE [Client!Contract!Next]_(Client!Contract!rrVars)
  <2>1. call' = call /\ outcome' = outcome
    BY <1>2 DEF OfServer, ownVars
  <2>2. CASE served' = served
    BY <2>1, <2>2 DEF Client!Contract!rrVars
  <2>3. ASSUME NEW c \in Calls, NEW v \in {"result", "error"}, Answers(c, v)
        PROVE  Client!Contract!Next
    <3>1. served[c] = "none" /\ call[c] # "idle"
      BY <2>3, ServedValue DEF Answers, IInv, Linked
    <3>2. served' = [served EXCEPT ![c] = v]
      BY <2>3 DEF Answers
    <3>3. Client!Contract!Respond(c, v)
      BY <2>1, <3>1, <3>2 DEF Client!Contract!Respond
    <3> QED BY <3>3 DEF Client!Contract!Next, Client!Contract!Verdicts
  <2>4. ServerSide!ServerNext
    BY <1>2, ServerStepIsOwn
  <2> QED BY <2>2, <2>3, <2>4, ServerShape DEF IInv, Quiet
<1>3. CASE UNCHANGED vars
  <2>1. call' = call /\ outcome' = outcome /\ served' = served
    BY <1>3 DEF vars, ownVars, serverVars, served
  <2> QED BY <2>1 DEF Client!Contract!rrVars
<1> QED BY <1>1, <1>2, <1>3 DEF Next

(* For its caller the whole connection is a RequestReply: a request returns    *)
(* once, with the verdict the server gave on it, "timeout", or "dropped" if it *)
(* was cancelled, and the server answers once what was made.                *)
THEOREM ConnectionRefinesRequestReply == Spec => ImplementsRequestReply
<1>1. Init => Client!Contract!Init
  <2> SUFFICES ASSUME Init PROVE Client!Contract!Init
    OBVIOUS
  <2>1. /\ call = [c \in Calls |-> "idle"] /\ outcome = [c \in Calls |-> "none"]
        /\ served = [c \in Calls |-> "none"]
    BY DEF Init, Client!Init
  <2> QED BY <2>1 DEF Client!Contract!Init
<1> QED BY <1>1, InductiveInvariant, ContractStep, PTL
        DEF Spec, ImplementsRequestReply, Client!StepsOfRequestReply
=============================================================================
