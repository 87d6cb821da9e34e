----------------------------- MODULE McpServer -----------------------------
(***************************************************************************)
(* The server of the Model Context Protocol (mcp-protocol, server.rs and    *)
(* tools.rs).  One server value serves every session: they share the life-  *)
(* cycle state and the map of active tool calls, which is keyed by the      *)
(* request id a client chose.  Each message is handled by a task of its     *)
(* own, so the messages of a session may be handled in any order.           *)
(***************************************************************************)
EXTENDS FiniteSets

CONSTANTS
  Calls,     \* the requests that may arrive
  Session,   \* the session a request belongs to
  Id,        \* the id its client gave it: unique in its session, no further
  Method,    \* "initialize", "tools/call", or "list" for the stateless ones
  Hanging,   \* tool calls whose handler returns only when it is cancelled
  Panicking, \* tool calls whose handler may panic
  MayShutdown, \* whether somebody may shut the server down
  NoCall     \* stands for "no call in the map"

Methods == {"initialize", "tools/call", "list"}
Ids == {Id[c] : c \in Calls}

ASSUME ServerAssumption ==
  /\ Method \in [Calls -> Methods]
  /\ Hanging \cup Panicking \subseteq Calls
  /\ MayShutdown \in BOOLEAN
  /\ NoCall \notin Calls
  /\ \A c, d \in Calls : Session[c] = Session[d] /\ Id[c] = Id[d] => c = d

VARIABLES
  state,     \* ServerState
  root,      \* root_token is cancelled
  active,    \* active_requests: the call whose token is filed under each id
  token,     \* calls whose own token is cancelled
  task,      \* where the task that handles a request is
  verdict,   \* what it will answer, or has answered
  spawned,   \* notifications received, their tasks still to run
  toServer,  \* messages on their way to the server
  toClient,  \* responses sent back
  sent,      \* the clients: requests made
  greeted,   \* requests made after an answered handshake of their session
  asked,     \* requests whose client has asked for their cancellation
  confirmed  \* handshakes whose client has confirmed them

serverVars == <<state, root, active, token, task, verdict, spawned>>
peerVars == <<sent, greeted, asked, confirmed>>
vars == <<serverVars, toServer, toClient, peerVars>>

Request(c) == [type |-> "request", call |-> c]
CancelNote(c) == [type |-> "cancelled", call |-> c]
Confirmation(c) == [type |-> "initialized", call |-> c]
Message == [type : {"request", "cancelled", "initialized"}, call : Calls]

Errors == {"refused", "invalid"}
Results == {"ok", "failed", "cancelled"}
Response == [call : Calls, verdict : {"result", "error"}]

TypeOK ==
  /\ state \in {"Uninitialized", "Initializing", "Initialized", "Shutdown"}
  /\ root \in BOOLEAN
  /\ active \in [Ids -> Calls \cup {NoCall}]
  /\ token \subseteq Calls
  /\ task \in [Calls -> {"none", "spawned", "running", "ending", "replying", "done", "dead"}]
  /\ verdict \in [Calls -> Errors \cup Results \cup {"none"}]
  /\ spawned \subseteq Message
  /\ toServer \subseteq Message
  /\ toClient \subseteq Response
  /\ greeted \subseteq sent /\ asked \subseteq sent /\ sent \cup confirmed \subseteq Calls

Init ==
  /\ state = "Uninitialized"
  /\ root = FALSE
  /\ active = [i \in Ids |-> NoCall]
  /\ token = {}
  /\ task = [c \in Calls |-> "none"]
  /\ verdict = [c \in Calls |-> "none"]
  /\ spawned = {}
  /\ toServer = {}
  /\ toClient = {}
  /\ sent = {}
  /\ greeted = {}
  /\ asked = {}
  /\ confirmed = {}

-----------------------------------------------------------------------------
(* serve(): the loop of a session spawns a task for each message, and stops *)
(* once the root token is cancelled.                                       *)

ReceiveRequest(m) ==
  /\ m.type = "request"
  /\ toServer' = toServer \ {m}
  /\ task' = [task EXCEPT ![m.call] = "spawned"]
  /\ UNCHANGED <<state, root, active, token, verdict, spawned, toClient>>

ReceiveNote(m) ==
  /\ m.type # "request"
  /\ toServer' = toServer \ {m}
  /\ spawned' = spawned \cup {m}
  /\ UNCHANGED <<state, root, active, token, task, verdict, toClient>>

\* A loop that finds both a message and the cancelled token may take either.
Serve == \E m \in toServer : ReceiveRequest(m) \/ ReceiveNote(m)

-----------------------------------------------------------------------------
(* handle_request                                                          *)

\* Mutant: only a completed handshake lets other methods through.
MutRefused(c) == state # "Initialized" /\ Method[c] # "initialize"

\* Before any handshake only initialize and ping are let through.
Refused(c) == state = "Uninitialized" /\ Method[c] # "initialize"

Answer(c, v) ==
  /\ verdict' = [verdict EXCEPT ![c] = v]
  /\ task' = [task EXCEPT ![c] = "replying"]

Refuse(c) ==
  /\ task[c] = "spawned"
  /\ Refused(c)
  /\ Answer(c, "refused")
  /\ UNCHANGED <<state, root, active, token, spawned, toServer, toClient>>

\* A method that has parameters parses them before it does anything.
Invalid(c) ==
  /\ task[c] = "spawned"
  /\ ~ Refused(c)
  /\ Answer(c, "invalid")
  /\ UNCHANGED <<state, root, active, token, spawned, toServer, toClient>>

HandleInitialize(c) ==
  /\ task[c] = "spawned"
  /\ Method[c] = "initialize"
  /\ state' = "Initializing"
  /\ Answer(c, "ok")
  /\ UNCHANGED <<root, active, token, spawned, toServer, toClient>>

\* The lists, reads and subscriptions touch nothing that is modelled.
HandleList(c) ==
  /\ task[c] = "spawned"
  /\ Method[c] = "list"
  /\ ~ Refused(c)
  /\ Answer(c, "ok")
  /\ UNCHANGED <<state, root, active, token, spawned, toServer, toClient>>

\* The call's token is filed under its id, over whatever was filed there.
StartCall(c) ==
  /\ task[c] = "spawned"
  /\ Method[c] = "tools/call"
  /\ ~ Refused(c)
  /\ active' = [active EXCEPT ![Id[c]] = c]
  /\ task' = [task EXCEPT ![c] = "running"]
  /\ UNCHANGED <<state, root, token, verdict, spawned, toServer, toClient>>

\* A call's token is a child of the root token.
TokenCancelled(c) == root \/ c \in token

\* ToolRegistry::call: select! between the token and the handler, whose own
\* errors become results.  An unknown tool or wrong arguments are invalid.
EndCall(c) ==
  /\ task[c] = "running"
  /\ \E v \in Results \cup {"invalid"} :
       /\ v = "cancelled" => TokenCancelled(c)
       /\ v # "cancelled" => c \notin Hanging
       /\ verdict' = [verdict EXCEPT ![c] = v]
  /\ task' = [task EXCEPT ![c] = "ending"]
  /\ UNCHANGED <<state, root, active, token, spawned, toServer, toClient>>

\* AssertUnwindSafe catches nothing: the panic ends the spawned task.
Panic(c) ==
  /\ task[c] = "running"
  /\ c \in Panicking
  /\ task' = [task EXCEPT ![c] = "dead"]
  /\ UNCHANGED <<state, root, active, token, verdict, spawned, toServer, toClient>>

\* Mutant: a call that was cancelled returns early and leaves its entry.
MutFileAway(c) ==
  /\ task[c] = "ending"
  /\ active' = IF verdict[c] = "ok" THEN [active EXCEPT ![Id[c]] = NoCall] ELSE active
  /\ task' = [task EXCEPT ![c] = "replying"]
  /\ UNCHANGED <<state, root, token, verdict, spawned, toServer, toClient>>

\* Mutant: what is filed under the id is cancelled as it is removed.
MutFileAwayCancels(c) ==
  /\ task[c] = "ending"
  /\ active' = [active EXCEPT ![Id[c]] = NoCall]
  /\ token' = IF active[Id[c]] = NoCall THEN token ELSE token \cup {active[Id[c]]}
  /\ task' = [task EXCEPT ![c] = "replying"]
  /\ UNCHANGED <<state, root, verdict, spawned, toServer, toClient>>

\* Whatever is filed under the id of the call is removed.
FileAway(c) ==
  /\ task[c] = "ending"
  /\ active' = [active EXCEPT ![Id[c]] = NoCall]
  /\ task' = [task EXCEPT ![c] = "replying"]
  /\ UNCHANGED <<state, root, token, verdict, spawned, toServer, toClient>>

Reply(c) ==
  /\ task[c] = "replying"
  /\ toClient' = toClient \cup
       {[call |-> c, verdict |-> IF verdict[c] \in Results THEN "result" ELSE "error"]}
  /\ task' = [task EXCEPT ![c] = "done"]
  /\ UNCHANGED <<state, root, active, token, verdict, spawned, toServer>>

\* What the runtime carries on by itself, and what the handler may do.
Handle(c) ==
  \/ Refuse(c) \/ HandleInitialize(c) \/ HandleList(c) \/ StartCall(c)
  \/ EndCall(c) \/ FileAway(c) \/ Reply(c)

-----------------------------------------------------------------------------
(* handle_notification and handle_cancel_request, and shutdown().  A cancel *)
(* sent as a request is never refused and does what the notification does;  *)
(* the null it is answered with is left out.                               *)

NoteInitialized(m) ==
  /\ m.type = "initialized"
  /\ spawned' = spawned \ {m}
  /\ state' = IF state \in {"Initializing", "Uninitialized"} THEN "Initialized" ELSE state
  /\ UNCHANGED <<root, active, token, task, verdict, toServer, toClient>>

\* The call filed under the id, whoever made it, is taken out and cancelled.
NoteCancelled(m) ==
  LET i == Id[m.call] IN
  /\ m.type = "cancelled"
  /\ spawned' = spawned \ {m}
  /\ token' = IF active[i] = NoCall THEN token ELSE token \cup {active[i]}
  /\ active' = [active EXCEPT ![i] = NoCall]
  /\ UNCHANGED <<state, root, task, verdict, toServer, toClient>>

HandleNote == \E m \in spawned : NoteInitialized(m) \/ NoteCancelled(m)

Shutdown ==
  /\ MayShutdown
  /\ ~ root
  /\ state' = "Shutdown"
  /\ root' = TRUE
  /\ UNCHANGED <<active, token, task, verdict, spawned, toServer, toClient>>

ServerNext ==
  \/ Serve
  \/ \E c \in Calls : Handle(c) \/ Invalid(c) \/ Panic(c)
  \/ HandleNote
  \/ Shutdown

-----------------------------------------------------------------------------
(* The clients: they send requests and cancellations whenever they like,    *)
(* and confirm a handshake that was answered.                               *)

Send(m) == toServer' = toServer \cup {m}

HandshakeDone(s) ==
  \E h \in Calls :
    Session[h] = s /\ Method[h] = "initialize" /\ [call |-> h, verdict |-> "result"] \in toClient

MakeRequest(c) ==
  /\ c \notin sent
  /\ Send(Request(c))
  /\ sent' = sent \cup {c}
  /\ greeted' = IF HandshakeDone(Session[c]) THEN greeted \cup {c} ELSE greeted
  /\ UNCHANGED <<serverVars, toClient, asked, confirmed>>

AskCancel(c) ==
  /\ c \in sent \ asked
  /\ Method[c] = "tools/call"
  /\ Send(CancelNote(c))
  /\ asked' = asked \cup {c}
  /\ UNCHANGED <<serverVars, toClient, sent, greeted, confirmed>>

Confirm(h) ==
  /\ Method[h] = "initialize"
  /\ [call |-> h, verdict |-> "result"] \in toClient
  /\ h \notin confirmed
  /\ Send(Confirmation(h))
  /\ confirmed' = confirmed \cup {h}
  /\ UNCHANGED <<serverVars, toClient, sent, greeted, asked>>

Clients == \E c \in Calls : MakeRequest(c) \/ AskCancel(c) \/ Confirm(c)

Next == (ServerNext /\ UNCHANGED peerVars) \/ Clients

Spec == Init /\ [][Next]_vars

-----------------------------------------------------------------------------
(* Safety.                                                                 *)

\* A client that sends a request after its initialize was answered is never
\* told that the server is not initialized: neither another session's
\* handshake, nor a late notification, nor a shutdown takes the state back.
GreetedNeverRefused == \A c \in greeted : verdict[c] # "refused"

\* A call that the map still holds can be cancelled: it runs, or its handler
\* panicked.  The other way round, a running call is found by its id until it
\* is cancelled, unless a call was started under the same id by another client.
CanCancel(c) == task[c] \in {"running", "ending", "dead"} /\ c \notin token

Contested(c) ==
  \E d \in Calls \ {c} :
    Id[d] = Id[c] /\ Method[d] = "tools/call" /\ task[d] \notin {"none", "spawned"}

ActiveExact ==
  \A c \in Calls :
    /\ active[Id[c]] = c => CanCancel(c)
    /\ CanCancel(c) => active[Id[c]] = c \/ Contested(c)

\* How the task of a request, its messages, the map and the state hang together
\* whether ids are unique or not: the strengthening on which the proofs rest.
CallFits(c) ==
  /\ task[c] # "none" => c \in sent
  /\ c \in token => task[c] \notin {"none", "spawned"}
  /\ task[c] \in {"running", "ending"} => Method[c] = "tools/call"
  /\ verdict[c] # "none" => task[c] \notin {"none", "spawned", "running", "dead"}
  /\ verdict[c] = "cancelled" => TokenCancelled(c)
  /\ state = "Uninitialized" =>
       c \notin greeted /\ (Method[c] = "initialize" => verdict[c] \notin Results)

WireFits ==
  /\ \A m \in toServer : m.type = "request" => m.call \in sent /\ task[m.call] = "none"
  /\ \A m \in toServer \cup spawned : m.type = "cancelled" => m.call \in asked
  /\ \A m \in spawned : m.type # "request"
  /\ \A m \in toClient : m.verdict = "result" => verdict[m.call] \in Results

EntriesFit ==
  \A i \in Ids : active[i] # NoCall =>
    Id[active[i]] = i /\ task[active[i]] \notin {"none", "spawned"}

AllFit == WireFits /\ EntriesFit /\ \A c \in Calls : CallFits(c)

\* Some client has asked for the cancellation of this call: its own, or one of
\* another session that gave a call of its own the same id.
AskedFor(c) == c \in asked \/ \E d \in asked : Id[d] = Id[c] /\ Session[d] # Session[c]

\* Only what some client asked for under its id, or a shutdown, cancels a call.
OwnToken == \A c \in token : AskedFor(c)

\* A call ends as cancelled only if its client asked for that or the server was
\* shut down, except where another session uses the same id, as every client
\* that counts from 1 does: there the other client's request will do as well.
\* In particular the end of a call never cancels the one that took over its id.
CancelledByItsId == \A c \in Calls : verdict[c] = "cancelled" => AskedFor(c) \/ root

\* State, tokens and messages keep their types and the map of active requests
\* is exact.
ActiveConsistent == TypeOK /\ ActiveExact
=============================================================================
