--------------------------- MODULE McpConnection ---------------------------
(***************************************************************************)
(* An MCP client and an MCP server on one healthy connection: McpClient and *)
(* McpServer with the two directions of the transport in common.  Each side *)
(* takes the place of the other's environment.  A client numbers its        *)
(* requests, so each has an id of its own.                                 *)
(***************************************************************************)
EXTENDS Integers, FiniteSets

CONSTANTS
  Calls, Method, Hanging,          \* as in McpServer
  Cancelling, NumShards, Shard, Capacity, \* as in McpClient
  NoCall

ASSUME ConnectionAssumption ==
  /\ Method \in [Calls -> {"initialize", "tools/call", "list"}]
  /\ Hanging \subseteq Calls /\ Cancelling \subseteq Calls /\ NoCall \notin Calls
  /\ NumShards \in Nat \ {0} /\ Shard \in [Calls -> 0 .. NumShards - 1]
  /\ Capacity \in Nat \ {0}

VARIABLES
  call, outcome, slot, pending, cancel, recv, sweep, closed, readable, writable,
  state, root, active, token, task, verdict, spawned,
  toServer, toClient,
  greeted    \* requests made after an initialize() had returned its result

Hellos == {c \in Calls : Method[c] = "initialize"}

Server == INSTANCE McpServer WITH
  Session <- [c \in Calls |-> "session"], Id <- [c \in Calls |-> c],
  Panicking <- {}, MayShutdown <- FALSE,
  sent <- {c \in Calls : call[c] \notin {"idle", "sending"}},
  greeted <- {}, asked <- {}, confirmed <- {}

\* How the server has answered each request, as its client sees it.
served ==
  [c \in Calls |-> IF task[c] # "done" THEN "none"
                   ELSE IF verdict[c] \in Server!Results THEN "result" ELSE "error"]

Client == INSTANCE McpClient WITH MayDisconnect <- FALSE

ownVars == <<call, outcome, slot, pending, cancel, recv, sweep, closed, readable, writable>>
serverVars == <<state, root, active, token, task, verdict, spawned>>
vars == <<ownVars, serverVars, toServer, toClient, greeted>>

Init ==
  /\ state = "Uninitialized"
  /\ root = FALSE
  /\ active = [c \in Calls |-> NoCall]
  /\ token = {}
  /\ task = [c \in Calls |-> "none"]
  /\ verdict = [c \in Calls |-> "none"]
  /\ spawned = {}
  /\ Client!Init
  /\ greeted = {}

Greeting == \E h \in Hellos : outcome[h] = "result"

\* What a step of the client leaves alone, and what it means for greeted.
OfClient ==
  /\ UNCHANGED serverVars
  /\ greeted' = IF Greeting
                THEN greeted \cup {c \in Calls : call[c] = "idle" /\ call'[c] # "idle"}
                ELSE greeted

OfServer == UNCHANGED <<ownVars, greeted>>

Next == (Client!ClientNext /\ OfClient) \/ (Server!ServerNext /\ OfServer)

Spec == Init /\ [][Next]_vars

\* The runtimes of the two sides run all their tasks.
Fairness ==
  /\ \A c \in Calls :
       /\ WF_vars(Client!Caller(c) /\ OfClient)
       /\ WF_vars(Client!CancelTell(c) /\ OfClient)
       /\ WF_vars(Server!Handle(c) /\ OfServer)
  /\ WF_vars(Client!Receiver /\ OfClient)
  /\ WF_vars(Server!Serve /\ OfServer)
  /\ WF_vars(Server!HandleNote /\ OfServer)

FairSpec == Spec /\ Fairness

-----------------------------------------------------------------------------
TypeOK == Server!TypeOK /\ Client!TypeOK

\* A request that is made once initialize() has returned never fails for want
\* of a handshake, whenever the confirmation of the handshake is handled.
HandshakeFirst == \A c \in greeted : verdict[c] # "refused"

\* For its caller the connection is a RequestReply: each request returns once,
\* with the verdict the server gave on it, or "timeout", or "dropped" if it was
\* cancelled.  The server answers no request twice and none that was not made.
ImplementsRequestReply == Client!StepsOfRequestReply

\* A tool call that runs when its client gives up on it, by a timeout or by
\* cancel_request, comes to an end on the server, also if the tool hangs.
GivenUpCallEnds ==
  \A c \in Calls :
    task[c] = "running" /\ (call[c] = "telling" \/ cancel[c] = "telling")
      ~> task[c] # "running"

\* Every request returns to its caller, also if the tool hangs: the timeout
\* does not depend on the server.
EveryCallReturns == Client!EveryCallReturns

\* Both ends keep their types, and what the client asks once it is greeted is
\* not refused by the server.
HandshakeConsistent == TypeOK /\ HandshakeFirst

\* A request ends at both ends: its caller returns, and a tool call that is
\* given up ends on the server.
CallsEnd == GivenUpCallEnds /\ EveryCallReturns
=============================================================================
