----------------------------- MODULE McpClient -----------------------------
(***************************************************************************)
(* The client of the Model Context Protocol (mcp-protocol, client.rs):     *)
(* callers send requests and wait on a oneshot channel with a timeout,     *)
(* a receiver loop hands them the responses, requests can be cancelled by  *)
(* their id, and the connection may break or be closed at any moment.      *)
(*                                                                         *)
(* The pending requests live in a DashMap: a table of shards, each behind  *)
(* a lock of its own.  An iteration keeps the shard it is in locked.       *)
(*                                                                         *)
(* One merge: the receiver takes a sender out of the map and sends on its  *)
(* channel in one step.  A timeout that falls between the two is one that  *)
(* fell before both; a cancellation there is one that came after both.     *)
(***************************************************************************)
EXTENDS Integers, FiniteSets

CONSTANTS
  Calls,         \* the requests that may be made; each has an id of its own
  Hellos,        \* those made by initialize()
  Cancelling,    \* requests somebody may cancel by their id
  NumShards,     \* shards of the map of pending requests
  Shard,         \* the shard an id hashes to
  Capacity,      \* messages the outgoing channel of the transport holds
  MayDisconnect  \* whether the peer may go away and the client be closed

ASSUME ClientAssumption ==
  /\ Hellos \subseteq Calls
  /\ Cancelling \subseteq Calls
  /\ NumShards \in Nat \ {0}
  /\ Shard \in [Calls -> 0 .. NumShards - 1]
  /\ Capacity \in Nat \ {0}
  /\ MayDisconnect \in BOOLEAN

VARIABLES
  call,      \* where send_request_with_timeout is for each request
  outcome,   \* what it returned: "none" while it has not
  slot,      \* the oneshot channel of the request
  pending,   \* pending_requests: the requests whose sender is in the map
  cancel,    \* where cancel_request is for each request
  recv,      \* where the receiver loop is
  sweep,     \* the shard its clean-up has reached
  closed,    \* root_token is cancelled: close() was called
  toServer,  \* messages sent and not yet read by the peer
  toClient,  \* responses sent and not yet received
  readable,  \* the peer can still be heard
  writable,  \* the peer can still be written to
  served     \* the peer: how it has answered each request

callerVars == <<call, outcome, slot, cancel>>
linkVars == <<readable, writable>>
clientVars == <<callerVars, pending, recv, sweep, closed, toServer, toClient, linkVars>>
vars == <<clientVars, served>>

Request(c) == [type |-> "request", call |-> c]
CancelNote(c) == [type |-> "cancelled", call |-> c]
Confirmation(c) == [type |-> "initialized", call |-> c]
Message == [type : {"request", "cancelled", "initialized"}, call : Calls]

\* A response carries a result or a JSON-RPC error.
Verdicts == {"result", "error"}
Response == [call : Calls, verdict : Verdicts]

Failures == {"unsent", "timeout", "dropped"}

TypeOK ==
  /\ call \in [Calls -> {"idle", "sending", "waiting", "expired", "telling", "orphaned",
                       "confirming", "done"}]
  /\ outcome \in [Calls -> Failures \cup Verdicts \cup {"none"}]
  /\ slot \in [Calls -> Verdicts \cup {"empty", "dropped"}]
  /\ pending \subseteq Calls
  /\ cancel \in [Calls -> {"none", "telling", "done"}]
  /\ recv \in {"receiving", "sweeping", "stuck", "ended"}
  /\ sweep \in 0 .. NumShards
  /\ closed \in BOOLEAN
  /\ toServer \subseteq Message
  /\ toClient \subseteq Response
  /\ readable \in BOOLEAN
  /\ writable \in BOOLEAN
  /\ served \in [Calls -> Verdicts \cup {"none"}]

Init ==
  /\ call = [c \in Calls |-> "idle"]
  /\ outcome = [c \in Calls |-> "none"]
  /\ slot = [c \in Calls |-> "empty"]
  /\ pending = {}
  /\ cancel = [c \in Calls |-> "none"]
  /\ recv = "receiving"
  /\ sweep = 0
  /\ closed = FALSE
  /\ toServer = {}
  /\ toClient = {}
  /\ readable = TRUE
  /\ writable = TRUE
  /\ served = [c \in Calls |-> "none"]

-----------------------------------------------------------------------------
(* The map and the transport.                                              *)

\* The stuck receiver holds the lock of its shard, and waits for it as well.
Unlocked(c) == ~ (recv = "stuck" /\ Shard[c] = sweep)

\* Transport::send waits for room in the channel and fails once the peer's
\* end is gone.
HasRoom == Cardinality(toServer) < Capacity

SendOk(m) == writable /\ HasRoom /\ toServer' = toServer \cup {m}

SendFails == ~ writable /\ UNCHANGED toServer

-----------------------------------------------------------------------------
(* send_request_with_timeout                                               *)

\* The request gets its id, and its sender is entered in the map.
Register(c) ==
  /\ call[c] = "idle"
  /\ Unlocked(c)
  /\ pending' = pending \cup {c}
  /\ call' = [call EXCEPT ![c] = "sending"]
  /\ UNCHANGED <<outcome, slot, cancel, recv, sweep, closed, toServer, toClient, linkVars>>

Send(c) ==
  /\ call[c] = "sending"
  /\ SendOk(Request(c))
  /\ call' = [call EXCEPT ![c] = "waiting"]
  /\ UNCHANGED <<outcome, slot, pending, cancel, recv, sweep, closed, toClient, linkVars>>

\* A failed send returns at once, and the sender stays in the map.
SendFailed(c) ==
  /\ call[c] = "sending"
  /\ SendFails
  /\ call' = [call EXCEPT ![c] = "done"]
  /\ outcome' = [outcome EXCEPT ![c] = "unsent"]
  /\ UNCHANGED <<slot, pending, cancel, recv, sweep, closed, toClient, linkVars>>

\* The oneshot channel yields the response.  initialize() goes on to confirm
\* a result.
Return(c) ==
  /\ call[c] = "waiting"
  /\ slot[c] \in Verdicts
  /\ IF c \in Hellos /\ slot[c] = "result"
     THEN call' = [call EXCEPT ![c] = "confirming"] /\ UNCHANGED outcome
     ELSE /\ outcome' = [outcome EXCEPT ![c] = slot[c]]
          /\ call' = [call EXCEPT ![c] = "done"]
  /\ UNCHANGED <<slot, pending, cancel, recv, sweep, closed, toServer, toClient, linkVars>>

Confirm(c) ==
  /\ call[c] = "confirming"
  /\ \/ SendOk(Confirmation(c)) /\ outcome' = [outcome EXCEPT ![c] = "result"]
     \/ SendFails /\ outcome' = [outcome EXCEPT ![c] = "unsent"]
  /\ call' = [call EXCEPT ![c] = "done"]
  /\ UNCHANGED <<slot, pending, cancel, recv, sweep, closed, toClient, linkVars>>

\* The sender was dropped: cancel_request has taken it out of the map.
Orphaned(c) ==
  /\ call[c] = "waiting"
  /\ slot[c] = "dropped"
  /\ call' = [call EXCEPT ![c] = "orphaned"]
  /\ UNCHANGED <<outcome, slot, pending, cancel, recv, sweep, closed, toServer, toClient, linkVars>>

ReturnDropped(c) ==
  /\ call[c] = "orphaned"
  /\ Unlocked(c)
  /\ pending' = pending \ {c}
  /\ outcome' = [outcome EXCEPT ![c] = "dropped"]
  /\ call' = [call EXCEPT ![c] = "done"]
  /\ UNCHANGED <<slot, cancel, recv, sweep, closed, toServer, toClient, linkVars>>

\* Mutant: no clock is set; only a dropped sender ends the wait.
MutTimeOut(c) ==
  /\ call[c] = "waiting"
  /\ slot[c] = "dropped"
  /\ call' = [call EXCEPT ![c] = "expired"]
  /\ UNCHANGED <<outcome, slot, pending, cancel, recv, sweep, closed, toServer, toClient, linkVars>>

\* tokio::time::timeout looks at the channel before it looks at the clock.
TimeOut(c) ==
  /\ call[c] = "waiting"
  /\ slot[c] = "empty"
  /\ call' = [call EXCEPT ![c] = "expired"]
  /\ UNCHANGED <<outcome, slot, pending, cancel, recv, sweep, closed, toServer, toClient, linkVars>>

\* Mutant: the timeout of a request leaves its sender in the map.
MutForget(c) ==
  /\ call[c] = "expired"
  /\ Unlocked(c)
  /\ call' = [call EXCEPT ![c] = "telling"]
  /\ UNCHANGED <<outcome, slot, pending, cancel, recv, sweep, closed, toServer, toClient, linkVars>>

Forget(c) ==
  /\ call[c] = "expired"
  /\ Unlocked(c)
  /\ pending' = pending \ {c}
  /\ call' = [call EXCEPT ![c] = "telling"]
  /\ UNCHANGED <<outcome, slot, cancel, recv, sweep, closed, toServer, toClient, linkVars>>

\* Mutant: the timeout is reported only once the peer has been told.
MutReturnTimeout(c) ==
  /\ call[c] = "telling"
  /\ SendOk(CancelNote(c))
  /\ outcome' = [outcome EXCEPT ![c] = "timeout"]
  /\ call' = [call EXCEPT ![c] = "done"]
  /\ UNCHANGED <<slot, pending, cancel, recv, sweep, closed, toClient, linkVars>>

\* The peer is told; whether that succeeds is ignored.
ReturnTimeout(c) ==
  /\ call[c] = "telling"
  /\ SendOk(CancelNote(c)) \/ SendFails
  /\ outcome' = [outcome EXCEPT ![c] = "timeout"]
  /\ call' = [call EXCEPT ![c] = "done"]
  /\ UNCHANGED <<slot, pending, cancel, recv, sweep, closed, toClient, linkVars>>

Caller(c) ==
  \/ Send(c) \/ SendFailed(c) \/ Return(c) \/ Confirm(c) \/ Orphaned(c)
  \/ ReturnDropped(c) \/ TimeOut(c) \/ Forget(c) \/ ReturnTimeout(c)

-----------------------------------------------------------------------------
(* cancel_request: somebody else takes the sender away and tells the peer. *)

\* Dropping the sender wakes the caller.
Drop(c) == slot' = IF c \in pending THEN [slot EXCEPT ![c] = "dropped"] ELSE slot

CancelRequest(c) ==
  /\ c \in Cancelling
  /\ call[c] # "idle"
  /\ cancel[c] = "none"
  /\ Unlocked(c)
  /\ Drop(c)
  /\ pending' = pending \ {c}
  /\ cancel' = [cancel EXCEPT ![c] = "telling"]
  /\ UNCHANGED <<call, outcome, recv, sweep, closed, toServer, toClient, linkVars>>

CancelTell(c) ==
  /\ cancel[c] = "telling"
  /\ SendOk(CancelNote(c)) \/ SendFails
  /\ cancel' = [cancel EXCEPT ![c] = "done"]
  /\ UNCHANGED <<call, outcome, slot, pending, recv, sweep, closed, toClient, linkVars>>

Canceller(c) == CancelRequest(c) \/ CancelTell(c)

Close ==
  /\ MayDisconnect
  /\ ~ closed
  /\ closed' = TRUE
  /\ UNCHANGED <<callerVars, pending, recv, sweep, toServer, toClient, linkVars>>

-----------------------------------------------------------------------------
(* receiver_loop                                                           *)

\* Mutant: a response goes to some caller that waits, whatever its id.
MutWake(m) ==
  IF pending = {} THEN UNCHANGED slot
  ELSE \E c \in pending : slot' = [slot EXCEPT ![c] = m.verdict]

\* The caller whose sender is taken from the map gets the response.
Wake(m) ==
  slot' = IF m.call \in pending THEN [slot EXCEPT ![m.call] = m.verdict] ELSE slot

\* A response nobody waits for is dropped.
Receive(m) ==
  /\ recv = "receiving"
  /\ toClient' = toClient \ {m}
  /\ Wake(m)
  /\ pending' = pending \ {m.call}
  /\ UNCHANGED <<call, outcome, cancel, recv, sweep, closed, toServer, linkVars>>

\* End of file, an error, or close() ends the loop.
StopReceiving ==
  /\ recv = "receiving"
  /\ closed \/ (~ readable /\ toClient = {})
  /\ recv' = "sweeping"
  /\ UNCHANGED <<callerVars, pending, sweep, closed, toServer, toClient, linkVars>>

InShard(s) == {c \in pending : Shard[c] = s}

\* The clean-up iterates over the map shard by shard.  An empty shard is left
\* again; in any other it removes the entry it is looking at, which needs the
\* lock that the iteration holds.
Sweep ==
  /\ recv = "sweeping"
  /\ IF InShard(sweep) = {}
     THEN /\ sweep' = sweep + 1
          /\ recv' = IF sweep + 1 = NumShards THEN "ended" ELSE "sweeping"
     ELSE recv' = "stuck" /\ UNCHANGED sweep
  /\ UNCHANGED <<callerVars, pending, closed, toServer, toClient, linkVars>>

Receiver == (\E m \in toClient : Receive(m)) \/ StopReceiving \/ Sweep

-----------------------------------------------------------------------------
(* The peer: it reads messages, answers requests in any order or never, and *)
(* it may go away, first for its readers or first for its writers.          *)

PeerReads(m) ==
  /\ toServer' = toServer \ {m}
  /\ UNCHANGED <<callerVars, pending, recv, sweep, closed, toClient, linkVars, served>>

PeerAnswers(m) ==
  /\ m.type = "request"
  /\ readable
  /\ toServer' = toServer \ {m}
  /\ \E v \in Verdicts :
       /\ toClient' = toClient \cup {[call |-> m.call, verdict |-> v]}
       /\ served' = [served EXCEPT ![m.call] = v]
  /\ UNCHANGED <<callerVars, pending, recv, sweep, closed, linkVars>>

Reading == \E m \in toServer : PeerReads(m) \/ PeerAnswers(m)

PeerStopsTalking ==
  /\ MayDisconnect
  /\ readable
  /\ readable' = FALSE
  /\ UNCHANGED <<callerVars, pending, recv, sweep, closed, toServer, toClient, writable, served>>

PeerStopsListening ==
  /\ MayDisconnect
  /\ writable
  /\ writable' = FALSE
  /\ toServer' = {}
  /\ UNCHANGED <<callerVars, pending, recv, sweep, closed, toClient, readable, served>>

Peer == Reading \/ PeerStopsTalking \/ PeerStopsListening

ClientNext ==
  \/ \E c \in Calls : Register(c) \/ Caller(c) \/ Canceller(c)
  \/ Receiver
  \/ Close

Next == (ClientNext /\ UNCHANGED served) \/ Peer

Spec == Init /\ [][Next]_vars

\* The runtime polls every caller and the receiver, and timers fire.  Nobody
\* has to make or cancel a request, and the peer need not answer.  Once the
\* clean-up is stuck this asks more of the runtime than it gives, for the locks
\* waited for hold its threads: EveryCallReturns is refuted even so, and
\* ReturnsUnlessStuck stops asking there.
ClientFairness ==
  /\ \A c \in Calls :
       WF_vars(Caller(c) /\ UNCHANGED served) /\ WF_vars(CancelTell(c) /\ UNCHANGED served)
  /\ WF_vars(Receiver /\ UNCHANGED served)

\* The peer empties its end of the channel.
FairSpec == Spec /\ ClientFairness /\ WF_vars(Reading)

-----------------------------------------------------------------------------
(* Safety.                                                                 *)

\* An entry of the map stands for a caller that has yet to hear, and such a
\* caller has its entry: no response, timeout or cancellation leaves an entry
\* behind or loses one.  Only a failed send leaves its entry for good.
PendingExact ==
  \A c \in Calls :
    c \in pending <=>
      /\ slot[c] = "empty"
      /\ call[c] \in {"sending", "waiting", "expired"} \/ outcome[c] = "unsent"

\* What the stage of a call says of its channel and its answer: the
\* strengthening of PendingExact on which the proofs rest.
CallFits(c) ==
  /\ call[c] = "idle" => slot[c] = "empty"
  /\ call[c] \in {"idle", "sending"} => served[c] = "none"
  /\ call[c] # "done" => outcome[c] = "none"
  /\ call[c] = "orphaned" => slot[c] = "dropped"
  /\ call[c] = "confirming" => slot[c] = "result"
  /\ slot[c] = "dropped" => c \in Cancelling
  /\ slot[c] \in Verdicts => served[c] = slot[c]

CallsFit ==
  /\ \A c \in Calls : CallFits(c)
  /\ \A m \in toClient : served[m.call] = m.verdict
  /\ \A m \in toServer : m.type = "request" =>
       served[m.call] = "none" /\ call[m.call] \notin {"idle", "sending"}
  /\ recv # "ended" => sweep < NumShards

Contract == INSTANCE RequestReply WITH
  phase <- [c \in Calls |-> IF call[c] \in {"idle", "done"} THEN call[c] ELSE "open"],
  response <- served

\* A call returns once; a verdict it returns is the one the peer gave; it
\* fails with "dropped" only if it was cancelled.
StepsOfRequestReply == Contract!Init /\ [][Contract!Next]_(Contract!rrVars)

-----------------------------------------------------------------------------
(* Liveness.                                                               *)

\* client.rs: "Sends a JSON-RPC request and awaits the response with timeout
\* bounds".  Every request that is made returns.
EveryCallReturns == \A c \in Calls : call[c] = "sending" ~> call[c] = "done"

\* Whatever the peer does, a request returns, unless the clean-up of a lost
\* connection has come to wait for the lock it holds.  Nothing is promised
\* then, not even to a request of another shard: the clean-up waits with a
\* thread of the runtime in its hands, and so does every caller it locks out.
ReturnsUnlessStuck ==
  \A c \in Calls : call[c] = "sending" ~> call[c] = "done" \/ recv = "stuck"

\* The stages of callers, channels and clean-up keep their types and the map of
\* pending requests is exact.
PendingConsistent == TypeOK /\ PendingExact
=============================================================================
