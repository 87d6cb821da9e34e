---------------------------- MODULE BrowserAgent ----------------------------
(***************************************************************************)
(* The browser agent of the HTTP server: AutonomousBrowserAgent (start,     *)
(* step, approve, abort) in the slot ACTIVE_BROWSER_AGENT, the worker loops *)
(* that the start and approve handlers spawn, and the chat commands         *)
(* /browser <goal>, /browser approve and /browser abort.                   *)
(*                                                                         *)
(* A worker locks the slot three times per round: to look, to step and to   *)
(* report.  step and approve keep the lock while the model answers and the  *)
(* browser acts; the agent of a chat goal is private until its run is over. *)
(***************************************************************************)
EXTENDS Integers, Sequences, FiniteSets

CONSTANTS
  Starts,         \* requests to /api/browser/agent/start, each with its agent
  Chats,          \* chat commands /browser <goal>, each with its agent
  Gated,          \* the agents with human_in_the_loop
  Approvals,      \* requests to /api/browser/agent/approve
  ChatApprovals,  \* chat commands /browser approve
  Aborts,         \* abort requests and chat commands
  MaxSteps,       \* max_steps of every goal
  Moves,          \* the Proposals the model comes up with
  NoOne

Agents == Starts \cup Chats
Approvers == Approvals \cup ChatApprovals
Workers == Starts \cup Approvals      \* a loop is named by the request that spawns it

(* What the model proposes: a click or text without and with a sensitive    *)
(* word, a navigation to a plain and to a checkout URL, the end.           *)
Proposals == {"plain", "sensitive", "open", "checkout", "complete"}
Places == {"plain", "checkout"}

ASSUME BrowserAssumption ==
  /\ MaxSteps \in Nat
  /\ Moves \subseteq Proposals
  /\ Chats \subseteq Gated /\ Gated \subseteq Agents
  /\ Starts \cap Chats = {} /\ Agents \cap Approvers = {}
  /\ Approvals \cap ChatApprovals = {}
  /\ NoOne \notin Agents \cup Approvers

VARIABLES
  slot,      \* the agent in ACTIVE_BROWSER_AGENT, or NoOne
  lock,      \* who keeps the slot locked over an await, or NoOne
  state,     \* AgentState of each agent, "none" before it exists
  step,      \* current_step when Running, the checkpoint's number when Waiting
  pending,   \* pending_checkpoint: the action that waits, or "none"
  url,       \* current_url of each agent: where the last step() navigated
  page,      \* history: where its executed navigations took the browser
  history,   \* the executed actions of each agent
  worker,    \* where each worker loop is
  approver,  \* where each approval is
  granted,   \* the agent whose checkpoint an approval released, or NoOne
  aborted,   \* the aborts that were served
  chat       \* where each chat goal is: "idle", "driving" its agent or "stored"

agentVars == <<slot, lock, state, step, pending, url, page, history, worker,
          approver, granted, aborted, chat>>

Sensitive(act) == act \in {"sensitive", "checkout"}

Target(act, old) ==
  CASE act = "open" -> "plain" [] act = "checkout" -> "checkout" [] OTHER -> old

\* Mutant: The classifier forgets the URL of a navigation.
MutNeedsApproval(a, act) == a \in Gated /\ (act = "sensitive" \/ url[a] = "checkout")

\* SafetyClassifier::evaluate_action
NeedsApproval(a, act) == a \in Gated /\ (Sensitive(act) \/ url[a] = "checkout")

AgentInit ==
  /\ slot = NoOne /\ lock = NoOne
  /\ state = [a \in Agents |-> "none"]
  /\ step = [a \in Agents |-> 0]
  /\ pending = [a \in Agents |-> "none"]
  /\ url = [a \in Agents |-> "plain"] /\ page = [a \in Agents |-> "plain"]
  /\ history = [a \in Agents |-> <<>>]
  /\ worker = [w \in Workers |-> "none"]
  /\ approver = [r \in Approvers |-> "idle"]
  /\ granted = [r \in Approvers |-> NoOne]
  /\ aborted = {}
  /\ chat = [c \in Chats |-> "idle"]

-----------------------------------------------------------------------------
(* The agent.                                                              *)

\* What running act leaves behind, with checkpoint = it waited for a human.
Execute(a, act, checkpoint) ==
  /\ history' = [history EXCEPT ![a] = Append(@,
                  [step |-> step[a], sensitive |-> Sensitive(act), checkpoint |-> checkpoint])]
  /\ page' = [page EXCEPT ![a] = Target(act, @)]

AdvanceOrComplete(a, complete) ==
  IF complete \/ step[a] >= MaxSteps
  THEN state' = [state EXCEPT ![a] = "Completed"] /\ UNCHANGED step
  ELSE state' = [state EXCEPT ![a] = "Running"] /\ step' = [step EXCEPT ![a] = @ + 1]

\* The rest of AutonomousBrowserAgent::step, once the model proposed act.
Step(a, act) ==
  IF NeedsApproval(a, act)
  THEN /\ state' = [state EXCEPT ![a] = "Waiting"]
       /\ pending' = [pending EXCEPT ![a] = act]
       /\ UNCHANGED <<step, url, page, history>>
  ELSE /\ Execute(a, act, FALSE)
       /\ url' = [url EXCEPT ![a] = Target(act, @)]
       /\ AdvanceOrComplete(a, act = "complete")
       /\ UNCHANGED pending

\* The rest of AutonomousBrowserAgent::approve: current_url stays as it was,
\* also when what it runs is a navigation.
Release(a) ==
  /\ Execute(a, pending[a], TRUE)
  /\ AdvanceOrComplete(a, FALSE)
  /\ pending' = [pending EXCEPT ![a] = "none"]
  /\ UNCHANGED url

\* AutonomousBrowserAgent::new and start
Begin(a) ==
  /\ state' = [state EXCEPT ![a] = "Running"]
  /\ step' = [step EXCEPT ![a] = 1]

Running(a) == a # NoOne /\ state[a] = "Running"

-----------------------------------------------------------------------------
(* The start handler and the worker loop.                                  *)

StartRun(s) ==
  /\ state[s] = "none" /\ lock = NoOne
  /\ Begin(s)
  /\ slot' = s
  /\ worker' = [worker EXCEPT ![s] = "spawning"]
  /\ UNCHANGED <<lock, pending, url, page, history, approver, granted, aborted, chat>>

SpawnWorker(w) ==
  /\ worker[w] = "spawning"
  /\ worker' = [worker EXCEPT ![w] = "look"]
  /\ UNCHANGED <<slot, lock, state, step, pending, url, page, history, approver, granted, aborted, chat>>

Look(w) ==
  /\ worker[w] = "look" /\ lock = NoOne
  /\ worker' = [worker EXCEPT ![w] = IF Running(slot) THEN "due" ELSE "ended"]
  /\ UNCHANGED <<slot, lock, state, step, pending, url, page, history, approver, granted, aborted, chat>>

\* step() answers Err unless the agent is still Running: the loop ends.
BeginStep(w) ==
  /\ worker[w] = "due" /\ lock = NoOne
  /\ IF Running(slot)
     THEN lock' = w /\ worker' = [worker EXCEPT ![w] = "stepping"]
     ELSE worker' = [worker EXCEPT ![w] = "ended"] /\ UNCHANGED lock
  /\ UNCHANGED <<slot, state, step, pending, url, page, history, approver, granted, aborted, chat>>

EndStep(w) ==
  /\ worker[w] = "stepping"
  /\ lock' = NoOne
  /\ \E act \in Moves :
       /\ Step(slot, act)
       /\ worker' = [worker EXCEPT ![w] =
                       IF NeedsApproval(slot, act) THEN "paused" ELSE "stepped"]
  /\ UNCHANGED <<slot, approver, granted, aborted, chat>>

\* Mutant: The loop breaks after every step, not only after a checkpoint.
MutReport(w) ==
  /\ worker[w] \in {"paused", "stepped"} /\ lock = NoOne
  /\ worker' = [worker EXCEPT ![w] = "ended"]
  /\ UNCHANGED <<slot, lock, state, step, pending, url, page, history, approver, granted, aborted, chat>>

\* The event carries the status of whatever agent is in the slot by now.
Report(w) ==
  /\ worker[w] \in {"paused", "stepped"} /\ lock = NoOne
  /\ worker' = [worker EXCEPT ![w] = IF @ = "paused" THEN "ended" ELSE "look"]
  /\ UNCHANGED <<slot, lock, state, step, pending, url, page, history, approver, granted, aborted, chat>>

-----------------------------------------------------------------------------
(* The approve and abort handlers.                                         *)

BeginApprove(r) ==
  /\ approver[r] = "idle" /\ lock = NoOne
  /\ IF slot # NoOne /\ pending[slot] # "none"
     THEN lock' = r /\ approver' = [approver EXCEPT ![r] = "acting"]
     ELSE approver' = [approver EXCEPT ![r] = "refused"] /\ UNCHANGED lock
  /\ UNCHANGED <<slot, state, step, pending, url, page, history, worker, granted, aborted, chat>>

\* Mutant: The approve handler does not spawn a loop.
MutEndApprove(r) ==
  /\ approver[r] = "acting"
  /\ Release(slot)
  /\ lock' = NoOne
  /\ granted' = [granted EXCEPT ![r] = slot]
  /\ approver' = [approver EXCEPT ![r] = "approved"]
  /\ UNCHANGED <<slot, worker, aborted, chat>>

\* Only the HTTP handler spawns a worker; the chat command does not.
EndApprove(r) ==
  /\ approver[r] = "acting"
  /\ Release(slot)
  /\ lock' = NoOne
  /\ granted' = [granted EXCEPT ![r] = slot]
  /\ approver' = [approver EXCEPT ![r] = "approved"]
  /\ worker' = IF r \in Approvals THEN [worker EXCEPT ![r] = "spawning"] ELSE worker
  /\ UNCHANGED <<slot, aborted, chat>>

\* Mutant: abort leaves the pending checkpoint.
MutAbort(q) ==
  /\ q \notin aborted /\ lock = NoOne
  /\ aborted' = aborted \cup {q}
  /\ IF slot # NoOne THEN state' = [state EXCEPT ![slot] = "Aborted"] ELSE UNCHANGED state
  /\ UNCHANGED <<slot, lock, step, pending, url, page, history, worker, approver, granted, chat>>

Abort(q) ==
  /\ q \notin aborted /\ lock = NoOne
  /\ aborted' = aborted \cup {q}
  /\ IF slot # NoOne
     THEN /\ state' = [state EXCEPT ![slot] = "Aborted"]
          /\ pending' = [pending EXCEPT ![slot] = "none"]
     ELSE UNCHANGED <<state, pending>>
  /\ UNCHANGED <<slot, lock, step, url, page, history, worker, approver, granted, chat>>

-----------------------------------------------------------------------------
(* A goal given in the chat: its agent is stepped outside the slot, which   *)
(* it takes when it no longer runs.                                        *)

ChatBegin(c) ==
  /\ chat[c] = "idle"
  /\ chat' = [chat EXCEPT ![c] = "driving"]
  /\ Begin(c)
  /\ UNCHANGED <<slot, lock, pending, url, page, history, worker, approver, granted, aborted>>

ChatStep(c) ==
  /\ chat[c] = "driving" /\ Running(c)
  /\ \E act \in Moves : Step(c, act)
  /\ UNCHANGED <<slot, lock, worker, approver, granted, aborted, chat>>

ChatStore(c) ==
  /\ chat[c] = "driving" /\ ~Running(c) /\ lock = NoOne
  /\ slot' = c
  /\ chat' = [chat EXCEPT ![c] = "stored"]
  /\ UNCHANGED <<lock, state, step, pending, url, page, history, worker, approver, granted, aborted>>

-----------------------------------------------------------------------------
WorkerStep(w) ==
  SpawnWorker(w) \/ Look(w) \/ BeginStep(w) \/ EndStep(w) \/ Report(w)

AgentNext ==
  \/ \E s \in Starts : StartRun(s)
  \/ \E w \in Workers : WorkerStep(w)
  \/ \E r \in Approvers : BeginApprove(r) \/ EndApprove(r)
  \/ \E q \in Aborts : Abort(q)
  \/ \E c \in Chats : ChatBegin(c) \/ ChatStep(c) \/ ChatStore(c)

AgentSpec == AgentInit /\ [][AgentNext]_agentVars

(* A spawned loop and a handler that has begun go on: the model answers or   *)
(* times out.  No request, approval or abort need ever come.               *)
AgentFairness ==
  /\ \A w \in Workers : WF_agentVars(WorkerStep(w))
  /\ \A r \in Approvers : WF_agentVars(EndApprove(r))
  /\ \A c \in Chats : WF_agentVars(ChatStep(c)) /\ WF_agentVars(ChatStore(c))
-----------------------------------------------------------------------------
(* Properties.                                                             *)

(* Types, and the lock: it is held over an await by exactly the step or the  *)
(* approval under way (main.rs:18632, 18724).                               *)
TypeOK ==
  /\ slot \in Agents \cup {NoOne}
  /\ lock \in Workers \cup Approvers \cup {NoOne}
  /\ state \in [Agents -> {"none", "Running", "Waiting", "Completed", "Aborted"}]
  /\ step \in [Agents -> Nat]
  /\ pending \in [Agents -> Proposals \cup {"none"}]
  /\ url \in [Agents -> Places] /\ page \in [Agents -> Places]
  /\ history \in [Agents -> Seq([step : Nat, sensitive : BOOLEAN, checkpoint : BOOLEAN])]
  /\ worker \in [Workers -> {"none", "spawning", "look", "due", "stepping",
                             "paused", "stepped", "ended"}]
  /\ approver \in [Approvers -> {"idle", "acting", "approved", "refused"}]
  /\ granted \in [Approvers -> Agents \cup {NoOne}]
  /\ aborted \subseteq Aborts
  /\ \A w \in Workers : worker[w] = "stepping" => lock = w
  /\ \A r \in Approvers : approver[r] = "acting" => lock = r
  /\ chat \in [Chats -> {"idle", "driving", "stored"}]

(* Whatever loops, approvals and chat goals act for an agent, its history    *)
(* holds the steps 1, 2, 3... once each, within the step limit, and an agent *)
(* that runs or waits is at the step after its last one: two loops that      *)
(* drive one agent never repeat or skip a step (BrowserAgent::step, approve  *)
(* and the loops of the start and approve handlers).                        *)
StepsOnceInOrder ==
  \A a \in Agents :
    /\ \A i \in 1..Len(history[a]) : history[a][i].step = i
    /\ Len(history[a]) <= MaxSteps \/ Len(history[a]) <= 1
    /\ state[a] \in {"Running", "Waiting"} =>
         step[a] = Len(history[a]) + 1 /\ (step[a] <= MaxSteps \/ step[a] = 1)

Checkpoints(a) == {i \in 1..Len(history[a]) : history[a][i].checkpoint}

(* A gated agent runs an action with a sensitive word or address only because *)
(* a human released it, no navigation of its own takes it to a checkout page  *)
(* without a release, and every approval accepted released exactly one: the   *)
(* executed checkpoints of an agent are as many as the approvals it was      *)
(* granted.  The page itself asks for nothing more: approve() leaves          *)
(* current_url alone (agent.rs:837), so that what the agent does next on a    *)
(* checkout page it was let onto is not gated by the URL context of            *)
(* agent.rs:168, and where a click leads current_url does not follow either.  *)
OneCheckpointPerApproval ==
  \A a \in Agents :
    /\ a \in Gated /\ page[a] = "checkout" => Checkpoints(a) # {}
    /\ a \in Gated =>
         \A i \in 1..Len(history[a]) : history[a][i].sensitive => history[a][i].checkpoint
    /\ Cardinality(Checkpoints(a)) = Cardinality({r \in Approvers : granted[r] = a})

(* A worker loop, or a handler about to spawn one.                          *)
Driven == \E w \in Workers : worker[w] \in {"spawning", "look", "due", "stepping", "stepped"}

(* The agent in the slot never stays Running with nobody to step it, however *)
(* starts, approvals and chat goals overlap; the exception is an agent that  *)
(* a chat approval has released (main.rs:20521), for which no loop is        *)
(* spawned.                                                                 *)
RunningIsDriven ==
  Running(slot) => Driven \/ \E r \in ChatApprovals : granted[r] = slot

(* A checkpoint that waits for a human stops its agent: until it is released *)
(* the agent executes nothing else, and what is released is what was shown. *)
WaitingIsPaused ==
  [][\A a \in Agents :
       state[a] = "Waiting" /\ history'[a] # history[a] =>
         /\ \E r \in Approvers : approver[r] = "acting" /\ approver'[r] = "approved"
         /\ history'[a] = Append(history[a],
              [step |-> step[a], sensitive |-> Sensitive(pending[a]), checkpoint |-> TRUE])]_agentVars

(* An aborted agent never acts again, whatever steps, approvals and loops    *)
(* were under way when abort() was called.                                  *)
AbortIsFinal ==
  [][\A a \in Agents :
       state[a] = "Aborted" => state'[a] = "Aborted" /\ history'[a] = history[a]]_agentVars

(* A run in the slot comes to an end, a pause or a replacement, unless it    *)
(* was a chat approval that set it Running; no worker loop stays for ever.  *)
RunEnds ==
  /\ \A a \in Agents :
       (slot = a /\ state[a] = "Running") ~>
         (slot # a \/ state[a] # "Running" \/ \E r \in ChatApprovals : granted[r] = a)
  /\ \A w \in Workers : (worker[w] = "look") ~> (worker[w] = "ended")

(* The agent of the slot is well formed, driven while it runs, and executes  *)
(* its steps once and in order.                                             *)
AgentConsistent == TypeOK /\ StepsOnceInOrder /\ RunningIsDriven

(* Only a human lets a stopped agent act again: a waiting one is paused until *)
(* an approval, an aborted one for good (main.rs:18632, 18724).             *)
HumanDecides == WaitingIsPaused /\ AbortIsFinal
=============================================================================
