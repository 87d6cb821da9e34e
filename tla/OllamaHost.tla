----------------------------- MODULE OllamaHost -----------------------------
(***************************************************************************)
(* Who starts and kills the Ollama daemon of the host: request handlers that *)
(* call ensure_ollama_running or recover_and_restart_ollama, each on a        *)
(* blocking thread of its own, and the watchdog of the server.  A call that   *)
(* finds the daemon not responding kills every Ollama process, also one that  *)
(* another call has just started.  (As built for Windows, the one platform   *)
(* the command line compiles for.)                                          *)
(***************************************************************************)
EXTENDS Integers, FiniteSets

CONSTANTS
  Handlers, Watchdog,
  WaitPolls,     \* polls of a started daemon before the call gives up (30)
  MaxHandled,    \* bound: calls by handlers
  MaxFaults      \* bound: faults of the daemon and failed starts

ASSUME HostAssumption ==
  /\ Watchdog \notin Handlers
  /\ WaitPolls \in Nat \ {0} /\ MaxHandled \in Nat /\ MaxFaults \in Nat

Callers == Handlers \cup {Watchdog}

VARIABLES
  daemon,    \* "none", "starting", "up", "ill" (answers 5xx), "hung"
  starter,   \* whose child the starting daemon is, the watchdog if none starts
  at,        \* of each caller: "idle", "purge", "check", "kill", "spawn", "wait"
  deep,      \* the callers that go on with recover if ensure fails
  polls,     \* of each caller
  failures,  \* the watchdog's consecutive_failures, 3 standing for more
  handled, faults

hostVars == <<daemon, starter, at, deep, polls, failures, handled, faults>>

HostInit ==
  /\ daemon \in {"none", "up"} /\ starter = Watchdog
  /\ at = [c \in Callers |-> "idle"] /\ deep = {} /\ polls = [c \in Callers |-> 0]
  /\ failures = 0 /\ handled = 0 /\ faults = 0

-----------------------------------------------------------------------------
(* The callers.                                                            *)

\* A handler calls recover (from "purge") or ensure, or ensure and then recover.
CallHost(c, start, then) ==
  /\ c \in Handlers /\ at[c] = "idle" /\ handled < MaxHandled
  /\ at' = [at EXCEPT ![c] = start]
  /\ deep' = IF then THEN deep \cup {c} ELSE deep
  /\ handled' = handled + 1
  /\ UNCHANGED <<daemon, starter, polls, failures, faults>>

\* Mutant: every answer resets the count, a missing one too.
MutTick ==
  /\ at[Watchdog] = "idle"
  /\ failures' = 0
  /\ at' = [at EXCEPT ![Watchdog] = IF daemon = "ill" THEN "purge" ELSE "idle"]
  /\ UNCHANGED <<daemon, starter, deep, polls, handled, faults>>

\* One turn of the watchdog's loop; it waits for the call it makes.
Tick ==
  /\ at[Watchdog] = "idle"
  /\ failures' = IF daemon \in {"up", "ill"} THEN 0
                 ELSE IF failures = 3 THEN 3 ELSE failures + 1
  /\ at' = [at EXCEPT ![Watchdog] = IF daemon = "ill" THEN "purge"
                                    ELSE IF failures' = 3 THEN "check" ELSE "idle"]
  /\ UNCHANGED <<daemon, starter, deep, polls, handled, faults>>

-----------------------------------------------------------------------------
(* ensure_ollama_running and recover_and_restart_ollama.                    *)

\* A call ends; a wake request goes on with recover after an error.
EndCall(c, ok) ==
  /\ at' = [at EXCEPT ![c] = IF ~ok /\ c \in deep THEN "purge" ELSE "idle"]
  /\ deep' = deep \ {c}

\* The taskkill at the beginning of recover.
Purge(c) ==
  /\ at[c] = "purge"
  /\ daemon' = "none" /\ starter' = Watchdog
  /\ at' = [at EXCEPT ![c] = "check"]
  /\ UNCHANGED <<deep, polls, failures, handled, faults>>

CheckDaemon(c) ==
  /\ at[c] = "check"
  /\ IF daemon = "up" THEN EndCall(c, TRUE)
     ELSE at' = [at EXCEPT ![c] = "kill"] /\ UNCHANGED deep
  /\ UNCHANGED <<daemon, starter, polls, failures, handled, faults>>

\* The taskkill of ensure: it does not look at the daemon again.
KillDaemon(c) ==
  /\ at[c] = "kill"
  /\ daemon' = "none" /\ starter' = Watchdog
  /\ at' = [at EXCEPT ![c] = "spawn"]
  /\ UNCHANGED <<deep, polls, failures, handled, faults>>

\* A second serve finds the port taken and exits.
SpawnServe(c) ==
  /\ at[c] = "spawn"
  /\ IF daemon = "none" THEN daemon' = "starting" /\ starter' = c
                        ELSE UNCHANGED <<daemon, starter>>
  /\ at' = [at EXCEPT ![c] = "wait"]
  /\ UNCHANGED <<deep, polls, failures, handled, faults>>

\* No executable is found, even by the installer, or it does not start.
SpawnFails(c) ==
  /\ at[c] = "spawn" /\ faults < MaxFaults
  /\ EndCall(c, FALSE)
  /\ faults' = faults + 1
  /\ UNCHANGED <<daemon, starter, polls, failures, handled>>

\* A daemon that nobody disturbs is up before its starter gives up.
PollDaemon(c) ==
  /\ at[c] = "wait"
  /\ ~(daemon = "starting" /\ starter = c /\ polls[c] + 1 = WaitPolls)
  /\ IF daemon = "up" \/ polls[c] + 1 = WaitPolls
     THEN EndCall(c, daemon = "up") /\ polls' = [polls EXCEPT ![c] = 0]
     ELSE UNCHANGED <<at, deep>> /\ polls' = [polls EXCEPT ![c] = @ + 1]
  /\ UNCHANGED <<daemon, starter, failures, handled, faults>>

HostStep(c) ==
  Purge(c) \/ CheckDaemon(c) \/ KillDaemon(c) \/ SpawnServe(c) \/ PollDaemon(c)

-----------------------------------------------------------------------------
(* The daemon (external).                                                  *)

DaemonReady ==
  /\ daemon = "starting" /\ daemon' = "up" /\ starter' = Watchdog
  /\ UNCHANGED <<at, deep, polls, failures, handled, faults>>

DaemonFault ==
  /\ daemon \in {"starting", "up"} /\ faults < MaxFaults
  /\ daemon' \in {"none", "ill", "hung"} /\ faults' = faults + 1
  /\ starter' = Watchdog
  /\ UNCHANGED <<at, deep, polls, failures, handled>>

DaemonRecovers ==
  /\ daemon \in {"ill", "hung"} /\ daemon' = "up"
  /\ UNCHANGED <<starter, at, deep, polls, failures, handled, faults>>

HostNext ==
  \/ \E c \in Callers :
       \/ HostStep(c) \/ SpawnFails(c)
       \/ CallHost(c, "purge", FALSE) \/ \E then \in BOOLEAN : CallHost(c, "check", then)
  \/ Tick \/ DaemonReady \/ DaemonFault \/ DaemonRecovers

\* Blocking threads and the watchdog's task run, and a started daemon comes up.
HostFairness ==
  /\ \A c \in Handlers : WF_hostVars(HostStep(c))
  /\ WF_hostVars(Tick \/ HostStep(Watchdog))
  /\ WF_hostVars(DaemonReady)

HostSpec == HostInit /\ [][HostNext]_hostVars /\ HostFairness

-----------------------------------------------------------------------------
(* Once faults and requests stop, the daemon is up for good: the watchdog     *)
(* wakes it whatever the kills of overlapping calls left behind, and nobody   *)
(* goes on killing the daemon that another call has started                 *)
(* (main.rs:14150, memory.rs:931).                                         *)
EngineComesUp == <>[](daemon = "up")
=============================================================================
