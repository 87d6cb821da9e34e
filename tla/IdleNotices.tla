---------------------------- MODULE IdleNotices ----------------------------
(***************************************************************************)
(* How an IDE tells the ReST-RL daemon that its user has gone or come back.   *)
(* The tracker (rest_rl_client.py) calls the daemon under its lock, the shim  *)
(* (ide_client_shim.ts) does not wait for its calls.  Each call has a         *)
(* connection and a thread of the daemon of its own, which writes two flags.  *)
(* Calls alternate: the odd ones are idle_start, the even ones idle_stop.     *)
(***************************************************************************)
EXTENDS Integers, FiniteSets, Functions

CONSTANTS
  Locked,         \* the tracker's lock, which it holds while it calls
  MaxCalls,       \* bound: calls
  MaxIdleFaults  \* bound: exits of the daemon and calls given up

ASSUME IdleAssumption == Locked \in BOOLEAN /\ MaxCalls \in Nat /\ MaxIdleFaults \in Nat

VARIABLES
  isIdle,      \* what the IDE believes of its user
  callsMade,
  waitingFor,  \* the calls it waits for
  threads,     \* the daemon's threads, by the number of their call: "sent" or "half"
  alive,       \* is the daemon there
  daemonIdle,  \* its is_idle
  paused,      \* its pause_event
  late,        \* history: a call was given up in this or the last idle period
  idleFaults

idleVars == <<isIdle, callsMade, waitingFor, threads, alive, daemonIdle, paused, late, idleFaults>>

IdleInit ==
  /\ isIdle = FALSE /\ callsMade = 0 /\ waitingFor = {} /\ threads = <<>>
  /\ alive \in BOOLEAN /\ daemonIdle = FALSE /\ paused = TRUE
  /\ late = FALSE /\ idleFaults = 0

IsStart(n) == n % 2 = 1
Busy == DOMAIN threads

\* The worker trains: _should_stop is false.
Working == alive /\ daemonIdle /\ ~paused

-----------------------------------------------------------------------------
(* The IDE.                                                                *)

\* Mutant: the call is made after the lock is released.
MutMayCall == callsMade < MaxCalls

MayCall == callsMade < MaxCalls /\ (Locked => waitingFor = {})

\* A daemon that is not there refuses, and the error is swallowed.
Call ==
  /\ callsMade' = callsMade + 1
  /\ IF alive
     THEN /\ threads' = [n \in Busy \cup {callsMade'} |-> IF n \in Busy THEN threads[n] ELSE "sent"]
          /\ waitingFor' = waitingFor \cup {callsMade'}
     ELSE UNCHANGED <<threads, waitingFor>>

\* The debounce timer fires after 45 seconds without activity.
FallIdle ==
  /\ ~isIdle /\ MayCall
  /\ isIdle' = TRUE
  /\ Call
  /\ UNCHANGED <<alive, daemonIdle, paused, late, idleFaults>>

\* The first keystroke afterwards.
UserActivity ==
  /\ isIdle /\ MayCall
  /\ isIdle' = FALSE
  /\ Call
  /\ late' = (late /\ Busy # {})
  /\ UNCHANGED <<alive, daemonIdle, paused, idleFaults>>

\* The timeout of a call: its thread goes on.
TimeOut(n) ==
  /\ n \in waitingFor /\ idleFaults < MaxIdleFaults
  /\ waitingFor' = waitingFor \ {n}
  /\ late' = TRUE /\ idleFaults' = idleFaults + 1
  /\ UNCHANGED <<isIdle, callsMade, threads, alive, daemonIdle, paused>>

-----------------------------------------------------------------------------
(* The daemon: _handle_method writes is_idle, and then pause_event.          *)

SetIdle(n) ==
  /\ n \in Busy /\ threads[n] = "sent"
  /\ daemonIdle' = IsStart(n)
  /\ threads' = [threads EXCEPT ![n] = "half"]
  /\ UNCHANGED <<isIdle, callsMade, waitingFor, alive, paused, late, idleFaults>>

SetPaused(n) ==
  /\ n \in Busy /\ threads[n] = "half"
  /\ paused' = ~IsStart(n)
  /\ threads' = Restrict(threads, Busy \ {n})
  /\ waitingFor' = waitingFor \ {n}
  /\ UNCHANGED <<isIdle, callsMade, alive, daemonIdle, late, idleFaults>>

\* The daemon exits, and calls on the way fail.
DaemonDies ==
  /\ alive /\ idleFaults < MaxIdleFaults
  /\ alive' = FALSE /\ threads' = <<>> /\ waitingFor' = {}
  /\ idleFaults' = idleFaults + 1
  /\ UNCHANGED <<isIdle, callsMade, daemonIdle, paused, late>>

\* Started by hand, or by the shim after a failed idle_start: paused.
DaemonStarts ==
  /\ ~alive
  /\ alive' = TRUE /\ daemonIdle' = FALSE /\ paused' = TRUE
  /\ UNCHANGED <<isIdle, callsMade, waitingFor, threads, late, idleFaults>>

IdleNext ==
  \/ FallIdle \/ UserActivity \/ DaemonDies \/ DaemonStarts
  \/ \E n \in 1..MaxCalls : TimeOut(n) \/ SetIdle(n) \/ SetPaused(n)

IdleSpec == IdleInit /\ [][IdleNext]_idleVars

-----------------------------------------------------------------------------
(* While the user types and no call is on its way the daemon does not train   *)
(* ("Immediately triggers ACTIVE preemption on the first subsequent           *)
(* keystroke", ide_client_shim.ts:7), whatever exits and restarts of the       *)
(* daemon come between.  A call that was given up and handled late may break   *)
(* it, until the next idle period has begun and ended.                       *)
TypingPauses == ~isIdle /\ Busy = {} /\ ~late => ~Working
=============================================================================
