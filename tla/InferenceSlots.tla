--------------------------- MODULE InferenceSlots ---------------------------
(***************************************************************************)
(* The slots of /orchestrate.  A request queues for a fast slot and keeps it  *)
(* to its end; slash commands, Ollama's fast path and the full pipeline run   *)
(* under it, a complex prompt queues for a heavy slot as well, and a fast     *)
(* path that fails goes on with the pipeline without one.  Only the paths     *)
(* under full_process watch for a client that leaves.  Both semaphores are    *)
(* tokio's: the waiters are served in order.                               *)
(***************************************************************************)
EXTENDS Integers, FiniteSets, Sequences, SequencesExt

CONSTANTS
  Requests,
  FastSlots, HeavySlots

ASSUME SlotAssumption == FastSlots \in Nat \ {0} /\ HeavySlots \in Nat \ {0}

VARIABLES
  reqAt,      \* "new", "queued", "sort", "commands", "fastpath", "heavyqueue", "pipeline", "done"
  fastQueue, heavyQueue,  \* the waiters of the semaphores
  heavy,      \* the requests with a heavy permit
  clients     \* the requests whose client is there

slotVars == <<reqAt, fastQueue, heavyQueue, heavy, clients>>

SlotInit ==
  /\ reqAt = [r \in Requests |-> "new"]
  /\ fastQueue = <<>> /\ heavyQueue = <<>> /\ heavy = {} /\ clients = Requests

Served == {r \in Requests : reqAt[r] \notin {"new", "queued", "done"}}
Watched == {"fastpath", "heavyqueue", "pipeline"}    \* inside the select loop

Paths == {"commands", "fastpath", "heavyqueue", "pipeline"}

-----------------------------------------------------------------------------
Arrive(r) ==
  /\ reqAt[r] = "new"
  /\ reqAt' = [reqAt EXCEPT ![r] = "queued"]
  /\ fastQueue' = Append(fastQueue, r)
  /\ UNCHANGED <<heavyQueue, heavy, clients>>

\* The client leaves; while its request waits for a fast slot nobody looks.
HangUp(r) ==
  /\ reqAt[r] \notin {"new", "done"} /\ r \in clients
  /\ clients' = clients \ {r}
  /\ UNCHANGED <<reqAt, fastQueue, heavyQueue, heavy>>

GetFast(r) ==
  /\ fastQueue # <<>> /\ r = Head(fastQueue)
  /\ Cardinality(Served) < FastSlots
  /\ fastQueue' = Tail(fastQueue)
  /\ reqAt' = [reqAt EXCEPT ![r] = "sort"]
  /\ UNCHANGED <<heavyQueue, heavy, clients>>

\* Commands, a fast path, a complex prompt, or a pipeline that asks for no slot.
Sort(r, path) ==
  /\ reqAt[r] = "sort"
  /\ reqAt' = [reqAt EXCEPT ![r] = path]
  /\ heavyQueue' = IF path = "heavyqueue" THEN Append(heavyQueue, r) ELSE heavyQueue
  /\ UNCHANGED <<fastQueue, heavy, clients>>

\* The file lock that follows is opened in a mode that keeps nobody out.
GetHeavy(r) ==
  /\ heavyQueue # <<>> /\ r = Head(heavyQueue)
  /\ Cardinality(heavy) < HeavySlots
  /\ heavyQueue' = Tail(heavyQueue)
  /\ heavy' = heavy \cup {r}
  /\ reqAt' = [reqAt EXCEPT ![r] = "pipeline"]
  /\ UNCHANGED <<fastQueue, clients>>

FallBack(r) ==
  /\ reqAt[r] = "fastpath"
  /\ reqAt' = [reqAt EXCEPT ![r] = "pipeline"]
  /\ UNCHANGED <<fastQueue, heavyQueue, heavy, clients>>

\* Mutant: the heavy permit is forgotten.
MutEndRequest(r) ==
  /\ reqAt' = [reqAt EXCEPT ![r] = "done"]
  /\ heavyQueue' = Remove(heavyQueue, r)
  /\ UNCHANGED <<fastQueue, heavy, clients>>

\* The end of a request frees what it holds.
EndRequest(r) ==
  /\ reqAt' = [reqAt EXCEPT ![r] = "done"]
  /\ heavy' = heavy \ {r}
  /\ heavyQueue' = Remove(heavyQueue, r)
  /\ UNCHANGED <<fastQueue, clients>>

Finish(r) == reqAt[r] \in {"commands", "fastpath", "pipeline"} /\ EndRequest(r)

\* The select loop drops full_process when the client is gone.
Notice(r) == reqAt[r] \in Watched /\ r \notin clients /\ EndRequest(r)

SlotNext ==
  \E r \in Requests :
    \/ Arrive(r) \/ HangUp(r) \/ GetFast(r) \/ GetHeavy(r) \/ FallBack(r) \/ Finish(r) \/ Notice(r)
    \/ \E path \in Paths : Sort(r, path)

\* The runtime serves the requests; what they run may hang for ever.
SlotFairness ==
  /\ WF_slotVars(\E r \in Requests : GetFast(r))
  /\ WF_slotVars(\E r \in Requests : GetHeavy(r))
  /\ WF_slotVars(\E r \in Requests, path \in Paths : Sort(r, path))
  /\ WF_slotVars(\E r \in Requests : Notice(r))

SlotSpec == SlotInit /\ [][SlotNext]_slotVars /\ SlotFairness

-----------------------------------------------------------------------------
(* A request whose client has left gives its slots back, also one that waits  *)
(* for a heavy slot behind pipelines that never end, or whose own pipeline    *)
(* hangs (main.rs:21982).  Commands are not watched: they keep their slot.   *)
AbandonedEnds ==
  \A r \in Requests : (reqAt[r] \in Watched /\ r \notin clients) ~> reqAt[r] = "done"

(* "Each waiter queues until a slot is free - no request is dropped"          *)
(* (main.rs:87): if nothing that runs hangs, every request comes to its end,   *)
(* though complex ones hold a fast slot while they wait for a heavy one.     *)
EveryRequestServed ==
  (\A r \in Requests : []<>(reqAt[r] \notin {"commands", "fastpath", "pipeline"}))
    => \A r \in Requests : reqAt[r] = "queued" ~> reqAt[r] = "done"

(* A request ends one way or the other, and its slots serve those behind it:  *)
(* also when its client has left, waits in the queue, or its pipeline hangs. *)
RequestsEnd == AbandonedEnds /\ EveryRequestServed
=============================================================================
