----------------------------- MODULE GhostText -----------------------------
(***************************************************************************)
(* Inline completions of the IDE (autocomplete/speculativeGhostText.ts).     *)
(* provideInlineCompletionItems waits for a pause in the typing, asks the    *)
(* engine, then Ollama, then a heuristic, and shows what passes validation.  *)
(* The requests of one provider share one abort controller.                  *)
(*                                                                         *)
(* JavaScript runs a handler up to its next await without interruption, so   *)
(* an action is the code between two awaits.  A completion may be dropped    *)
(* because it is empty, malformed or late; what decides that is left open.   *)
(***************************************************************************)
EXTENDS Integers, FiniteSets

CONSTANTS
  Typings,   \* the requests VS Code makes, one per pause or keystroke
  Nobody     \* _activeAbortController is null

ASSUME GhostAssumption == Nobody \notin Typings

VARIABLES
  ghost,     \* what each request awaits
  withdrawn, \* the requests whose cancellation token is set
  aborted,   \* the requests whose controller is aborted
  current,   \* the request whose controller is _activeAbortController
  disposed,  \* _disposed
  outdated,  \* history: fetches a later fetch or a dispose found under way
  atDispose  \* history: requests that were under way when the provider was disposed

ghostVars == <<ghost, withdrawn, aborted, current, disposed, outdated, atDispose>>

GhostInit ==
  /\ ghost = [r \in Typings |-> "none"]
  /\ withdrawn = {} /\ aborted = {} /\ current = Nobody /\ disposed = FALSE
  /\ outdated = {} /\ atDispose = {}

Fetching == {r \in Typings : ghost[r] \in {"engine", "ollama"}}
Pending == Fetching \cup {r \in Typings : ghost[r] = "pause"}

-----------------------------------------------------------------------------
(* VS Code asks; a disposed provider and a token already set answer nothing.  *)
Provide(r) ==
  /\ ghost[r] = "none"
  /\ ghost' = [ghost EXCEPT ![r] = IF disposed \/ r \in withdrawn THEN "empty" ELSE "pause"]
  /\ UNCHANGED <<withdrawn, aborted, current, disposed, outdated, atDispose>>

(* abort() on the shared controller, whoever's request made it.             *)
AbortCurrent == aborted' = aborted \cup ({current} \ {Nobody})

(* VS Code gives a request up.  During the pause that ends the request; a    *)
(* request that fetches has registered a callback, which aborts.             *)
Withdraw(r) ==
  /\ ghost[r] = "none" \/ r \in Pending
  /\ r \notin withdrawn
  /\ withdrawn' = withdrawn \cup {r}
  /\ ghost' = IF ghost[r] = "pause" THEN [ghost EXCEPT ![r] = "empty"] ELSE ghost
  /\ IF r \in Fetching THEN AbortCurrent ELSE UNCHANGED aborted
  /\ UNCHANGED <<current, disposed, outdated, atDispose>>

(* Mutant: the previous fetch is left alone.                                 *)
MutBeginFetch(r) ==
  /\ ghost[r] = "pause"
  /\ current' = r
  /\ ghost' = [ghost EXCEPT ![r] = "engine"]
  /\ outdated' = outdated \cup Fetching
  /\ UNCHANGED <<aborted, withdrawn, disposed, atDispose>>

(* The pause is over: the request aborts the controller it finds and puts    *)
(* its own in its place.  A dispose is not looked for again.                 *)
BeginFetch(r) ==
  /\ ghost[r] = "pause"
  /\ AbortCurrent
  /\ current' = r
  /\ ghost' = [ghost EXCEPT ![r] = "engine"]
  /\ outdated' = outdated \cup Fetching
  /\ UNCHANGED <<withdrawn, disposed, atDispose>>

(* The engine's post fails, times out or says nothing.                       *)
EngineFails(r) ==
  /\ ghost[r] = "engine" /\ r \notin aborted
  /\ ghost' = [ghost EXCEPT ![r] = "ollama"]
  /\ UNCHANGED <<withdrawn, aborted, current, disposed, outdated, atDispose>>

(* A text is there, the heuristic's if both posts failed.                    *)
Answer(r) ==
  /\ r \in Fetching \ (aborted \cup withdrawn)
  /\ \E outcome \in {"shown", "empty"} : ghost' = [ghost EXCEPT ![r] = outcome]
  /\ UNCHANGED <<withdrawn, aborted, current, disposed, outdated, atDispose>>

(* The post was rejected by the abort, or its answer is of no use any more.   *)
StopFetch(r) ==
  /\ r \in Fetching \cap (aborted \cup withdrawn)
  /\ ghost' = [ghost EXCEPT ![r] = "empty"]
  /\ UNCHANGED <<withdrawn, aborted, current, disposed, outdated, atDispose>>

(* The extension goes.  _debounceTimer is never set, so that pauses go on.   *)
Dispose ==
  /\ ~disposed
  /\ disposed' = TRUE
  /\ AbortCurrent
  /\ current' = Nobody
  /\ outdated' = outdated \cup Fetching
  /\ atDispose' = {r \in Typings : ghost[r] # "none"}
  /\ UNCHANGED <<ghost, withdrawn>>

GhostNext ==
  \/ Dispose
  \/ \E r \in Typings :
       Provide(r) \/ Withdraw(r) \/ BeginFetch(r) \/ EngineFails(r) \/ Answer(r) \/ StopFetch(r)

GhostSpec == GhostInit /\ [][GhostNext]_ghostVars

-----------------------------------------------------------------------------
GhostTypeOK ==
  /\ ghost \in [Typings -> {"none", "pause", "engine", "ollama", "shown", "empty"}]
  /\ withdrawn \subseteq Typings /\ aborted \subseteq Typings
  /\ current \in Typings \cup {Nobody} /\ disposed \in BOOLEAN
  /\ outdated \subseteq Typings /\ atDispose \subseteq Typings

(* At any time at most one fetch goes on that has not been told to stop: the  *)
(* models are not asked for two completions at once.                        *)
OneLiveFetch == Cardinality(Fetching \ aborted) <= 1

(* Although requests share the controller, a fetch that VS Code gave up, that *)
(* a later one overtook or that the provider's end found under way has been   *)
(* told to stop, and what is shown is of no such fetch.                      *)
StaleIsAborted ==
  /\ Fetching \cap (withdrawn \cup outdated) \subseteq aborted
  /\ \A r \in Typings : ghost[r] = "shown" => r \notin withdrawn \cup outdated

(* A disposed provider shows only for requests made before its end: those     *)
(* whose pause was not over, which nothing stops.                           *)
OnlyPausesOutliveDispose ==
  disposed => (Fetching \ aborted) \subseteq atDispose

(* Completions are shown for the newest fetch only,                          *)
(* whatever the order of pauses, answers, cancellations and the dispose.      *)
CompletionIsCurrent ==
  /\ GhostTypeOK /\ OneLiveFetch /\ StaleIsAborted /\ OnlyPausesOutliveDispose
=============================================================================
