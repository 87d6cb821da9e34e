-------------------------- MODULE CancellationTree --------------------------
(***************************************************************************)
(* HierarchicalCancellationToken: a token is cancelled by its own flag or by *)
(* the tokio token it wraps, whose tree mirrors the tree of tokens.  cancel *)
(* stores the flag, cancels the tokio subtree and then calls cancel on the   *)
(* registered children; a child links, checks its parent twice and registers *)
(* in four steps, and may be detached.  Timeouts and drop guards are calls  *)
(* of cancel by a thread of their own.                                      *)
(***************************************************************************)
EXTENDS Integers, FiniteSets

CONSTANTS
  Tokens, Root,  \* the tokens that may exist, and the one new_root made
  Threads        \* callers of cancel

ASSUME TreeAssumption == Root \in Tokens

VARIABLES
  anc,       \* the tokens above a token and itself; {} before it is linked
  making,    \* how far child_token_with_name is: "no", "linked", "checked", "flagged", "made"
  flag,      \* the tokens with is_cancelled stored
  tokio,     \* the tokens whose tokio token is cancelled
  children,  \* the registry of each token
  frames,    \* the tokens a thread's nested calls of cancel are for
  stage,     \* where the innermost call is: "idle", "store", "tokio", "iterate"
  seen,      \* the children a thread's calls have visited
  due,       \* the children registered when their parent's iteration began
  asked,     \* history: the tokens on which somebody called cancel
  late       \* history: the tokens begun when their parent read cancelled

treeVars == <<anc, making, flag, tokio, children, frames, stage, seen, due, asked, late>>

Cancelled(t) == t \in flag \/ t \in tokio      \* is_cancelled()
Below(t) == {d \in Tokens : t \in anc[d]}      \* t and its descendants

TreeInit ==
  /\ anc = [t \in Tokens |-> IF t = Root THEN {Root} ELSE {}]
  /\ making = [t \in Tokens |-> IF t = Root THEN "made" ELSE "no"]
  /\ flag = {} /\ tokio = {} /\ asked = {} /\ late = {}
  /\ children = [t \in Tokens |-> {}]
  /\ frames = [h \in Threads |-> {}]
  /\ stage = [h \in Threads |-> "idle"]
  /\ seen = [h \in Threads |-> {}]
  /\ due = [h \in Threads |-> {}]

-----------------------------------------------------------------------------
(* child_token_with_name.                                                  *)

\* tokio's child_token: cancelled from birth if its parent is.
LinkChild(p, c) ==
  /\ making[p] = "made" /\ making[c] = "no"
  /\ anc' = [anc EXCEPT ![c] = anc[p] \cup {c}]
  /\ tokio' = IF p \in tokio THEN tokio \cup {c} ELSE tokio
  /\ late' = IF Cancelled(p) THEN late \cup {c} ELSE late
  /\ making' = [making EXCEPT ![c] = "linked"]
  /\ UNCHANGED <<flag, children, frames, stage, seen, due, asked>>

ParentOf(c) == CHOOSE p \in anc[c] \ {c} : anc[p] = anc[c] \ {c}

\* Mutant: only the parent's tokio token is asked, not its flag.
MutParentReads(c) == ParentOf(c) \in tokio

\* The parent is asked twice, for the child's tokio token and for its flag.
ParentReads(c) == Cancelled(ParentOf(c))

CheckParent(c) ==
  /\ making[c] = "linked"
  /\ tokio' = IF ParentReads(c) THEN tokio \cup {c} ELSE tokio
  /\ making' = [making EXCEPT ![c] = "checked"]
  /\ UNCHANGED <<anc, flag, children, frames, stage, seen, due, asked, late>>

CopyFlag(c) ==
  /\ making[c] = "checked"
  /\ flag' = IF ParentReads(c) THEN flag \cup {c} ELSE flag
  /\ making' = [making EXCEPT ![c] = "flagged"]
  /\ UNCHANGED <<anc, tokio, children, frames, stage, seen, due, asked, late>>

Register(c) ==
  /\ making[c] = "flagged"
  /\ children' = [children EXCEPT ![ParentOf(c)] = @ \cup {c}]
  /\ making' = [making EXCEPT ![c] = "made"]
  /\ UNCHANGED <<anc, flag, tokio, frames, stage, seen, due, asked, late>>

DetachChild(p, c) ==
  /\ c \in children[p]
  /\ children' = [children EXCEPT ![p] = @ \ {c}]
  /\ UNCHANGED <<anc, making, flag, tokio, frames, stage, seen, due, asked, late>>

-----------------------------------------------------------------------------
(* cancel.                                                                 *)

Innermost(h, t) == t \in frames[h] /\ \A d \in frames[h] : t \in anc[d] => d = t

CallCancel(h, t) ==
  /\ stage[h] = "idle" /\ making[t] = "made"
  /\ asked' = asked \cup {t}
  /\ frames' = [frames EXCEPT ![h] = {t}]
  /\ stage' = [stage EXCEPT ![h] = "store"]
  /\ UNCHANGED <<anc, making, flag, tokio, children, seen, due, late>>

StoreFlag(h, t) ==
  /\ stage[h] = "store" /\ Innermost(h, t)
  /\ flag' = flag \cup {t}
  /\ stage' = [stage EXCEPT ![h] = "tokio"]
  /\ UNCHANGED <<anc, making, tokio, children, frames, seen, due, asked, late>>

CancelTokio(h, t) ==
  /\ stage[h] = "tokio" /\ Innermost(h, t)
  /\ tokio' = tokio \cup Below(t)
  /\ due' = [due EXCEPT ![h] = @ \cup children[t]]
  /\ stage' = [stage EXCEPT ![h] = "iterate"]
  /\ UNCHANGED <<anc, making, flag, children, frames, seen, asked, late>>

\* A child registered or detached meanwhile may or may not be visited.
VisitChild(h, t, c) ==
  /\ stage[h] = "iterate" /\ Innermost(h, t)
  /\ c \in children[t] \ seen[h]
  /\ frames' = [frames EXCEPT ![h] = @ \cup {c}]
  /\ seen' = [seen EXCEPT ![h] = @ \cup {c}]
  /\ stage' = [stage EXCEPT ![h] = "store"]
  /\ UNCHANGED <<anc, making, flag, tokio, children, due, asked, late>>

Return(h, t) ==
  /\ stage[h] = "iterate" /\ Innermost(h, t)
  /\ due[h] \cap children[t] \subseteq seen[h]
  /\ frames' = [frames EXCEPT ![h] = @ \ {t}]
  /\ IF frames'[h] = {}
     THEN /\ stage' = [stage EXCEPT ![h] = "idle"]
          /\ seen' = [seen EXCEPT ![h] = {}] /\ due' = [due EXCEPT ![h] = {}]
     ELSE UNCHANGED <<stage, seen, due>>
  /\ UNCHANGED <<anc, making, flag, tokio, children, asked, late>>

-----------------------------------------------------------------------------
TreeNext ==
  \/ \E p, c \in Tokens : LinkChild(p, c) \/ DetachChild(p, c)
  \/ \E c \in Tokens : CheckParent(c) \/ CopyFlag(c) \/ Register(c)
  \/ \E h \in Threads, t \in Tokens :
       \/ CallCancel(h, t) \/ StoreFlag(h, t) \/ CancelTokio(h, t) \/ Return(h, t)
       \/ \E c \in Tokens : VisitChild(h, t, c)

TreeSpec == TreeInit /\ [][TreeNext]_treeVars

-----------------------------------------------------------------------------
(* Properties.                                                             *)

TreeTypeOK ==
  /\ anc \in [Tokens -> SUBSET Tokens]
  /\ making \in [Tokens -> {"no", "linked", "checked", "flagged", "made"}]
  /\ flag \subseteq Tokens /\ tokio \subseteq Tokens /\ asked \subseteq Tokens
  /\ late \subseteq Tokens
  /\ children \in [Tokens -> SUBSET Tokens]
  /\ frames \in [Threads -> SUBSET Tokens]
  /\ stage \in [Threads -> {"idle", "store", "tokio", "iterate"}]
  /\ seen \in [Threads -> SUBSET Tokens] /\ due \in [Threads -> SUBSET Tokens]

(* No descendant escapes: when the tokio token of t is cancelled its whole   *)
(* subtree reads cancelled, also the children that are still being made,     *)
(* that register behind the iteration or that were detached before it        *)
(* (cancellation.rs:109-144).                                               *)
NoDescendantEscapes ==
  \A t, d \in Tokens : t \in tokio /\ t \in anc[d] => Cancelled(d)

(* cancel() does not return before its token and all descendants read       *)
(* cancelled: what was asked for and is no longer under way has happened.   *)
CancelIsDone ==
  \A t \in asked : (\A h \in Threads : t \notin frames[h]) => \A d \in Below(t) : Cancelled(d)

(* A child asked for once its parent reads cancelled is handed out cancelled, *)
(* also in the middle of cancel, when the flag is stored and the tokio token  *)
(* not yet cancelled (cancellation.rs:111-112, 128-138).                     *)
BornCancelled == \A c \in late : making[c] = "made" => Cancelled(c)

(* "Cancelling a child token does NOT affect its parent or siblings"         *)
(* (cancellation.rs:46): a token reads cancelled only if cancel was called  *)
(* on it or on a token above it.                                           *)
OnlyFromAbove ==
  \A d \in Tokens : Cancelled(d) => anc[d] \cap asked # {}

(* A token that reads cancelled reads so for ever.                          *)
CancelledForGood ==
  [][\A t \in Tokens : Cancelled(t) => Cancelled(t)']_treeVars

(* A cancellation reaches the whole subtree by the time it has returned, also *)
(* the children made meanwhile, and nothing else.                           *)
TreeConsistent ==
  TreeTypeOK /\ NoDescendantEscapes /\ CancelIsDone /\ BornCancelled /\ OnlyFromAbove
=============================================================================
