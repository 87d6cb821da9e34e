------------------------- MODULE HostDataProofs -------------------------
(***************************************************************************)
(* Theorems about the parts of the host that keep data: the cancellation   *)
(* tree, the conversation log, ghost text, the model catalogue and those   *)
(* named below, for every value of their constants.                        *)
(***************************************************************************)
EXTENDS CancellationTree, ConversationMemory, GhostText, ModelCatalog,
          PagedKvCache, CodeGraph, FusionPipeline, FiniteSetTheorems,
          WellFoundedInduction, SequenceTheorems, TLAPS

-----------------------------------------------------------------------------
(* The cancellation tree.                                                  *)

(* The shape of the tree: ancestors are closed upwards, only a finished     *)
(* token has descendants, and registered children lie below their parent.   *)
Shape ==
  /\ anc[Root] = {Root} /\ making[Root] = "made"
  /\ \A d, t, u \in Tokens : t \in anc[d] /\ u \in anc[t] => u \in anc[d]
  /\ \A t, u \in Tokens : t \in anc[u] /\ u \in anc[t] => t = u
  /\ \A d, t \in Tokens : t \in anc[d] /\ t # d => making[t] = "made" /\ making[d] # "no"
  /\ \A d \in Tokens : making[d] # "no" => d \in anc[d]
  /\ \A d \in Tokens : making[d] = "no" => anc[d] = {}
  /\ \A c \in Tokens : making[c] # "no" /\ c # Root =>
       \E p \in anc[c] \ {c} : anc[p] = anc[c] \ {c}
  /\ \A t, c \in Tokens : c \in children[t] => t \in anc[c] /\ c # t /\ making[c] = "made"

(* What is cancelled: tokio's tree downwards closed, everything from above.  *)
Marked ==
  /\ \A t, d \in Tokens : t \in tokio /\ t \in anc[d] => d \in tokio
  /\ \A d \in Tokens : Cancelled(d) => anc[d] \cap asked # {}

(* The nested calls of a thread: a chain of finished tokens below one that  *)
(* was asked for, all but the innermost past their tokio step.              *)
Calls ==
  /\ \A h \in Threads : stage[h] = "idle" => frames[h] = {}
  /\ \A h \in Threads, t, d \in Tokens :
       t \in frames[h] /\ d \in frames[h] => t \in anc[d] \/ d \in anc[t]
  /\ \A h \in Threads, t \in Tokens :
       t \in frames[h] => making[t] = "made" /\ anc[t] \cap asked # {}
  /\ \A h \in Threads : stage[h] = "iterate" => frames[h] \subseteq tokio
  /\ \A h \in Threads, t \in Tokens : t \in frames[h] => t \in tokio \/ Innermost(h, t)
  /\ \A t \in asked : making[t] = "made" /\ (t \in tokio \/ \E h \in Threads : t \in frames[h])

(* A child begun under a cancelled parent is cancelled as soon as the parent *)
(* has been asked once.                                                    *)
Late ==
  \A c \in late :
    /\ c # Root /\ making[c] # "no"
    /\ making[c] = "linked" =>
         \A p \in anc[c] \ {c} : anc[p] = anc[c] \ {c} => Cancelled(p)
    /\ making[c] # "linked" => Cancelled(c)

TreeInv == TreeTypeOK /\ Shape /\ Marked /\ Calls /\ Late

LEMMA TreeInitInv == TreeInit => TreeInv
BY TreeAssumption DEF TreeInit, TreeInv, TreeTypeOK, Shape, Marked, Calls, Late, Cancelled, Innermost

(* The parent of a token in the making is one of its ancestors.             *)
LEMMA ParentIsAbove ==
  ASSUME TreeInv, NEW c \in Tokens, making[c] \notin {"no", "made"}
  PROVE  ParentOf(c) \in anc[c] \ {c} /\ anc[ParentOf(c)] = anc[c] \ {c} /\ ParentOf(c) \in Tokens
<1>1. c # Root
  BY DEF TreeInv, Shape
<1>2. \E p \in anc[c] \ {c} : anc[p] = anc[c] \ {c}
  BY <1>1 DEF TreeInv, Shape
<1>3. ParentOf(c) \in anc[c] \ {c} /\ anc[ParentOf(c)] = anc[c] \ {c}
  BY <1>2 DEF ParentOf
<1> QED BY <1>3 DEF TreeInv, TreeTypeOK

LEMMA LinkChildInv ==
  ASSUME TreeInv, NEW p \in Tokens, NEW c \in Tokens, LinkChild(p, c)
  PROVE  TreeInv'
<1> USE TreeAssumption DEF TreeInv, LinkChild
<1>1. TreeTypeOK'
  BY DEF TreeTypeOK
<1>2. Shape'
  <2>1. /\ anc'[c] = anc[p] \cup {c} /\ making'[c] = "linked" /\ making[c] = "no" /\ c # p
        /\ \A d \in Tokens \ {c} : anc'[d] = anc[d] /\ making'[d] = making[d]
        /\ making[p] = "made" /\ UNCHANGED children /\ anc[p] \subseteq Tokens
    BY DEF TreeTypeOK
  <2>2. \A d \in Tokens : c \notin anc[d]
    BY DEF Shape
  <2>3. anc'[Root] = {Root} /\ making'[Root] = "made"
    BY <2>1 DEF Shape
  <2> HIDE DEF LinkChild
  <2>4. \A d, t, u \in Tokens : t \in anc'[d] /\ u \in anc'[t] => u \in anc'[d]
    BY <2>1, <2>2 DEF Shape
  <2>5. \A t, u \in Tokens : t \in anc'[u] /\ u \in anc'[t] => t = u
    BY <2>1, <2>2 DEF Shape
  <2>6. \A d, t \in Tokens : t \in anc'[d] /\ t # d => making'[t] = "made" /\ making'[d] # "no"
    BY <2>1, <2>2 DEF Shape
  <2>7. \A d \in Tokens : making'[d] # "no" /\ d # Root =>
          \E q \in anc'[d] \ {d} : anc'[q] = anc'[d] \ {d}
    <3>1. p \in anc'[c] \ {c} /\ anc'[p] = anc'[c] \ {c}
      BY <2>1, <2>2 DEF Shape
    <3>2. ASSUME NEW d \in Tokens \ {c}, making'[d] # "no", d # Root
          PROVE  \E q \in anc'[d] \ {d} : anc'[q] = anc'[d] \ {d}
      <4>1. PICK q \in anc[d] \ {d} : anc[q] = anc[d] \ {d}
        BY <2>1, <3>2 DEF Shape
      <4>2. q \in Tokens /\ q # c
        BY <2>2, <4>1 DEF TreeTypeOK
      <4> QED BY <2>1, <4>1, <4>2
    <3> QED BY <3>1, <3>2
  <2> QED BY <2>1, <2>2, <2>3, <2>4, <2>5, <2>6, <2>7 DEF Shape
<1>3. Marked'
  BY DEF TreeTypeOK, Shape, Marked, Cancelled
<1>4. Calls'
  BY DEF TreeTypeOK, Shape, Calls, Innermost
<1>5. Late'
  BY DEF TreeTypeOK, Shape, Late, Cancelled
<1> QED BY <1>1, <1>2, <1>3, <1>4, <1>5

LEMMA CheckParentInv ==
  ASSUME TreeInv, NEW c \in Tokens, CheckParent(c)
  PROVE  TreeInv'
<1> USE TreeAssumption DEF TreeInv, CheckParent
<1>1. TreeTypeOK'
  BY DEF TreeTypeOK
<1>2. Shape'
  BY ParentIsAbove DEF TreeTypeOK, Shape
<1>3. /\ ParentOf(c) \in anc[c] \ {c} /\ anc[ParentOf(c)] = anc[c] \ {c}
      /\ ParentOf(c) \in Tokens /\ making[c] = "linked"
      /\ tokio' = IF Cancelled(ParentOf(c)) THEN tokio \cup {c} ELSE tokio
      /\ UNCHANGED <<anc, flag, asked, late>>
  BY ParentIsAbove DEF ParentReads
<1>4. Marked'
  <2>1. \A d \in Tokens : c \in anc[d] => d = c
    BY <1>3 DEF Shape
  <2>2. \A t, d \in Tokens : t \in tokio' /\ t \in anc'[d] => d \in tokio'
    BY <1>3, <2>1 DEF Marked
  <2>3. Cancelled(ParentOf(c)) => anc[c] \cap asked # {}
    BY <1>3 DEF Marked
  <2>4. \A d \in Tokens : Cancelled(d)' => anc'[d] \cap asked' # {}
    BY <1>3, <2>3 DEF Marked, Cancelled
  <2> QED BY <2>2, <2>4 DEF Marked
<1>5. Calls'
  BY ParentIsAbove DEF TreeTypeOK, Shape, Calls, Innermost, ParentReads
<1>6. Late'
  <2>1. making' = [making EXCEPT ![c] = "checked"] /\ c \in DOMAIN making
    BY DEF TreeTypeOK
  <2>2. \A d \in Tokens : d # c => making'[d] = making[d]
    BY <2>1
  <2>3. c \in late => Cancelled(c)'
    BY <1>3 DEF Late, Cancelled
  <2>4. \A d \in Tokens : Cancelled(d) => Cancelled(d)'
    BY <1>3 DEF Cancelled
  <2> QED BY <1>3, <2>1, <2>2, <2>3, <2>4 DEF Late, TreeTypeOK
<1> QED BY <1>1, <1>2, <1>4, <1>5, <1>6

LEMMA CopyFlagInv ==
  ASSUME TreeInv, NEW c \in Tokens, CopyFlag(c)
  PROVE  TreeInv'
<1> USE TreeAssumption DEF TreeInv, CopyFlag, ParentReads
<1>1. TreeTypeOK'
  BY DEF TreeTypeOK
<1>2. Shape'
  BY ParentIsAbove DEF TreeTypeOK, Shape
<1>3. Marked'
  <2>1. /\ ParentOf(c) \in anc[c] /\ anc[ParentOf(c)] \subseteq anc[c] /\ ParentOf(c) \in Tokens
        /\ UNCHANGED <<anc, tokio, asked>>
    BY ParentIsAbove
  <2>2. \A t, d \in Tokens : t \in tokio' /\ t \in anc'[d] => d \in tokio'
    BY <2>1 DEF Marked
  <2>3. Cancelled(ParentOf(c)) => anc[c] \cap asked # {}
    BY <2>1 DEF Marked
  <2>4. \A d \in Tokens : Cancelled(d)' => anc'[d] \cap asked' # {}
    BY <2>1, <2>3 DEF Marked, Cancelled
  <2> QED BY <2>2, <2>4 DEF Marked
<1>4. Calls'
  BY ParentIsAbove DEF TreeTypeOK, Shape, Calls, Innermost
<1>5. Late'
  BY ParentIsAbove DEF TreeTypeOK, Shape, Late, Cancelled
<1> QED BY <1>1, <1>2, <1>3, <1>4, <1>5

LEMMA RegisterInv ==
  ASSUME TreeInv, NEW c \in Tokens, Register(c)
  PROVE  TreeInv'
<1> USE TreeAssumption DEF TreeInv, Register
<1>1. TreeTypeOK'
  BY DEF TreeTypeOK
<1>2. Shape'
  <2>1. /\ ParentOf(c) \in anc[c] \ {c} /\ ParentOf(c) \in Tokens
        /\ anc' = anc /\ making' = [making EXCEPT ![c] = "made"] /\ making[c] = "flagged"
        /\ children' = [children EXCEPT ![ParentOf(c)] = @ \cup {c}]
    BY ParentIsAbove
  <2>2. /\ making'[c] = "made" /\ \A d \in Tokens : d # c => making'[d] = making[d]
        /\ \A t, d \in Tokens : d \in children'[t] => d \in children[t] \/ (t = ParentOf(c) /\ d = c)
    BY <2>1 DEF TreeTypeOK
  <2> HIDE DEF Register
  <2> QED BY <2>1, <2>2 DEF Shape
<1>3. Marked'
  BY ParentIsAbove DEF TreeTypeOK, Shape, Marked, Cancelled
<1>4. Calls'
  BY ParentIsAbove DEF TreeTypeOK, Shape, Calls, Innermost
<1>5. Late'
  BY DEF TreeTypeOK, Late, Cancelled
<1> QED BY <1>1, <1>2, <1>3, <1>4, <1>5

LEMMA DetachChildInv ==
  ASSUME TreeInv, NEW p \in Tokens, NEW c \in Tokens, DetachChild(p, c)
  PROVE  TreeInv'
<1> USE TreeAssumption DEF TreeInv, DetachChild
<1>1. TreeTypeOK'
  BY DEF TreeTypeOK
<1>2. Shape'
  <2>1. /\ anc' = anc /\ making' = making
        /\ \A t, d \in Tokens : d \in children'[t] => d \in children[t]
    BY DEF TreeTypeOK
  <2> HIDE DEF DetachChild
  <2> QED BY <2>1 DEF Shape
<1>3. Marked'
  BY DEF TreeTypeOK, Shape, Marked, Cancelled
<1>4. Calls'
  BY DEF TreeTypeOK, Shape, Calls, Innermost
<1>5. Late'
  BY DEF TreeTypeOK, Late, Cancelled
<1> QED BY <1>1, <1>2, <1>3, <1>4, <1>5

LEMMA CallCancelInv ==
  ASSUME TreeInv, NEW h \in Threads, NEW t \in Tokens, CallCancel(h, t)
  PROVE  TreeInv'
<1> USE TreeAssumption DEF TreeInv, CallCancel
<1>1. TreeTypeOK'
  BY DEF TreeTypeOK
<1>2. Shape'
  BY DEF TreeTypeOK, Shape
<1>3. Marked'
  BY DEF TreeTypeOK, Shape, Marked, Cancelled
<1>4. Calls'
  BY DEF TreeTypeOK, Shape, Calls, Innermost
<1>5. Late'
  BY DEF TreeTypeOK, Late, Cancelled
<1> QED BY <1>1, <1>2, <1>3, <1>4, <1>5

LEMMA StoreFlagInv ==
  ASSUME TreeInv, NEW h \in Threads, NEW t \in Tokens, StoreFlag(h, t)
  PROVE  TreeInv'
<1> USE TreeAssumption DEF TreeInv, StoreFlag
<1>1. TreeTypeOK'
  BY DEF TreeTypeOK
<1>2. Shape'
  BY DEF TreeTypeOK, Shape
<1>3. Marked'
  <2>1. anc[t] \cap asked # {} /\ flag' = flag \cup {t} /\ UNCHANGED <<anc, tokio, asked>>
    BY DEF Calls, Innermost
  <2> HIDE DEF StoreFlag
  <2> QED BY <2>1 DEF Marked, Cancelled
<1>4. Calls'
  BY DEF TreeTypeOK, Shape, Calls, Innermost
<1>5. Late'
  BY DEF TreeTypeOK, Late, Cancelled
<1> QED BY <1>1, <1>2, <1>3, <1>4, <1>5

LEMMA CancelTokioInv ==
  ASSUME TreeInv, NEW h \in Threads, NEW t \in Tokens, CancelTokio(h, t)
  PROVE  TreeInv'
<1> USE TreeAssumption DEF TreeInv, CancelTokio
<1>1. TreeTypeOK'
  BY DEF TreeTypeOK, Below
<1>2. Shape'
  BY DEF TreeTypeOK, Shape
<1>3. Marked'
  <2>1. anc[t] \cap asked # {} /\ tokio' = tokio \cup Below(t) /\ UNCHANGED <<anc, flag, asked>>
    BY DEF Calls, Innermost
  <2>2. \A d, u, v \in Tokens : u \in anc[d] /\ v \in anc[u] => v \in anc[d]
    BY DEF Shape
  <2>3. anc[t] \subseteq Tokens
    BY DEF TreeTypeOK
  <2> HIDE DEF CancelTokio
  <2>4. \A u, d \in Tokens : u \in tokio' /\ u \in anc'[d] => d \in tokio'
    BY <2>1, <2>2 DEF Marked, Below
  <2>5. \A d \in Tokens : Cancelled(d)' => anc'[d] \cap asked' # {}
    BY <2>1, <2>2, <2>3 DEF Marked, Below, Cancelled
  <2> QED BY <2>4, <2>5 DEF Marked
<1>4. Calls'
  BY DEF TreeTypeOK, Shape, Calls, Innermost, Below
<1>5. Late'
  BY DEF TreeTypeOK, Late, Cancelled
<1> QED BY <1>1, <1>2, <1>3, <1>4, <1>5

LEMMA VisitChildInv ==
  ASSUME TreeInv, NEW h \in Threads, NEW t \in Tokens, NEW c \in Tokens, VisitChild(h, t, c)
  PROVE  TreeInv'
<1> USE TreeAssumption DEF TreeInv, VisitChild
<1>1. TreeTypeOK'
  BY DEF TreeTypeOK
<1>2. Shape'
  BY DEF TreeTypeOK, Shape
<1>3. Marked'
  BY DEF TreeTypeOK, Shape, Marked, Cancelled
<1>4. Calls'
  BY DEF TreeTypeOK, Shape, Calls, Innermost
<1>5. Late'
  BY DEF TreeTypeOK, Late, Cancelled
<1> QED BY <1>1, <1>2, <1>3, <1>4, <1>5

LEMMA ReturnInv ==
  ASSUME TreeInv, NEW h \in Threads, NEW t \in Tokens, Return(h, t)
  PROVE  TreeInv'
<1> USE TreeAssumption DEF TreeInv, Return
<1>1. TreeTypeOK'
  BY DEF TreeTypeOK
<1>2. Shape'
  BY DEF TreeTypeOK, Shape
<1>3. Marked'
  BY DEF TreeTypeOK, Shape, Marked, Cancelled
<1>4. Calls'
  BY DEF TreeTypeOK, Shape, Calls, Innermost
<1>5. Late'
  BY DEF TreeTypeOK, Late, Cancelled
<1> QED BY <1>1, <1>2, <1>3, <1>4, <1>5

LEMMA TreeNextInv == TreeInv /\ [TreeNext]_treeVars => TreeInv'
<1> SUFFICES ASSUME TreeInv, [TreeNext]_treeVars PROVE TreeInv'
  OBVIOUS
<1>1. ASSUME NEW p \in Tokens, NEW c \in Tokens, LinkChild(p, c) \/ DetachChild(p, c) PROVE TreeInv'
  BY <1>1, LinkChildInv, DetachChildInv
<1>2. ASSUME NEW c \in Tokens, CheckParent(c) \/ CopyFlag(c) \/ Register(c) PROVE TreeInv'
  BY <1>2, CheckParentInv, CopyFlagInv, RegisterInv
<1>3. ASSUME NEW h \in Threads, NEW t \in Tokens,
             CallCancel(h, t) \/ StoreFlag(h, t) \/ CancelTokio(h, t) \/ Return(h, t)
      PROVE  TreeInv'
  BY <1>3, CallCancelInv, StoreFlagInv, CancelTokioInv, ReturnInv
<1>4. ASSUME NEW h \in Threads, NEW t \in Tokens, NEW c \in Tokens, VisitChild(h, t, c) PROVE TreeInv'
  BY <1>4, VisitChildInv
<1>5. CASE UNCHANGED treeVars
  BY <1>5 DEF treeVars, TreeInv, TreeTypeOK, Shape, Marked, Calls, Late, Cancelled, Innermost
<1> QED BY <1>1, <1>2, <1>3, <1>4, <1>5 DEF TreeNext

THEOREM TreeInvariant == TreeSpec => []TreeInv
BY TreeInitInv, TreeNextInv, PTL DEF TreeSpec

(* Types of the cancellation tree.                                          *)
THEOREM TreeTypes == TreeSpec => []TreeTypeOK
BY TreeInvariant, PTL DEF TreeInv

(* A token below a cancelled one reads cancelled, however it was made,       *)
(* registered or detached.                                                 *)
THEOREM NobodyEscapes == TreeSpec => []NoDescendantEscapes
<1>1. TreeInv => NoDescendantEscapes
  BY DEF TreeInv, Marked, NoDescendantEscapes, Cancelled
<1> QED BY <1>1, TreeInvariant, PTL

(* When cancel has returned, its token and all below it read cancelled.     *)
THEOREM CancelDone == TreeSpec => []CancelIsDone
<1>1. TreeInv => CancelIsDone
  BY DEF TreeInv, Marked, Calls, CancelIsDone, Cancelled, Below, TreeTypeOK
<1> QED BY <1>1, TreeInvariant, PTL

(* A token is cancelled only by a call on it or above it.                   *)
THEOREM FromAbove == TreeSpec => []OnlyFromAbove
<1>1. TreeInv => OnlyFromAbove
  BY DEF TreeInv, Marked, OnlyFromAbove
<1> QED BY <1>1, TreeInvariant, PTL

(* No step takes a cancellation back.                                       *)
THEOREM ForGood == TreeSpec => CancelledForGood
<1> DEFINE Kept == \A t \in Tokens : Cancelled(t) => Cancelled(t)'
<1>1. [TreeNext]_treeVars => Kept
  BY DEF TreeNext, treeVars, Cancelled, LinkChild, CheckParent, CopyFlag, Register, DetachChild,
         CallCancel, StoreFlag, CancelTokio, VisitChild, Return
<1> QED BY <1>1, PTL DEF TreeSpec, CancelledForGood

(* A child asked for once its parent reads cancelled is handed out cancelled. *)
THEOREM AlwaysBornCancelled == TreeSpec => []BornCancelled
<1>1. TreeInv => BornCancelled
  BY DEF TreeInv, Late, BornCancelled
<1> QED BY <1>1, TreeInvariant, PTL

(* A cancellation reaches its whole subtree before it returns, nothing else. *)
THEOREM AlwaysConsistent == TreeSpec => []TreeConsistent
<1>1. TreeTypeOK /\ NoDescendantEscapes /\ CancelIsDone /\ BornCancelled /\ OnlyFromAbove => TreeConsistent
  BY DEF TreeConsistent
<1> QED BY <1>1, TreeTypes, NobodyEscapes, CancelDone, AlwaysBornCancelled, FromAbove, PTL

-----------------------------------------------------------------------------
(* The conversation log.                                                   *)

Places == {"new", "insert", "assemble", "question", "answer", "putQ", "putA", "end"}
Writing(t) == talkAt[t] \in {"putQ", "putA"}

(* A message whose append is behind its request, or will never come.        *)
Passed(m) ==
  \/ m \in {Past} \X {"user", "assistant"}
  \/ \E t \in Talks : m = <<t, "user">> /\ talkAt[t] \in {"answer", "putA", "end"}
  \/ \E t \in Talks : m = <<t, "assistant">> /\ talkAt[t] = "end"

LogTypeOK ==
  /\ talkAt \in [Talks -> Places] /\ stamp \in [Talks -> Int] /\ clock \in Int
  /\ messages \in [Rows -> Int]
  /\ session \in BOOLEAN

(* Only messages that are passed are stored or stood before another's append; *)
(* so the message an append is about to put is new to all.                  *)
OnlyPassed ==
  /\ Rows \subseteq DOMAIN earlier
  /\ \A m \in Rows : Passed(m)
  /\ \A m \in DOMAIN earlier : \A n \in earlier[m] : Passed(n)

(* The stamp an append has chosen stands behind all it found.               *)
StampIsLater ==
  \A t \in Talks : Writing(t) =>
    /\ Message(t) \in DOMAIN earlier
    /\ \A n \in earlier[Message(t)] \cap Rows : messages[n] < stamp[t]

LogInv == LogTypeOK /\ OnlyPassed /\ StampIsLater /\ AppendsInOrder /\ NoOrphans

-----------------------------------------------------------------------------
LEMMA NoEntries == DOMAIN <<>> = {}
OBVIOUS

(* What a request has not passed it writes itself, and only it.              *)
LEMMA WritesUnpassed ==
  ASSUME LogTypeOK, MemoryAssumption, NEW t \in Talks,
         talkAt[t] \in {"question", "answer", "putQ", "putA"}
  PROVE  /\ ~Passed(Message(t))
         /\ \A u \in Talks : u # t => Message(u) # Message(t)
BY DEF LogTypeOK, MemoryAssumption, Passed, Message

-----------------------------------------------------------------------------
LEMMA LogInitInv == MemoryInit /\ MemoryAssumption => LogInv
<1> SUFFICES ASSUME MemoryInit, MemoryAssumption PROVE LogInv
  OBVIOUS
<1>1. talkAt = [t \in Talks |-> "new"] /\ stamp = [t \in Talks |-> 0] /\ clock = 1
  BY DEF MemoryInit
<1>2. CASE session \in BOOLEAN /\ messages = <<>> /\ earlier = <<>>
  <2>1. Rows = {} /\ DOMAIN earlier = {}
    BY <1>2, NoEntries DEF Rows
  <2>2. messages \in [Rows -> Int]
    BY <1>2, <2>1
  <2> QED
    BY <1>1, <1>2, <2>1, <2>2
    DEF LogInv, LogTypeOK, Places, OnlyPassed, StampIsLater, Writing, AppendsInOrder, NoOrphans
<1>3. CASE ~(session \in BOOLEAN /\ messages = <<>> /\ earlier = <<>>)
  <2> DEFINE q == <<Past, "user">>  a == <<Past, "assistant">>
  <2>1. session = TRUE
    BY <1>3 DEF MemoryInit
  <2>2. q # a
    OBVIOUS
  <2>3. messages = [m \in {q, a} |-> IF m = q THEN 1 ELSE 2]
    BY <1>3 DEF MemoryInit
  <2>4. earlier = [m \in {q, a} |-> IF m = q THEN {} ELSE {q}]
    BY <1>3 DEF MemoryInit
  <2> HIDE DEF q, a
  <2>5. Rows = {q, a} /\ DOMAIN earlier = {q, a} /\ messages[q] = 1 /\ messages[a] = 2
        /\ earlier[q] = {} /\ earlier[a] = {q}
    BY <2>2, <2>3, <2>4 DEF Rows
  <2>6. Passed(q) /\ Passed(a)
    BY DEF Passed, q, a
  <2>7. LogTypeOK
    BY <1>1, <2>1, <2>3, <2>5 DEF LogTypeOK, Places
  <2>8. OnlyPassed /\ AppendsInOrder
    BY <2>5, <2>6 DEF OnlyPassed, AppendsInOrder
  <2> QED
    BY <1>1, <2>1, <2>7, <2>8 DEF LogInv, StampIsLater, Writing, NoOrphans
<1> QED
  BY <1>2, <1>3

-----------------------------------------------------------------------------
(* A request that moves on leaves nothing it has passed.                     *)
LEMMA StillPassed ==
  ASSUME LogTypeOK, NEW t \in Talks, NEW place \in Places,
         Goto(t, place),
         \/ talkAt[t] \in {"new", "insert", "assemble", "question"}
         \/ talkAt[t] = "putQ" /\ place \in {"answer", "end"}
         \/ talkAt[t] = "answer" /\ place \in {"putA", "end"}
         \/ talkAt[t] = "putA" /\ place = "end"
  PROVE  /\ talkAt' \in [Talks -> Places]
         /\ \A m : Passed(m) => Passed(m)'
         /\ \A u \in Talks : u # t => talkAt'[u] = talkAt[u]
         /\ talkAt'[t] = place
<1>1. talkAt' = [talkAt EXCEPT ![t] = place]
  BY DEF Goto
<1>2. talkAt' \in [Talks -> Places] /\ talkAt'[t] = place /\ \A u \in Talks : u # t => talkAt'[u] = talkAt[u]
  BY <1>1 DEF LogTypeOK
<1>3. ASSUME NEW m, Passed(m) PROVE Passed(m)'
  BY <1>2, <1>3 DEF Passed
<1> QED
  BY <1>2, <1>3

(* A step of a request that leaves the log alone.                            *)
LEMMA LogUntouched ==
  ASSUME LogInv, NEW t \in Talks, NEW place \in Places \ {"putQ", "putA"},
         Goto(t, place),
         \/ talkAt[t] \in {"new", "insert", "assemble", "question"}
         \/ talkAt[t] = "putQ" /\ place \in {"answer", "end"}
         \/ talkAt[t] = "answer" /\ place \in {"putA", "end"}
         \/ talkAt[t] = "putA" /\ place = "end",
         UNCHANGED <<messages, clock, stamp, earlier>>, session' \in {session, TRUE}
  PROVE  LogInv'
<1>1. /\ talkAt' \in [Talks -> Places] /\ \A m : Passed(m) => Passed(m)'
      /\ \A u \in Talks : u # t => talkAt'[u] = talkAt[u]
      /\ talkAt'[t] = place
  BY StillPassed DEF LogInv
<1>2. LogTypeOK'
  BY <1>1 DEF LogInv, LogTypeOK, Rows
<1>3. OnlyPassed'
  BY <1>1 DEF LogInv, OnlyPassed, Rows
<1>4. StampIsLater'
  <2> SUFFICES ASSUME NEW u \in Talks, Writing(u)'
               PROVE  /\ Message(u)' \in DOMAIN earlier'
                      /\ \A n \in earlier'[Message(u)'] \cap Rows' : messages'[n] < stamp'[u]
    BY DEF StampIsLater
  <2>1. u # t /\ Writing(u) /\ Message(u)' = Message(u)
    BY <1>1 DEF Writing, Message
  <2> QED
    BY <2>1 DEF LogInv, StampIsLater, Rows
<1>5. AppendsInOrder' /\ NoOrphans'
  BY DEF LogInv, AppendsInOrder, NoOrphans, Rows
<1> QED
  BY <1>2, <1>3, <1>4, <1>5 DEF LogInv

LEMMA LogStepInv == LogInv /\ MemoryAssumption /\ [MemoryNext]_memoryVars => LogInv'
<1> SUFFICES ASSUME LogInv, MemoryAssumption, [MemoryNext]_memoryVars PROVE LogInv'
  OBVIOUS
<1>1. ASSUME NEW t \in Talks, FindSession(t) PROVE LogInv'
  <2> DEFINE place == IF session THEN "assemble" ELSE "insert"
  <2>1. place \in Places \ {"putQ", "putA"}
    BY DEF Places
  <2>2. Goto(t, place) /\ talkAt[t] = "new" /\ UNCHANGED <<messages, clock, stamp, earlier, session>>
    BY <1>1 DEF FindSession
  <2> QED
    BY <2>1, <2>2, LogUntouched
<1>2. ASSUME NEW t \in Talks, InsertSession(t) PROVE LogInv'
  <2> DEFINE place == IF session THEN "end" ELSE "assemble"
  <2>1. place \in Places \ {"putQ", "putA"}
    BY DEF Places
  <2>2. /\ Goto(t, place) /\ talkAt[t] = "insert" /\ session' = TRUE
        /\ UNCHANGED <<messages, clock, stamp, earlier>>
    BY <1>2 DEF InsertSession
  <2> QED
    BY <2>1, <2>2, LogUntouched
<1>3. ASSUME NEW t \in Talks, AssembleContext(t) PROVE LogInv'
  <2>1. Goto(t, "question") /\ talkAt[t] = "assemble" /\ UNCHANGED <<messages, clock, stamp, earlier, session>>
    BY <1>3 DEF AssembleContext
  <2> QED
    BY <2>1, LogUntouched DEF Places
<1>4. ASSUME NEW t \in Talks, ReadFails(t) PROVE LogInv'
  <2>1. UNCHANGED <<messages, clock, stamp, earlier, session>>
    BY <1>4 DEF ReadFails
  <2>2. CASE talkAt[t] \in {"new", "insert"} /\ Goto(t, "end")
    BY <2>1, <2>2, LogUntouched DEF Places
  <2>3. CASE talkAt[t] = "assemble" /\ Goto(t, "question")
    BY <2>1, <2>3, LogUntouched DEF Places
  <2> QED
    BY <1>4, <2>2, <2>3 DEF ReadFails
<1>5. ASSUME NEW t \in Talks, ReadNewest(t) PROVE LogInv'
  <2> DEFINE place == IF talkAt[t] = "question" THEN "putQ" ELSE "putA"
             m == Message(t)
  <2>1. talkAt[t] \in {"question", "answer"} /\ Goto(t, place) /\ place \in Places
    BY <1>5 DEF ReadNewest, Places
  <2>2. /\ talkAt' \in [Talks -> Places] /\ \A n : Passed(n) => Passed(n)'
        /\ \A u \in Talks : u # t => talkAt'[u] = talkAt[u]
        /\ talkAt'[t] = place
    <3>1. \/ talkAt[t] \in {"new", "insert", "assemble", "question"}
          \/ talkAt[t] = "answer" /\ place \in {"putA", "end"}
      BY <2>1
    <3> HIDE DEF place
    <3> QED
      BY <2>1, <3>1, StillPassed DEF LogInv
  <2>3. UNCHANGED <<session, messages, clock>> /\ Rows' = Rows /\ earlier' = WithEntry(earlier, m, Rows)
    BY <1>5 DEF ReadNewest, Rows
  <2>4. PICK now \in {clock} \cup {s + 1 : s \in Stamps(Rows)} :
          /\ now >= clock /\ \A s \in Stamps(Rows) : now > s
          /\ stamp' = [stamp EXCEPT ![t] = now]
    BY <1>5 DEF ReadNewest
  <2>5. now \in Int /\ \A n \in Rows : messages[n] < now
    <3>1. clock \in Int /\ \A n \in Rows : messages[n] \in Int
      BY DEF LogInv, LogTypeOK
    <3>2. \A s \in Stamps(Rows) : s \in Int
      BY <3>1 DEF Stamps
    <3>3. now \in Int
      BY <2>4, <3>1, <3>2
    <3>4. \A n \in Rows : messages[n] \in Stamps(Rows)
      BY DEF Stamps
    <3> QED
      BY <2>4, <3>1, <3>2, <3>3, <3>4
  <2>6. /\ stamp' \in [Talks -> Int] /\ stamp'[t] = now
        /\ \A u \in Talks : u # t => stamp'[u] = stamp[u]
    BY <2>4, <2>5 DEF LogInv, LogTypeOK
  <2>7. ~Passed(m) /\ \A u \in Talks : u # t => Message(u) # m
    BY <2>1, WritesUnpassed DEF LogInv
  <2> HIDE DEF m
  <2>8. /\ DOMAIN earlier' = {m} \cup DOMAIN earlier /\ earlier'[m] = Rows
        /\ \A n \in DOMAIN earlier : n # m => earlier'[n] = earlier[n]
    BY <2>3 DEF WithEntry
  <2>9. LogTypeOK'
    BY <2>2, <2>3, <2>6 DEF LogInv, LogTypeOK
  <2>10. OnlyPassed'
    BY <2>2, <2>3, <2>8 DEF LogInv, OnlyPassed
  <2>11. m \notin Rows
    BY <2>7 DEF LogInv, OnlyPassed
  <2>12. AppendsInOrder' /\ NoOrphans'
    <3>1. \A n \in Rows : earlier'[n] = earlier[n]
      BY <2>8, <2>11 DEF LogInv, OnlyPassed
    <3> QED
      BY <2>3, <3>1 DEF LogInv, AppendsInOrder, NoOrphans
  <2>13. StampIsLater'
    <3> SUFFICES ASSUME NEW u \in Talks, Writing(u)'
                 PROVE  /\ Message(u)' \in DOMAIN earlier'
                        /\ \A n \in earlier'[Message(u)'] \cap Rows' : messages'[n] < stamp'[u]
      BY DEF StampIsLater
    <3>1. CASE u = t
      <4>1. Message(t)' = m
        BY <2>1, <2>2 DEF Message, m
      <4> QED
        BY <3>1, <4>1, <2>3, <2>5, <2>6, <2>8
    <3>2. CASE u # t
      <4>1. Writing(u) /\ Message(u)' = Message(u) /\ Message(u) # m /\ stamp'[u] = stamp[u]
        BY <3>2, <2>2, <2>6, <2>7 DEF Writing, Message
      <4> QED
        BY <4>1, <2>3, <2>8 DEF LogInv, StampIsLater
    <3> QED
      BY <3>1, <3>2
  <2> QED
    BY <2>9, <2>10, <2>12, <2>13 DEF LogInv
<1>6. ASSUME NEW t \in Talks, PutMessage(t) PROVE LogInv'
  <2> DEFINE m == Message(t)
             place == IF talkAt[t] \in {"question", "putQ"} THEN "answer" ELSE "end"
  <2>1. talkAt[t] \in {"putQ", "putA"} /\ Goto(t, place) /\ place \in Places \ {"putQ", "putA"}
        /\ UNCHANGED <<session, clock, stamp, earlier>>
    BY <1>6 DEF PutMessage, AfterAppend, Places
  <2>2. \/ talkAt[t] = "putQ" /\ place \in {"answer", "end"}
        \/ talkAt[t] = "putA" /\ place = "end"
    BY <2>1
  <2>3. CASE ~session
    <3>1. messages' = messages
      BY <1>6, <2>3 DEF PutMessage
    <3> HIDE DEF place
    <3> QED
      BY <2>1, <2>2, <3>1, LogUntouched
  <2>4. CASE session
    <3>1. /\ talkAt' \in [Talks -> Places] /\ \A n : Passed(n) => Passed(n)'
          /\ \A u \in Talks : u # t => talkAt'[u] = talkAt[u]
          /\ talkAt'[t] = place
      <4> HIDE DEF place
      <4> QED
        BY <2>1, <2>2, StillPassed DEF LogInv
    <3>2. messages' = WithEntry(messages, m, stamp[t])
      BY <1>6, <2>4 DEF PutMessage
    <3>3. ASSUME NEW n, n = m PROVE Passed(n)'
      <4>1. CASE talkAt[t] = "putQ"
        <5>1. n = <<t, "user">> /\ talkAt'[t] = "answer"
          BY <3>1, <3>3, <4>1 DEF Message
        <5> QED
          BY <5>1 DEF Passed
      <4>2. CASE talkAt[t] = "putA"
        <5>1. n = <<t, "assistant">> /\ talkAt'[t] = "end"
          BY <3>1, <3>3, <4>2 DEF Message
        <5> QED
          BY <5>1 DEF Passed
      <4> QED
        BY <2>1, <4>1, <4>2
    <3>4. ~Passed(m)
      BY <2>1, WritesUnpassed DEF LogInv, m
    <3>5. /\ m \in DOMAIN earlier /\ stamp[t] \in Int
          /\ \A n \in earlier[m] \cap Rows : messages[n] < stamp[t]
      BY <2>1 DEF LogInv, StampIsLater, Writing, LogTypeOK, m
    <3> HIDE DEF m, place
    <3>6. /\ messages' = [x \in {m} \cup Rows |-> IF x = m THEN stamp[t] ELSE messages[x]]
          /\ Rows' = {m} \cup Rows /\ messages'[m] = stamp[t]
          /\ \A n \in Rows : n # m => messages'[n] = messages[n]
      BY <3>2 DEF WithEntry, Rows
    <3>7. m \notin Rows /\ \A n \in DOMAIN earlier : m \notin earlier[n]
      BY <3>4 DEF LogInv, OnlyPassed
    <3>8. LogTypeOK'
      BY <2>1, <3>1, <3>5, <3>6 DEF LogInv, LogTypeOK
    <3>9. OnlyPassed'
      <4>1. Rows' \subseteq DOMAIN earlier'
        BY <2>1, <3>5, <3>6 DEF LogInv, OnlyPassed
      <4>2. \A n \in Rows' : Passed(n)'
        BY <3>1, <3>3, <3>6 DEF LogInv, OnlyPassed
      <4>3. \A n \in DOMAIN earlier' : \A k \in earlier'[n] : Passed(k)'
        BY <2>1, <3>1 DEF LogInv, OnlyPassed
      <4> QED
        BY <4>1, <4>2, <4>3 DEF OnlyPassed
    <3>10. StampIsLater'
      <4> SUFFICES ASSUME NEW u \in Talks, Writing(u)'
                   PROVE  /\ Message(u)' \in DOMAIN earlier'
                          /\ \A n \in earlier'[Message(u)'] \cap Rows' : messages'[n] < stamp'[u]
        BY DEF StampIsLater
      <4>1. u # t /\ Writing(u) /\ Message(u)' = Message(u)
        BY <2>1, <3>1 DEF Writing, Message
      <4> QED
        BY <4>1, <2>1, <3>6, <3>7 DEF LogInv, StampIsLater
    <3>11. AppendsInOrder'
      <4> SUFFICES ASSUME NEW k \in Rows', NEW n \in earlier'[k] \cap Rows'
                   PROVE  messages'[n] < messages'[k]
        BY DEF AppendsInOrder
      <4>1. n \in Rows /\ n # m /\ n \in earlier[k] /\ messages'[n] = messages[n]
        BY <2>1, <3>5, <3>6, <3>7 DEF LogInv, OnlyPassed
      <4>2. CASE k = m
        BY <4>1, <4>2, <3>5, <3>6
      <4>3. CASE k # m
        BY <4>1, <4>3, <3>6 DEF LogInv, AppendsInOrder
      <4> QED
        BY <4>2, <4>3
    <3>12. NoOrphans'
      BY <2>1, <2>4 DEF NoOrphans
    <3> QED
      BY <3>8, <3>9, <3>10, <3>11, <3>12 DEF LogInv
  <2> QED
    BY <2>3, <2>4
<1>7. ASSUME NEW t \in Talks, AppendFails(t) PROVE LogInv'
  <2> DEFINE place == IF talkAt[t] \in {"question", "putQ"} THEN "answer" ELSE "end"
  <2>1. /\ talkAt[t] \in {"question", "answer", "putQ", "putA"} /\ Goto(t, place)
        /\ place \in Places \ {"putQ", "putA"} /\ UNCHANGED <<session, messages, clock, stamp, earlier>>
    BY <1>7 DEF AppendFails, AfterAppend, Places
  <2>2. \/ talkAt[t] \in {"new", "insert", "assemble", "question"}
        \/ talkAt[t] = "putQ" /\ place \in {"answer", "end"}
        \/ talkAt[t] = "answer" /\ place \in {"putA", "end"}
        \/ talkAt[t] = "putA" /\ place = "end"
    BY <2>1
  <2> HIDE DEF place
  <2> QED
    BY <2>1, <2>2, LogUntouched
<1>8. ASSUME DeleteSession PROVE LogInv'
  <2>1. messages' = <<>> /\ Rows' = {} /\ session' = FALSE /\ UNCHANGED <<clock, talkAt, stamp, earlier>>
    BY <1>8, NoEntries DEF DeleteSession, Rows
  <2>2. messages' \in [Rows' -> Int]
    BY <2>1
  <2>3. LogTypeOK'
    BY <2>1, <2>2 DEF LogInv, LogTypeOK
  <2>4. OnlyPassed' /\ AppendsInOrder' /\ NoOrphans'
    BY <2>1 DEF LogInv, OnlyPassed, Passed, AppendsInOrder, NoOrphans
  <2>5. StampIsLater'
    BY <2>1 DEF LogInv, StampIsLater, Writing, Message
  <2> QED
    BY <2>3, <2>4, <2>5 DEF LogInv
<1>9. ASSUME SetClock \/ UNCHANGED memoryVars PROVE LogInv'
  <2>1. clock' \in Int /\ UNCHANGED <<session, messages, talkAt, stamp, earlier>>
    BY <1>9 DEF SetClock, memoryVars, LogInv, LogTypeOK, MemoryAssumption
  <2> QED
    BY <2>1 DEF LogInv, LogTypeOK, OnlyPassed, Passed, StampIsLater, Writing, Message,
                AppendsInOrder, NoOrphans, Rows
<1> QED
  BY <1>1, <1>2, <1>3, <1>4, <1>5, <1>6, <1>7, <1>8, <1>9 DEF MemoryNext

(* A message stands behind every message that was stored when its append      *)
(* began, and none outlives its session, for any requests and any clock      *)
(* (memory.rs:269, 206).                                                    *)
THEOREM LogAlwaysConsistent == MemorySpec => []LogConsistent
<1>1. MemoryInit => LogInv
  BY LogInitInv, MemoryAssumption
<1>2. LogInv /\ [MemoryNext]_memoryVars => LogInv'
  BY LogStepInv, MemoryAssumption
<1>3. LogInv => LogConsistent
  BY DEF LogInv, LogConsistent
<1> QED
  BY <1>1, <1>2, <1>3, PTL DEF MemorySpec

-----------------------------------------------------------------------------
(* The ghost text of the IDE.                                              *)

(* Of the controllers only the shared one can be live, so a fetch that is not *)
(* the current one has been told to stop.                                   *)
OnlyCurrentLives == \A r \in Fetching : r \notin aborted => r = current

(* A request whose fetch has not begun has no controller and is no old fetch. *)
NotBegun ==
  \A r \in Typings : ghost[r] \in {"none", "pause"} =>
    r \notin aborted /\ r \notin outdated /\ current # r

(* The pause of a request that was given up is over, and a disposed provider  *)
(* lets no new pause begin.                                                 *)
PausesWanted ==
  \A r \in Typings : ghost[r] = "pause" =>
    r \notin withdrawn /\ (disposed => r \in atDispose)

GhostInv ==
  /\ GhostTypeOK /\ OnlyCurrentLives /\ NotBegun /\ PausesWanted
  /\ StaleIsAborted /\ OnlyPausesOutliveDispose

(* The invariant says of each request how far it has come, so every step is   *)
(* a matter of the request it is about and of the shared controller.        *)
LEMMA GhostStep == GhostInv /\ [GhostNext]_ghostVars => GhostInv'
<1> SUFFICES ASSUME GhostInv, [GhostNext]_ghostVars PROVE GhostInv'
  OBVIOUS
<1> USE GhostAssumption DEF GhostInv, GhostTypeOK, OnlyCurrentLives, NotBegun, PausesWanted,
        StaleIsAborted, OnlyPausesOutliveDispose, Fetching, Pending, AbortCurrent
<1>1. CASE Dispose
  BY <1>1 DEF Dispose
<1>2. ASSUME NEW r \in Typings, Provide(r) PROVE GhostInv'
  BY <1>2 DEF Provide
<1>3. ASSUME NEW r \in Typings, Withdraw(r) PROVE GhostInv'
  BY <1>3 DEF Withdraw
<1>4. ASSUME NEW r \in Typings, BeginFetch(r) PROVE GhostInv'
  BY <1>4 DEF BeginFetch
<1>5. ASSUME NEW r \in Typings, EngineFails(r) PROVE GhostInv'
  BY <1>5 DEF EngineFails
<1>6. ASSUME NEW r \in Typings, Answer(r) PROVE GhostInv'
  BY <1>6 DEF Answer
<1>7. ASSUME NEW r \in Typings, StopFetch(r) PROVE GhostInv'
  BY <1>7 DEF StopFetch
<1>8. CASE UNCHANGED ghostVars
  BY <1>8 DEF ghostVars
<1> QED BY <1>1, <1>2, <1>3, <1>4, <1>5, <1>6, <1>7, <1>8 DEF GhostNext

(* At most one fetch is live: the current one.                              *)
LEMMA CurrentIsTheOnlyFetch == GhostInv => OneLiveFetch
<1> SUFFICES ASSUME GhostInv PROVE OneLiveFetch
  OBVIOUS
<1>1. Fetching \ aborted \subseteq {current}
  BY DEF GhostInv, OnlyCurrentLives
<1>2. IsFiniteSet({current}) /\ Cardinality({current}) = 1
  BY FS_Singleton
<1>3. Cardinality(Fetching \ aborted) <= 1
  BY <1>1, <1>2, FS_Subset
<1> QED BY <1>3 DEF OneLiveFetch

(* Whatever the order of pauses, answers, cancellations and the dispose, what *)
(* the provider shows comes from the newest fetch only.                     *)
THEOREM CompletionAlwaysCurrent == GhostSpec => []CompletionIsCurrent
<1>1. GhostInit => GhostInv
  BY GhostAssumption DEF GhostInit, GhostInv, GhostTypeOK, OnlyCurrentLives, NotBegun, PausesWanted,
     StaleIsAborted, OnlyPausesOutliveDispose, Fetching
<1>2. GhostInv => CompletionIsCurrent
  BY CurrentIsTheOnlyFetch DEF GhostInv, CompletionIsCurrent
<1> QED BY <1>1, <1>2, GhostStep, PTL DEF GhostSpec

-----------------------------------------------------------------------------
(* The model catalogue.                                                    *)

CatalogTypeOK ==
  /\ rows \in [Listed -> SUBSET Both]
  /\ \A copy \in backup : copy \in [DOMAIN copy -> SUBSET Both]
  /\ kind \in [Runs -> {"update", "crawl"}]
  /\ phase \in [Runs -> {"new", "feed", "streams", "openvino", "crawl", "done"}]
  /\ total \in [Runs -> Nat]
  /\ seenModels \in [Runs -> SUBSET Models] /\ wrote \in [Runs -> SUBSET Models]
  /\ lost \in [Runs -> SUBSET Models]

(* A run that has read no list has no books; only a crawl crawls; and a run   *)
(* writes only what it marks as seen.                                      *)
BooksOfRuns ==
  \A r \in Runs :
    /\ phase[r] \in {"new", "feed"} => seenModels[r] = {} /\ wrote[r] = {} /\ total[r] = 0
    /\ phase[r] = "crawl" => kind[r] = "crawl"
    /\ wrote[r] \subseteq seenModels[r]

CatalogInv == CatalogTypeOK /\ BooksOfRuns /\ ReportIsHonest /\ SeenIsStored

(* A badge is never lost when two feeds meet.                                *)
LEMMA MergedGrows ==
  ASSUME NEW old \in SUBSET Both, NEW new \in SUBSET Both
  PROVE  Merged(old, new) \in SUBSET Both /\ old \subseteq Merged(old, new)
BY ZenonT(40) DEF Merged, Both

(* An upsert takes nothing from the table, and all of its batch is there.     *)
LEMMA UpsertGrows ==
  ASSUME rows \in [Listed -> SUBSET Both], NEW D, NEW batch \in [D -> SUBSET Both]
  PROVE  /\ Upserted(batch) \in [Listed \cup D -> SUBSET Both]
         /\ \A m \in Listed : rows[m] \subseteq Upserted(batch)[m]
<1>1. DOMAIN batch = D
  OBVIOUS
<1>2. ASSUME NEW m \in Listed \cup D
      PROVE  /\ Upserted(batch)[m] \in SUBSET Both
             /\ m \in Listed => rows[m] \subseteq Upserted(batch)[m]
  <2>1. CASE m \notin D
    BY <2>1, <1>1 DEF Upserted
  <2>2. CASE m \in D /\ m \in Listed
    BY <2>2, <1>1, MergedGrows DEF Upserted
  <2>3. CASE m \in D /\ m \notin Listed
    BY <2>3, <1>1 DEF Upserted
  <2> QED BY <2>1, <2>2, <2>3
<1>3. Upserted(batch) = [m \in Listed \cup D |-> Upserted(batch)[m]]
  BY <1>1 DEF Upserted
<1> QED BY <1>2, <1>3

(* A run writes a batch of models that it had not written before.            *)
Posted(r, D, batch, ok, counted) ==
  /\ D \in SUBSET Models /\ batch \in [D -> SUBSET Both] /\ ok \in BOOLEAN /\ counted \in BOOLEAN
  /\ Wrote(r, batch, ok, counted) /\ D \cap wrote[r] = {}
  /\ counted => kind[r] = "crawl"
  /\ UNCHANGED <<kind, backup>>

(* The books of a run after a batch of models that it had not written before. *)
LEMMA WroteKept ==
  ASSUME CatalogInv, NEW r \in Runs, NEW D, NEW batch, NEW ok, NEW counted,
         Posted(r, D, batch, ok, counted)
  PROVE  /\ rows' \in [DOMAIN rows' -> SUBSET Both] /\ Listed \subseteq DOMAIN rows'
         /\ ok => D \subseteq DOMAIN rows'
         /\ \A m \in Listed : rows[m] \subseteq rows'[m]
         /\ total' \in [Runs -> Nat] /\ wrote' \in [Runs -> SUBSET Models]
         /\ \A q \in Runs : q # r => wrote'[q] = wrote[q] /\ total'[q] = total[q]
         /\ wrote'[r] \subseteq wrote[r] \cup D
         /\ ReportIsHonest'
<1> USE CatalogAssumption DEF CatalogInv, Posted
<1>1. DOMAIN batch = D /\ IsFiniteSet(D) /\ IsFiniteSet(wrote[r])
  BY FS_Subset DEF CatalogAssumption, CatalogTypeOK
<1>2. Cardinality(D) \in Nat /\ Cardinality(wrote[r]) \in Nat
  BY <1>1, FS_CardinalityType
<1>3. /\ rows' \in [DOMAIN rows' -> SUBSET Both] /\ Listed \subseteq DOMAIN rows'
      /\ ok => D \subseteq DOMAIN rows'
      /\ \A m \in Listed : rows[m] \subseteq rows'[m]
  <2>1. CASE ok
    <3>1. rows' = Upserted(batch)
      BY <2>1 DEF Wrote
    <3>2. /\ Upserted(batch) \in [Listed \cup D -> SUBSET Both]
          /\ \A m \in Listed : rows[m] \subseteq Upserted(batch)[m]
      BY UpsertGrows DEF CatalogTypeOK
    <3> QED BY <3>1, <3>2
  <2>2. CASE ~ok
    <3>1. rows' = rows
      BY <2>2 DEF Wrote
    <3> QED BY <2>2, <3>1 DEF CatalogTypeOK, Listed
  <2> QED BY <2>1, <2>2
<1>4. /\ total' = [total EXCEPT ![r] = @ + IF ok \/ counted THEN Cardinality(D) ELSE 0]
      /\ wrote' = [wrote EXCEPT ![r] = @ \cup IF ok THEN D ELSE {}]
  BY <1>1 DEF Wrote
<1>5. total' \in [Runs -> Nat] /\ wrote' \in [Runs -> SUBSET Models]
  <2>1. (IF ok \/ counted THEN Cardinality(D) ELSE 0) \in Nat
    BY <1>2
  <2> QED BY <2>1, <1>4 DEF CatalogTypeOK
<1>6. \A q \in Runs : q # r => wrote'[q] = wrote[q] /\ total'[q] = total[q]
  BY <1>4 DEF CatalogTypeOK
<1>7. IF kind[r] = "update" THEN total'[r] = Cardinality(wrote'[r])
                            ELSE total'[r] >= Cardinality(wrote'[r])
  <2>1. IF kind[r] = "update" THEN total[r] = Cardinality(wrote[r])
                              ELSE total[r] >= Cardinality(wrote[r])
    BY DEF ReportIsHonest
  <2>2. total[r] \in Nat
    BY DEF CatalogTypeOK
  <2>3. CASE ok
    <3>1. wrote'[r] = wrote[r] \cup D /\ total'[r] = total[r] + Cardinality(D)
      BY <2>3, <1>4 DEF CatalogTypeOK
    <3>2. Cardinality(wrote[r] \cup D) = Cardinality(wrote[r]) + Cardinality(D)
      <4>1. wrote[r] \cap D = {}
        OBVIOUS
      <4>2. Cardinality(wrote[r] \cup D)
              = Cardinality(wrote[r]) + Cardinality(D) - Cardinality(wrote[r] \cap D)
        BY <1>1, FS_Union
      <4>3. Cardinality(wrote[r] \cap D) = 0
        BY <4>1, FS_EmptySet
      <4> HIDE DEF CatalogInv, Posted
      <4> QED BY <4>2, <4>3, <1>2
    <3> QED BY <3>1, <3>2, <2>1, <2>2, <1>2
  <2>4. CASE ~ok
    <3>1. wrote'[r] = wrote[r]
      BY <2>4, <1>4 DEF CatalogTypeOK
    <3>2. total'[r] = total[r] + IF counted THEN Cardinality(D) ELSE 0
      BY <2>4, <1>4 DEF CatalogTypeOK
    <3> QED BY <3>1, <3>2, <2>1, <2>2, <1>2
  <2> QED BY <2>3, <2>4
<1>8. ReportIsHonest'
  BY <1>6, <1>7 DEF ReportIsHonest
<1>9. wrote'[r] \subseteq wrote[r] \cup D
  BY <1>4 DEF CatalogTypeOK
<1> QED BY <1>3, <1>5, <1>6, <1>8, <1>9

(* It marks all as seen: what was and what it read, in the table or lost.     *)
Noted(r, D, ok, marks, p) ==
  /\ marks \in SUBSET Models /\ seenModels' = [seenModels EXCEPT ![r] = marks]
  /\ wrote[r] \cup D \subseteq marks
  /\ lost' \in [Runs -> SUBSET Models] /\ \A q \in Runs : q # r => lost'[q] = lost[q]
  /\ marks \subseteq Listed \cup lost'[r] \cup (IF ok THEN D ELSE {})
  /\ p \in {"streams", "openvino", "crawl", "done"} /\ phase' = [phase EXCEPT ![r] = p]
  /\ p = "crawl" => kind[r] = "crawl"

(* A list is read and its batch written: what is seen from then on is in the  *)
(* table, or in the lost.                                                   *)
LEMMA IngestKept ==
  ASSUME CatalogInv, NEW r \in Runs, NEW D, NEW batch, NEW ok, NEW counted, NEW marks, NEW p,
         Posted(r, D, batch, ok, counted), Noted(r, D, ok, marks, p)
  PROVE  CatalogInv' /\ \A m \in Listed : m \in DOMAIN rows' /\ rows[m] \subseteq rows'[m]
<1> USE DEF Noted
<1>1. CatalogTypeOK /\ ReportIsHonest /\ kind' = kind /\ backup' = backup
  BY DEF CatalogInv, Posted
<1>2. /\ rows' \in [DOMAIN rows' -> SUBSET Both] /\ Listed \subseteq DOMAIN rows'
      /\ ok => D \subseteq DOMAIN rows'
      /\ \A m \in Listed : rows[m] \subseteq rows'[m]
      /\ total' \in [Runs -> Nat] /\ wrote' \in [Runs -> SUBSET Models]
      /\ \A q \in Runs : q # r => wrote'[q] = wrote[q] /\ total'[q] = total[q]
      /\ wrote'[r] \subseteq wrote[r] \cup D
      /\ ReportIsHonest'
  BY WroteKept
<1>3. CatalogTypeOK'
  BY <1>1, <1>2 DEF CatalogTypeOK, Listed
<1>4. /\ phase'[r] = p /\ seenModels'[r] = marks
      /\ \A q \in Runs : q # r => phase'[q] = phase[q] /\ seenModels'[q] = seenModels[q]
  BY <1>1 DEF CatalogTypeOK
<1>5. BooksOfRuns'
  <2> SUFFICES ASSUME NEW q \in Runs
               PROVE  /\ phase'[q] \in {"new", "feed"} =>
                           seenModels'[q] = {} /\ wrote'[q] = {} /\ total'[q] = 0
                      /\ phase'[q] = "crawl" => kind'[q] = "crawl"
                      /\ wrote'[q] \subseteq seenModels'[q]
    BY DEF BooksOfRuns
  <2>1. CASE q = r
    BY <2>1, <1>1, <1>2, <1>4
  <2>2. CASE q # r
    BY <2>2, <1>1, <1>2, <1>4 DEF CatalogInv, BooksOfRuns
  <2> QED BY <2>1, <2>2
<1>6. SeenIsStored'
  <2> SUFFICES ASSUME NEW q \in Runs PROVE seenModels'[q] \subseteq DOMAIN rows' \cup lost'[q]
    BY DEF SeenIsStored, Listed
  <2>1. CASE q = r
    BY <2>1, <1>2, <1>4
  <2>2. CASE q # r
    BY <2>2, <1>2, <1>4 DEF CatalogInv, SeenIsStored
  <2> QED BY <2>1, <2>2
<1> QED BY <1>2, <1>3, <1>5, <1>6 DEF CatalogInv

(* A step of a run that writes nothing.                                      *)
LEMMA PhaseKept ==
  ASSUME CatalogInv, NEW r \in Runs,
         UNCHANGED <<rows, kind, seenModels, total, wrote, lost>>,
         backup' \in {backup, {rows}},
         NEW p \in {"new", "feed", "crawl", "done"}, phase' = [phase EXCEPT ![r] = p],
         p \in {"new", "feed"} => phase[r] \in {"new", "feed"},
         p = "crawl" => kind[r] = "crawl"
  PROVE  CatalogInv'
<1>1. CatalogTypeOK' /\ ReportIsHonest' /\ SeenIsStored'
  BY DEF CatalogInv, CatalogTypeOK, ReportIsHonest, SeenIsStored, Listed
<1>2. BooksOfRuns'
  BY DEF CatalogInv, CatalogTypeOK, BooksOfRuns
<1> QED BY <1>1, <1>2 DEF CatalogInv

BadgesGrow == \A m \in Listed : m \in DOMAIN rows' /\ rows[m] \subseteq rows'[m]

LEMMA BeginKept ==
  ASSUME CatalogInv, NEW r \in Runs, NEW k \in {"update", "crawl"}, NEW ok \in BOOLEAN, Begin(r, k, ok)
  PROVE  CatalogInv' /\ BadgesGrow
<1>1. /\ kind' = [kind EXCEPT ![r] = k] /\ phase' = [phase EXCEPT ![r] = "feed"] /\ phase[r] = "new"
      /\ backup' \in {backup, {rows}}
      /\ UNCHANGED <<rows, turn, retries, seenModels, total, wrote, lost>>
  BY DEF Begin
<1>2. CatalogTypeOK' /\ SeenIsStored'
  BY <1>1 DEF CatalogInv, CatalogTypeOK, SeenIsStored, Listed
<1>3. BooksOfRuns'
  BY <1>1 DEF CatalogInv, CatalogTypeOK, BooksOfRuns
<1>4. ReportIsHonest'
  <2>1. wrote[r] = {} /\ total[r] = 0 /\ Cardinality({}) = 0
    BY <1>1, FS_EmptySet DEF CatalogInv, BooksOfRuns
  <2>2. \A q \in Runs : q # r => kind'[q] = kind[q]
    BY <1>1 DEF CatalogInv, CatalogTypeOK
  <2>3. \A q \in Runs : q # r => IF kind'[q] = "update" THEN total'[q] = Cardinality(wrote'[q])
                                                   ELSE total'[q] >= Cardinality(wrote'[q])
    BY <1>1, <2>2 DEF CatalogInv, ReportIsHonest
  <2>4. total'[r] = 0 /\ Cardinality(wrote'[r]) = 0
    BY <1>1, <2>1
  <2> QED BY <2>3, <2>4 DEF ReportIsHonest
<1> QED BY <1>1, <1>2, <1>3, <1>4 DEF CatalogInv, BadgesGrow, Listed

LEMMA FeedKept ==
  ASSUME CatalogInv, NEW r \in Runs, NEW ok \in BOOLEAN,
         NEW trending \in SUBSET Models, NEW following \in SUBSET Models,
         IngestFeed(r, trending, following, ok)
  PROVE  CatalogInv' /\ BadgesGrow
<1> DEFINE D == trending \cup following
           batch == [m \in D |-> (IF m \in trending THEN {"trending"} ELSE {})
                                   \cup (IF m \in following THEN {"following"} ELSE {})]
           p == IF kind[r] = "crawl" THEN "crawl" ELSE IF Streams = 0 THEN "openvino" ELSE "streams"
<1>1. /\ phase[r] = "feed" /\ Wrote(r, batch, ok, FALSE)
      /\ seenModels' = [seenModels EXCEPT ![r] = D]
      /\ lost' = [lost EXCEPT ![r] = IF ok THEN {} ELSE D]
      /\ phase' = [phase EXCEPT ![r] = p]
      /\ UNCHANGED <<backup, kind, turn, retries>>
  BY DEF IngestFeed
<1>2. wrote[r] = {} /\ D \in SUBSET Models /\ batch \in [D -> SUBSET Both]
  BY <1>1 DEF CatalogInv, BooksOfRuns, Both
<1>3. Posted(r, D, batch, ok, FALSE)
  BY <1>1, <1>2 DEF Posted
<1>4. /\ lost' \in [Runs -> SUBSET Models] /\ lost'[r] = IF ok THEN {} ELSE D
      /\ \A q \in Runs : q # r => lost'[q] = lost[q]
  BY <1>1 DEF CatalogInv, CatalogTypeOK
<1>5. D \subseteq Listed \cup lost'[r] \cup (IF ok THEN D ELSE {})
  BY <1>4
<1>6. p \in {"streams", "openvino", "crawl", "done"} /\ (p = "crawl" => kind[r] = "crawl")
  OBVIOUS
<1>7. wrote[r] \cup D \subseteq D
  BY <1>2
<1> HIDE DEF D, batch, p
<1>8. Noted(r, D, ok, D, p)
  BY <1>1, <1>2, <1>4, <1>5, <1>6, <1>7 DEF Noted
<1> QED BY <1>3, <1>8, IngestKept DEF BadgesGrow

(* A list whose plain batch D is written: the discovery streams, the OpenVINO *)
(* sync and the pages of the crawl.                                         *)
LEMMA ListKept ==
  ASSUME CatalogInv, NEW r \in Runs, NEW list \in SUBSET Models, NEW D \in SUBSET Fresh(r, list),
         NEW ok \in BOOLEAN, NEW counted \in BOOLEAN, counted => kind[r] = "crawl",
         Wrote(r, Plain(D), ok, counted), UNCHANGED <<kind, backup>>,
         seenModels' = [seenModels EXCEPT ![r] = @ \cup list],
         lost' = [lost EXCEPT ![r] = @ \cup IF ok THEN Fresh(r, list) \ D ELSE Fresh(r, list)],
         NEW p \in {"streams", "openvino", "crawl", "done"},
         phase' = [phase EXCEPT ![r] = p], p = "crawl" => kind[r] = "crawl"
  PROVE  CatalogInv' /\ BadgesGrow
<1>1. D \in SUBSET Models /\ Plain(D) \in [D -> SUBSET Both] /\ D \cap seenModels[r] = {}
  BY DEF Plain, Fresh
<1>2. wrote[r] \subseteq seenModels[r] /\ seenModels[r] \subseteq Models
  BY DEF CatalogInv, BooksOfRuns, CatalogTypeOK
<1>3. Posted(r, D, Plain(D), ok, counted)
  BY <1>1, <1>2 DEF Posted
<1> DEFINE marks == seenModels[r] \cup list
<1>4. marks \in SUBSET Models /\ wrote[r] \cup D \subseteq marks
  BY <1>1, <1>2 DEF Fresh
<1>5. /\ lost' \in [Runs -> SUBSET Models]
      /\ lost'[r] = lost[r] \cup (IF ok THEN Fresh(r, list) \ D ELSE Fresh(r, list))
      /\ \A q \in Runs : q # r => lost'[q] = lost[q]
  BY DEF CatalogInv, CatalogTypeOK, Fresh
<1>6. marks \subseteq Listed \cup lost'[r] \cup (IF ok THEN D ELSE {})
  BY <1>1, <1>5 DEF CatalogInv, SeenIsStored, Fresh
<1>7. seenModels' = [seenModels EXCEPT ![r] = marks]
  OBVIOUS
<1> HIDE DEF marks
<1>8. Noted(r, D, ok, marks, p)
  BY <1>4, <1>5, <1>6, <1>7 DEF Noted
<1> QED BY <1>3, <1>8, IngestKept DEF BadgesGrow

LEMMA CatalogStep ==
  ASSUME CatalogInv, [CatalogNext]_catalogVars
  PROVE  CatalogInv' /\ (rows' \in backup \/ BadgesGrow)
<1>1. ASSUME NEW r \in Runs, NEW ok \in BOOLEAN, NEW k \in {"update", "crawl"}, Begin(r, k, ok)
      PROVE  CatalogInv' /\ BadgesGrow
  BY <1>1, BeginKept
<1>2. ASSUME NEW r \in Runs, NEW ok \in BOOLEAN,
             NEW trending \in SUBSET Models, NEW following \in SUBSET Models,
             IngestFeed(r, trending, following, ok)
      PROVE  CatalogInv' /\ BadgesGrow
  BY <1>2, FeedKept
<1>3. ASSUME NEW r \in Runs, NEW ok \in BOOLEAN, NEW list \in SUBSET Models, IngestStream(r, list, ok)
      PROVE  CatalogInv' /\ BadgesGrow
  <2> DEFINE D == Fresh(r, list)
             p == IF turn'[r] = Streams THEN "openvino" ELSE "streams"
  <2>1. D \in SUBSET Fresh(r, list) /\ p \in {"streams", "openvino", "crawl", "done"} /\ p # "crawl"
    OBVIOUS
  <2>2. (IF ok THEN Fresh(r, list) \ D ELSE Fresh(r, list)) = IF ok THEN {} ELSE Fresh(r, list)
    OBVIOUS
  <2>3. /\ Wrote(r, Plain(D), ok, FALSE) /\ UNCHANGED <<kind, backup>>
        /\ seenModels' = [seenModels EXCEPT ![r] = @ \cup list]
        /\ lost' = [lost EXCEPT ![r] = @ \cup IF ok THEN Fresh(r, list) \ D ELSE Fresh(r, list)]
        /\ phase' = [phase EXCEPT ![r] = p]
    BY <1>3, <2>2 DEF IngestStream
  <2> HIDE DEF D, p
  <2> QED BY <2>1, <2>3, ListKept
<1>4. ASSUME NEW r \in Runs, NEW ok \in BOOLEAN, NEW list \in SUBSET Models,
             NEW llms \in SUBSET list, IngestOpenVino(r, list, llms, ok)
      PROVE  CatalogInv' /\ BadgesGrow
  BY <1>4, ListKept DEF IngestOpenVino
<1>5. ASSUME NEW r \in Runs, NEW ok \in BOOLEAN, NEW list \in SUBSET Models,
             NEW more \in BOOLEAN, CrawlPage(r, list, more, ok)
      PROVE  CatalogInv' /\ BadgesGrow
  <2> DEFINE D == Fresh(r, list)
             p == IF more /\ total'[r] < MaxModels THEN "crawl" ELSE "done"
  <2>1. D \in SUBSET Fresh(r, list) /\ p \in {"streams", "openvino", "crawl", "done"}
    OBVIOUS
  <2>2. kind[r] = "crawl"
    BY <1>5 DEF CrawlPage, CatalogInv, BooksOfRuns
  <2>3. (IF ok THEN Fresh(r, list) \ D ELSE Fresh(r, list)) = IF ok THEN {} ELSE Fresh(r, list)
    OBVIOUS
  <2>4. /\ Wrote(r, Plain(D), ok, TRUE) /\ UNCHANGED <<kind, backup>>
        /\ seenModels' = [seenModels EXCEPT ![r] = @ \cup list]
        /\ lost' = [lost EXCEPT ![r] = @ \cup IF ok THEN Fresh(r, list) \ D ELSE Fresh(r, list)]
        /\ phase' = [phase EXCEPT ![r] = p]
    BY <1>5, <2>3 DEF CrawlPage
  <2> HIDE DEF D, p
  <2> QED BY <2>1, <2>2, <2>4, ListKept
<1>6. ASSUME NEW r \in Runs, RetryPage(r) \/ EndCrawl(r) PROVE CatalogInv' /\ BadgesGrow
  <2>1. PICK p \in {"crawl", "done"} : phase' = [phase EXCEPT ![r] = p]
    BY <1>6 DEF RetryPage, EndCrawl
  <2>2. UNCHANGED <<rows, kind, backup, seenModels, total, wrote, lost>> /\ kind[r] = "crawl"
    BY <1>6 DEF RetryPage, EndCrawl, CatalogInv, BooksOfRuns
  <2>3. CatalogInv'
    BY <2>1, <2>2, PhaseKept
  <2> QED BY <2>2, <2>3 DEF BadgesGrow, Listed
<1>7. ASSUME Restore PROVE CatalogInv' /\ rows' \in backup
  <2>1. PICK copy \in backup :
          /\ rows' = copy
          /\ lost' = [r \in Runs |-> lost[r] \cup (seenModels[r] \ DOMAIN copy)]
          /\ UNCHANGED <<backup, kind, phase, turn, retries, seenModels, total, wrote>>
    BY <1>7 DEF Restore
  <2>2. CatalogTypeOK' /\ SeenIsStored'
    BY <2>1 DEF CatalogInv, CatalogTypeOK, SeenIsStored, Listed
  <2>3. BooksOfRuns' /\ ReportIsHonest'
    BY <2>1 DEF CatalogInv, BooksOfRuns, ReportIsHonest
  <2> QED BY <2>1, <2>2, <2>3 DEF CatalogInv
<1>8. CASE UNCHANGED catalogVars
  BY <1>8 DEF catalogVars, CatalogInv, CatalogTypeOK, BooksOfRuns, ReportIsHonest, SeenIsStored,
              BadgesGrow, Listed
<1> QED BY <1>1, <1>2, <1>3, <1>4, <1>5, <1>6, <1>7, <1>8 DEF CatalogNext

(* Whatever runs of whatever processes interleave, fail and are restored      *)
(* under, what they report and pass over is stored and no badge is lost.     *)
THEOREM CatalogAlwaysKept == CatalogSpec => CatalogKept
<1>1. CatalogInit => CatalogInv
  <2> HAVE CatalogInit
  <2>1. rows \in [Listed -> SUBSET Both] /\ Listed = {}
    BY DEF CatalogInit, Listed
  <2>2. ReportIsHonest
    BY FS_EmptySet DEF CatalogInit, ReportIsHonest
  <2> QED BY <2>1, <2>2 DEF CatalogInit, CatalogInv, CatalogTypeOK, BooksOfRuns, SeenIsStored
<1>2. CatalogInv /\ [CatalogNext]_catalogVars => CatalogInv'
  BY CatalogStep
<1>3. CatalogInv => ReportIsHonest /\ SeenIsStored
  BY DEF CatalogInv
<1>4. CatalogInv /\ [CatalogNext]_catalogVars =>
        [rows' \in backup \/ \A m \in Listed : m \in DOMAIN rows' /\ rows[m] \subseteq rows'[m]]_catalogVars
  BY CatalogStep DEF BadgesGrow
<1> QED BY <1>1, <1>2, <1>3, <1>4, PTL DEF CatalogSpec, CatalogKept, BadgesOnlyGrow

-----------------------------------------------------------------------------
(* The paged KV cache.                                                     *)

\* Induction over the natural numbers, with the set of the numbers for which
\* the statement holds in place of the statement.
LEMMA NatSetInduction ==
  ASSUME NEW S, 0 \in S, \A n \in Nat : n \in S => n + 1 \in S
  PROVE  Nat \subseteq S
<1> SUFFICES ASSUME Nat \ S # {} PROVE FALSE
  OBVIOUS
<1>1. PICK m \in Nat \ S : \A k \in Nat \ S : ~(<<k, m>> \in OpToRel(<, Nat))
  BY NatLessThanWellFounded, WFMin
<1>2. m # 0 /\ m - 1 \in Nat /\ m - 1 < m /\ (m - 1) + 1 = m
  OBVIOUS
<1>3. <<m - 1, m>> \in OpToRel(<, Nat)
  BY <1>2 DEF OpToRel
<1> QED
  BY <1>1, <1>2, <1>3

\* Quotient and remainder.
LEMMA DivMod ==
  ASSUME NEW n \in Nat, NEW B \in Nat \ {0}
  PROVE  /\ n \div B \in Nat /\ n % B \in 0..(B - 1)
         /\ n = (n \div B) * B + (n % B)
OBVIOUS

\* A larger quotient is a whole block further on.
LEMMA ProductGrows ==
  ASSUME NEW a \in Nat, NEW b \in Nat, NEW B \in Nat, a < b
  PROVE  a * B + B <= b * B
<1>1. PICK k \in Nat : b = a + 1 + k
  <2> WITNESS b - a - 1 \in Nat
  <2> QED
    OBVIOUS
<1>2. b * B = a * B + B + k * B /\ k * B \in Nat /\ a * B \in Nat
  BY <1>1
<1> QED
  BY <1>2

\* An earlier position is in an earlier block, or earlier in the same block.
LEMMA DivModBefore ==
  ASSUME NEW p \in Nat, NEW n \in Nat, p < n, NEW B \in Nat \ {0}
  PROVE  p \div B < n \div B \/ (p \div B = n \div B /\ p % B < n % B)
<1> DEFINE a == p \div B
           b == n \div B
<1>1. /\ a \in Nat /\ p % B \in 0..(B - 1) /\ p = a * B + (p % B)
      /\ b \in Nat /\ n % B \in 0..(B - 1) /\ n = b * B + (n % B)
  BY DivMod
<1>2. a * B \in Nat /\ b * B \in Nat
  BY <1>1
<1> HIDE DEF a, b
<1>3. CASE b < a
  <2>1. b * B + B <= a * B
    BY <1>1, <1>3, ProductGrows
  <2> QED
    BY <1>1, <2>1, <1>2
<1>4. CASE b = a
  BY <1>1, <1>2, <1>4 DEF a, b
<1> QED
  BY <1>1, <1>3, <1>4 DEF a, b

\* The next position is in the same block, or first in the next one.
LEMMA DivModNext ==
  ASSUME NEW n \in Nat, NEW B \in Nat \ {0}
  PROVE  \/ (n + 1) % B = (n % B) + 1 /\ (n + 1) \div B = n \div B
         \/ (n + 1) % B = 0 /\ n % B = B - 1 /\ (n + 1) \div B = n \div B + 1
OBVIOUS

\* The recursive function for append's loop satisfies its equation.
LEMMA TurnsDef ==
  ASSUME NEW c, NEW batch \in Nat
  PROVE  Turns(c, batch) =
           [n \in 0..batch |-> IF n = 0 THEN Appending(c) ELSE AppendOne(c, Turns(c, batch)[n - 1])]
<1> DEFINE F(f, k) == [n \in 0..k |-> IF n = 0 THEN Appending(c) ELSE AppendOne(c, f[n - 1])]
           S == {k \in Nat : \E f : f = F(f, k)}
<1>1. 0 \in S
  <2> DEFINE f == [n \in 0..0 |-> Appending(c)]
  <2>1. f = F(f, 0)
    OBVIOUS
  <2> QED
    BY <2>1
<1>2. ASSUME NEW k \in Nat, k \in S PROVE k + 1 \in S
  <2>1. PICK f : f = F(f, k)
    BY <1>2
  <2> HIDE DEF F
  <2> DEFINE g == [n \in 0..(k + 1) |-> IF n = k + 1 THEN AppendOne(c, f[k]) ELSE f[n]]
  <2>2. ASSUME NEW n \in 0..(k + 1)
        PROVE  g[n] = IF n = 0 THEN Appending(c) ELSE AppendOne(c, g[n - 1])
    <3>1. CASE n = 0
      <4>1. f[0] = Appending(c)
        BY <2>1 DEF F
      <4> QED
        BY <3>1, <4>1
    <3>2. CASE n = k + 1
      <4>1. g[n] = AppendOne(c, f[k]) /\ n # 0 /\ g[n - 1] = f[k]
        BY <3>2
      <4> QED
        BY <4>1
    <3>3. CASE n # 0 /\ n # k + 1
      <4>1. n \in 0..k /\ n - 1 \in 0..(k + 1) /\ n - 1 # k + 1
        BY <3>3
      <4>2. f[n] = AppendOne(c, f[n - 1])
        BY <2>1, <3>3, <4>1 DEF F
      <4> QED
        BY <3>3, <4>1, <4>2
    <3> QED
      BY <3>1, <3>2, <3>3
  <2>3. g = F(g, k + 1)
    BY <2>2 DEF F
  <2> QED
    BY <2>3
<1>3. batch \in S
  BY <1>1, <1>2, NatSetInduction
<1>4. Turns(c, batch) = CHOOSE f : f = F(f, batch)
  BY DEF Turns
<1>5. \E f : f = F(f, batch)
  BY <1>3
<1> QED
  BY <1>4, <1>5

\* What the last element and the rest of a sequence are.
LEMMA LastAndFront ==
  ASSUME NEW S, NEW s \in Seq(S), s # <<>>
  PROVE  /\ Last(s) = s[Len(s)] /\ s[Len(s)] \in S /\ Len(s) \in Nat \ {0}
         /\ Front(s) \in Seq(S) /\ Len(Front(s)) = Len(s) - 1
         /\ \A i \in 1..(Len(s) - 1) : Front(s)[i] = s[i]
<1>1. Len(s) \in Nat \ {0} /\ \A i \in 1..Len(s) : s[i] \in S
  OBVIOUS
<1>2. PICK n \in Nat : n = Len(s) - 1
  BY <1>1
<1>3. Front(s) = SubSeq(s, 1, n)
  BY <1>2 DEF Front
<1>4. 1 \in Int /\ n \in Int /\ \A i \in 1..n : s[i] \in S
  BY <1>1, <1>2
<1>5. /\ SubSeq(s, 1, n) \in Seq(S)
      /\ Len(SubSeq(s, 1, n)) = IF 1 <= n THEN n - 1 + 1 ELSE 0
      /\ \A i \in 1..(n - 1 + 1) : SubSeq(s, 1, n)[i] = s[1 + i - 1]
  BY <1>4, SubSeqProperties
<1>6. Len(Front(s)) = n
  BY <1>3, <1>5
<1>7. \A i \in 1..n : Front(s)[i] = s[i]
  BY <1>3, <1>5
<1> QED
  BY <1>1, <1>2, <1>3, <1>5, <1>6, <1>7 DEF Last

\* The blocks that so many tokens need.
BlocksFor(n) == IF n % BlockSize = 0 THEN n \div BlockSize ELSE n \div BlockSize + 1

\* No entry twice.
Once(s) == \A i, j \in 1..Len(s) : s[i] = s[j] => i = j

\* Every block is free or in one table, once.
PlacesOK(free, tab) ==
  /\ free \in Seq(Blocks) /\ tab \in [Caches -> Seq(Blocks)]
  /\ Once(free) /\ \A c \in Caches : Once(tab[c])
  /\ \A c \in Caches, i \in 1..Len(free) : \A j \in 1..Len(tab[c]) : free[i] # tab[c][j]
  /\ \A c, d \in Caches : c # d =>
       \A i \in 1..Len(tab[c]), j \in 1..Len(tab[d]) : tab[c][i] # tab[d][j]
  /\ \A b \in Blocks : \/ \E i \in 1..Len(free) : free[i] = b
                      \/ \E c \in Caches : \E i \in 1..Len(tab[c]) : tab[c][i] = b

\* Each table is as long as its tokens need, and each token is where decode
\* looks for it.
TokensOK(tab, ln, cont) ==
  /\ ln \in [Caches -> Nat]
  /\ cont \in [Blocks -> [0..(BlockSize - 1) -> {Empty} \cup (Caches \X Nat)]]
  /\ \A c \in Caches : Len(tab[c]) = BlocksFor(ln[c])
  /\ \A c \in Caches : \A p \in 0..(ln[c] - 1) :
       cont[tab[c][p \div BlockSize + 1]][p % BlockSize] = <<c, p>>

PoolOK(free, tab, ln, cont) == PlacesOK(free, tab) /\ TokensOK(tab, ln, cont)

\* Taking the last free block to the end of the table of one cache.
LEMMA TakeBlock ==
  ASSUME NEW free, NEW tab, NEW c \in Caches, PlacesOK(free, tab), free # <<>>
  PROVE  PlacesOK(Front(free), [tab EXCEPT ![c] = Append(tab[c], Last(free))])
<1> DEFINE f == Front(free)
           t == [tab EXCEPT ![c] = Append(tab[c], Last(free))]
           n == Len(free)
<1>1. /\ free \in Seq(Blocks) /\ n \in Nat \ {0} /\ Last(free) = free[n] /\ free[n] \in Blocks
      /\ f \in Seq(Blocks) /\ Len(f) = n - 1 /\ \A i \in 1..(n - 1) : f[i] = free[i]
  <2>1. free \in Seq(Blocks)
    BY DEF PlacesOK
  <2> QED
    BY <2>1, LastAndFront
<1>2. /\ tab[c] \in Seq(Blocks) /\ Append(tab[c], Last(free)) \in Seq(Blocks)
      /\ Len(Append(tab[c], Last(free))) = Len(tab[c]) + 1
      /\ \A i \in 1..Len(tab[c]) : Append(tab[c], Last(free))[i] = tab[c][i]
      /\ Append(tab[c], Last(free))[Len(tab[c]) + 1] = free[n]
  BY <1>1 DEF PlacesOK
<1>3. t \in [Caches -> Seq(Blocks)]
  BY <1>2 DEF PlacesOK
<1>4. /\ \A d \in Caches \ {c} : t[d] = tab[d]
      /\ Len(t[c]) = Len(tab[c]) + 1 /\ t[c][Len(tab[c]) + 1] = free[n]
      /\ \A i \in 1..Len(tab[c]) : t[c][i] = tab[c][i]
      /\ \A d \in Caches : Len(tab[d]) \in Nat
  BY <1>2 DEF PlacesOK
<1>10. \A i \in 1..n, j \in 1..n : free[i] = free[j] => i = j
  BY DEF PlacesOK, Once
<1>11. \A d \in Caches : \A i, j \in 1..Len(tab[d]) : tab[d][i] = tab[d][j] => i = j
  BY DEF PlacesOK, Once
<1>12. \A d \in Caches, i \in 1..n : \A j \in 1..Len(tab[d]) : free[i] # tab[d][j]
  BY DEF PlacesOK
<1>13. \A d, e \in Caches : d # e =>
         \A i \in 1..Len(tab[d]), j \in 1..Len(tab[e]) : tab[d][i] # tab[e][j]
  BY DEF PlacesOK
<1> HIDE DEF t, f, n
<1>5. Once(f)
  <2>1. \A i \in 1..Len(f) : i \in 1..n /\ f[i] = free[i]
    BY <1>1
  <2> QED
    BY <2>1, <1>10 DEF Once
<1>6. ASSUME NEW d \in Caches PROVE Once(t[d])
  <2>1. CASE d = c
    <3>1. \A i \in 1..Len(t[c]) :
            \/ i \in 1..Len(tab[c]) /\ t[c][i] = tab[c][i]
            \/ i = Len(tab[c]) + 1 /\ t[c][i] = free[n]
      BY <1>4
    <3>2. n \in 1..n
      BY <1>1
    <3> QED
      BY <2>1, <3>1, <3>2, <1>11, <1>12 DEF Once
  <2>2. CASE d # c
    BY <2>2, <1>4, <1>11 DEF Once
  <2> QED
    BY <2>1, <2>2
<1>7. ASSUME NEW d \in Caches, NEW i \in 1..Len(f), NEW j \in 1..Len(t[d])
      PROVE  f[i] # t[d][j]
  <2>1. i \in 1..n /\ i # n /\ n \in 1..n /\ f[i] = free[i]
    BY <1>1
  <2>2. CASE d = c /\ j = Len(tab[c]) + 1
    BY <2>1, <2>2, <1>4, <1>10
  <2>3. CASE d = c /\ j # Len(tab[c]) + 1
    <3>1. j \in 1..Len(tab[c])
      BY <2>3, <1>4
    <3> QED
      BY <2>1, <2>3, <3>1, <1>4, <1>12
  <2>4. CASE d # c
    BY <2>1, <2>4, <1>4, <1>12
  <2> QED
    BY <2>2, <2>3, <2>4
<1>8. ASSUME NEW d \in Caches, NEW e \in Caches, d # e,
             NEW i \in 1..Len(t[d]), NEW j \in 1..Len(t[e])
      PROVE  t[d][i] # t[e][j]
  <2> DEFINE Old(u, k) == k \in 1..Len(tab[u]) /\ t[u][k] = tab[u][k]
             New(u, k) == u = c /\ t[u][k] = free[n]
  <2>1. \A u \in Caches : \A k \in 1..Len(t[u]) : Old(u, k) \/ New(u, k)
    BY <1>4
  <2>2. n \in 1..n
    BY <1>1
  <2>3. CASE Old(d, i) /\ Old(e, j)
    BY <1>8, <1>13, <2>3
  <2>4. CASE Old(d, i) /\ New(e, j)
    BY <1>12, <2>2, <2>4
  <2>5. CASE New(d, i) /\ Old(e, j)
    BY <1>12, <2>2, <2>5
  <2>6. ~(New(d, i) /\ New(e, j))
    BY <1>8
  <2> HIDE DEF Old, New
  <2> QED
    BY <2>1, <2>3, <2>4, <2>5, <2>6
<1>9. ASSUME NEW b \in Blocks
      PROVE  \/ \E i \in 1..Len(f) : f[i] = b
             \/ \E d \in Caches : \E i \in 1..Len(t[d]) : t[d][i] = b
  <2>1. CASE \E i \in 1..n : free[i] = b
    <3>1. PICK i \in 1..n : free[i] = b
      BY <2>1
    <3>2. CASE i = n
      <4>1. Len(tab[c]) + 1 \in 1..Len(t[c])
        BY <1>4
      <4> QED
        BY <3>1, <3>2, <4>1, <1>4
    <3>3. CASE i # n
      <4>1. i \in 1..Len(f) /\ f[i] = b
        BY <3>1, <3>3, <1>1
      <4> QED
        BY <4>1
    <3> QED
      BY <3>2, <3>3
  <2>2. CASE \E d \in Caches : \E i \in 1..Len(tab[d]) : tab[d][i] = b
    <3>1. PICK d \in Caches : \E i \in 1..Len(tab[d]) : tab[d][i] = b
      BY <2>2
    <3>0. PICK i \in 1..Len(tab[d]) : tab[d][i] = b
      BY <3>1
    <3>2. i \in 1..Len(t[d]) /\ t[d][i] = b
      BY <3>0, <1>4
    <3> QED
      BY <3>2
  <2>3. \/ \E i \in 1..n : free[i] = b
        \/ \E d \in Caches : \E i \in 1..Len(tab[d]) : tab[d][i] = b
    BY DEF PlacesOK, n
  <2> QED
    BY <2>1, <2>2, <2>3
<1> QED
  BY <1>1, <1>3, <1>5, <1>6, <1>7, <1>8, <1>9 DEF f, t, PlacesOK

\* The position of a token of a cache is in its table.
LEMMA PositionInTable ==
  ASSUME NEW n \in Nat, NEW p \in 0..(n - 1), PageAssumption
  PROVE  /\ p \div BlockSize + 1 \in 1..BlocksFor(n) /\ p % BlockSize \in 0..(BlockSize - 1)
         /\ \/ p \div BlockSize < n \div BlockSize
            \/ p \div BlockSize = n \div BlockSize /\ p % BlockSize < n % BlockSize
<1>1. p \in Nat /\ p < n /\ BlockSize \in Nat \ {0}
  BY DEF PageAssumption
<1>2. \/ p \div BlockSize < n \div BlockSize
      \/ p \div BlockSize = n \div BlockSize /\ p % BlockSize < n % BlockSize
  BY <1>1, DivModBefore
<1>3. /\ p \div BlockSize \in Nat /\ p % BlockSize \in 0..(BlockSize - 1)
      /\ n \div BlockSize \in Nat /\ n % BlockSize \in 0..(BlockSize - 1)
  BY <1>1, DivMod
<1> QED
  BY <1>2, <1>3 DEF BlocksFor

\* One token more: it has a block, and overwrites no token of any cache.
LEMMA PutToken ==
  ASSUME PageAssumption, NEW tab, NEW ln, NEW cont, NEW c \in Caches, NEW free2, NEW tab2,
         TokensOK(tab, ln, cont), PlacesOK(free2, tab2),
         \A d \in Caches \ {c} : tab2[d] = tab[d],
         \A i \in 1..Len(tab[c]) : tab2[c][i] = tab[c][i],
         Len(tab[c]) \in Nat,
         Len(tab2[c]) = ln[c] \div BlockSize + 1
  PROVE  TokensOK(tab2, [ln EXCEPT ![c] = ln[c] + 1],
           [cont EXCEPT ![Last(tab2[c])][ln[c] % BlockSize] = <<c, ln[c]>>])
<1> DEFINE n == ln[c]
           o == n % BlockSize
           k == n \div BlockSize + 1
           b == tab2[c][k]
           ln2 == [ln EXCEPT ![c] = n + 1]
           cont2 == [cont EXCEPT ![b][o] = <<c, n>>]
<1>1. n \in Nat /\ BlockSize \in Nat \ {0} /\ ln \in [Caches -> Nat]
  BY DEF TokensOK, PageAssumption
<1>2. o \in 0..(BlockSize - 1) /\ k \in Nat \ {0}
  <2>1. n \div BlockSize \in Nat /\ n % BlockSize \in 0..(BlockSize - 1)
    <3> HIDE DEF n
    <3> QED
      BY <1>1, DivMod
  <2> HIDE DEF n
  <2> QED
    BY <2>1
<1>3. Last(tab2[c]) = b /\ b \in Blocks /\ k = Len(tab2[c])
  <2>1. tab2[c] \in Seq(Blocks)
    BY DEF PlacesOK
  <2>2. k = Len(tab2[c])
    OBVIOUS
  <2> QED
    BY <1>2, <2>1, <2>2 DEF Last
<1>4. ln2 \in [Caches -> Nat] /\ ln2[c] = n + 1 /\ \A d \in Caches \ {c} : ln2[d] = ln[d]
  BY <1>1
<1>5. cont \in [Blocks -> [0..(BlockSize - 1) -> {Empty} \cup (Caches \X Nat)]]
  BY DEF TokensOK
<1>6. <<c, n>> \in {Empty} \cup (Caches \X Nat)
  BY <1>1
<1>7. /\ cont2 \in [Blocks -> [0..(BlockSize - 1) -> {Empty} \cup (Caches \X Nat)]]
      /\ cont2[b][o] = <<c, n>>
      /\ \A x \in Blocks, y \in 0..(BlockSize - 1) : x # b \/ y # o => cont2[x][y] = cont[x][y]
  <2> DEFINE V == {Empty} \cup (Caches \X Nat)
             O == 0..(BlockSize - 1)
             v == <<c, n>>
             row == [cont[b] EXCEPT ![o] = v]
  <2>1. o \in O /\ b \in Blocks /\ cont \in [Blocks -> [O -> V]] /\ v \in V
    BY <1>2, <1>3, <1>5, <1>6
  <2>2. cont2 = [cont EXCEPT ![b] = row]
    OBVIOUS
  <2> HIDE DEF n, o, b, cont2, V, O, v, row
  <2>3. row \in [O -> V] /\ row[o] = v /\ \A y \in O : y # o => row[y] = cont[b][y]
    BY <2>1 DEF row
  <2>4. /\ cont2 \in [Blocks -> [O -> V]] /\ cont2[b] = row
        /\ \A x \in Blocks : x # b => cont2[x] = cont[x]
    BY <2>1, <2>2, <2>3
  <2>5. \A x \in Blocks, y \in O : x # b \/ y # o => cont2[x][y] = cont[x][y]
    BY <2>3, <2>4
  <2> QED
    BY <2>3, <2>4, <2>5 DEF V, O, v
<1>8. ASSUME NEW d \in Caches PROVE Len(tab2[d]) = BlocksFor(ln2[d])
  <2>1. CASE d = c
    <3>1. BlocksFor(n + 1) = k
      <4> DEFINE m == n + 1
      <4>1. m \in Nat
        BY <1>1
      <4>2. \/ m % BlockSize = (n % BlockSize) + 1 /\ m \div BlockSize = n \div BlockSize
            \/ m % BlockSize = 0 /\ m \div BlockSize = n \div BlockSize + 1
        BY <1>1, DivModNext
      <4>3. n % BlockSize \in Nat
        BY <1>2
      <4> HIDE DEF m, n
      <4> QED
        BY <4>2, <4>3 DEF BlocksFor, m
    <3> QED
      BY <2>1, <3>1, <1>3, <1>4
  <2>2. CASE d # c
    BY <2>2, <1>4 DEF TokensOK
  <2> QED
    BY <2>1, <2>2
<1>9. ASSUME NEW d \in Caches, NEW p \in 0..(ln[d] - 1)
      PROVE  cont2[tab2[d][p \div BlockSize + 1]][p % BlockSize] = <<d, p>>
  <2> DEFINE i == p \div BlockSize + 1
             y == p % BlockSize
  <2>1. i \in 1..Len(tab[d]) /\ y \in 0..(BlockSize - 1)
    <3>1. ln[d] \in Nat /\ Len(tab[d]) = BlocksFor(ln[d])
      BY DEF TokensOK
    <3> QED
      BY <3>1, PositionInTable
  <2>2. tab2[d][i] = tab[d][i]
    BY <2>1
  <2>3. cont[tab[d][i]][y] = <<d, p>>
    BY DEF TokensOK
  <2>4. Len(tab[d]) \in Nat /\ Len(tab[d]) <= Len(tab2[d]) /\ i \in 1..Len(tab2[d])
        /\ tab2[d][i] \in Blocks
    <3>1. Len(tab[d]) = BlocksFor(ln[d]) /\ Len(tab2[d]) = BlocksFor(ln2[d])
      BY <1>8 DEF TokensOK
    <3>2. ln[d] \in Nat
      BY <1>1
    <3>3. Len(tab[d]) \in Nat /\ Len(tab[d]) <= Len(tab2[d])
      <4>1. CASE d = c
        <5>1. ln[c] \div BlockSize \in Nat
          BY <1>1, DivMod
        <5> QED
          BY <4>1, <3>1, <5>1 DEF BlocksFor
      <4>2. CASE d # c
        <5>1. tab2[d] = tab[d] /\ tab2[d] \in Seq(Blocks)
          BY <4>2 DEF PlacesOK
        <5> QED
          BY <5>1
      <4> QED
        BY <4>1, <4>2
    <3>4. i \in 1..Len(tab2[d])
      BY <2>1, <3>3
    <3>5. tab2[d] \in Seq(Blocks)
      BY DEF PlacesOK
    <3> QED
      BY <3>3, <3>4, <3>5
  <2>5. tab2[d][i] # b \/ y # o
    <3>1. k \in 1..Len(tab2[c])
      BY <1>2, <1>3
    <3>2. CASE d # c
      BY <2>4, <3>1, <3>2 DEF PlacesOK
    <3>3. CASE d = c
      <4>1. i # k \/ y # o
        <5>1. p \in 0..(n - 1)
          BY <3>3
        <5>2. \/ p \div BlockSize < n \div BlockSize
              \/ p \div BlockSize = n \div BlockSize /\ p % BlockSize < n % BlockSize
          BY <1>1, <5>1, PositionInTable
        <5>3. p \div BlockSize \in Nat /\ n \div BlockSize \in Nat
          <6> p \in Nat
            BY <5>1, <1>1
          <6> HIDE DEF n
          <6> QED
            BY <1>1, DivMod
        <5>4. p % BlockSize \in Nat /\ n % BlockSize \in Nat
          BY <1>2, <2>1
        <5> HIDE DEF n
        <5> QED
          BY <5>2, <5>3, <5>4
      <4> QED
        BY <2>4, <3>1, <3>3, <4>1 DEF PlacesOK, Once
    <3> QED
      BY <3>2, <3>3
  <2> HIDE DEF i, y, b, o, cont2
  <2>6. cont2[tab2[d][i]][y] = cont[tab2[d][i]][y]
    BY <2>1, <2>4, <2>5, <1>7
  <2>7. cont2[tab2[d][i]][y] = <<d, p>>
    BY <2>2, <2>3, <2>6
  <2> QED
    BY <2>7 DEF i, y
<1>10. ASSUME NEW d \in Caches, NEW p \in 0..(ln2[d] - 1)
       PROVE  cont2[tab2[d][p \div BlockSize + 1]][p % BlockSize] = <<d, p>>
  <2>1. CASE d = c /\ p = n
    BY <1>7, <2>1
  <2>2. CASE ~(d = c /\ p = n)
    <3>1. p \in 0..(ln[d] - 1)
      BY <1>1, <1>4, <2>2
    <3> QED
      BY <1>9, <3>1
  <2> QED
    BY <2>1, <2>2
<1> HIDE DEF cont2, ln2, b
<1>11. TokensOK(tab2, ln2, cont2)
  BY <1>4, <1>7, <1>8, <1>10 DEF TokensOK
<1> QED
  BY <1>3, <1>11 DEF cont2, ln2, b

\* The pool with the table and length of one cache in the middle of append.
PoolOf(c, s) ==
  PoolOK(s.free, [table EXCEPT ![c] = s.table], [len EXCEPT ![c] = s.len], s.content)

\* A turn of append's loop keeps the pool right, the one that gives up included.
LEMMA AppendOneKeeps ==
  ASSUME PageAssumption, NEW c \in Caches, NEW s, PoolOf(c, s),
         table \in [Caches -> Seq(Blocks)], len \in [Caches -> Nat]
  PROVE  PoolOf(c, AppendOne(c, s))
<1> DEFINE o == s.len % BlockSize
           tab == [table EXCEPT ![c] = s.table]
           ln == [len EXCEPT ![c] = s.len]
           r == AppendOne(c, s)
           tab2 == [table EXCEPT ![c] = r.table]
<1>1. /\ PlacesOK(s.free, tab) /\ TokensOK(tab, ln, s.content)
      /\ tab[c] = s.table /\ ln[c] = s.len
  BY DEF PoolOf, PoolOK
<1>2. CASE o = 0 /\ s.free = <<>>
  BY <1>2 DEF AppendOne
<1>3. CASE ~(o = 0 /\ s.free = <<>>)
  <2>1. /\ r.free = IF o = 0 THEN Front(s.free) ELSE s.free
        /\ r.table = IF o = 0 THEN Append(s.table, Last(s.free)) ELSE s.table
        /\ r.len = s.len + 1
        /\ r.content = [s.content EXCEPT ![Last(r.table)][o] = <<c, s.len>>]
    BY <1>3 DEF AppendOne
  <2>2. s.len \in Nat /\ Len(s.table) = BlocksFor(s.len) /\ BlockSize \in Nat \ {0}
        /\ s.table \in Seq(Blocks)
    <3> HIDE DEF tab, ln, r, o
    <3> QED
      BY <1>1 DEF TokensOK, PlacesOK, PageAssumption
  <2> HIDE DEF r
  <2>3. tab2[c] = r.table /\ \A d \in Caches \ {c} : tab2[d] = tab[d]
    OBVIOUS
  <2>4. /\ PlacesOK(r.free, tab2) /\ Len(tab2[c]) = s.len \div BlockSize + 1
        /\ \A i \in 1..Len(tab[c]) : tab2[c][i] = tab[c][i]
    <3>1. CASE o = 0
      <4>1. s.free # <<>> /\ s.free \in Seq(Blocks)
        BY <1>1, <1>3, <3>1 DEF PlacesOK
      <4>2. tab2 = [tab EXCEPT ![c] = Append(tab[c], Last(s.free))]
        BY <2>1, <3>1, <1>1
      <4>3. PlacesOK(r.free, tab2)
        BY <4>1, <4>2, <1>1, <2>1, <3>1, TakeBlock
      <4>4. Len(s.table) = s.len \div BlockSize
        BY <2>2, <3>1 DEF BlocksFor
      <4>5. Last(s.free) \in Blocks
        BY <4>1, LastAndFront
      <4> QED
        BY <4>3, <4>4, <4>5, <2>1, <2>2, <2>3, <3>1, <1>1
    <3>2. CASE o # 0
      <4>1. tab2 = tab
        BY <2>1, <3>2
      <4>2. Len(s.table) = s.len \div BlockSize + 1
        BY <2>2, <3>2 DEF BlocksFor
      <4> QED
        BY <4>1, <4>2, <1>1, <2>1, <3>2
    <3> QED
      BY <3>1, <3>2
  <2>5. Len(tab[c]) \in Nat
    BY <1>1, <2>2
  <2> HIDE DEF tab, tab2, ln
  <2>6. TokensOK(tab2, [ln EXCEPT ![c] = ln[c] + 1],
          [s.content EXCEPT ![Last(tab2[c])][ln[c] % BlockSize] = <<c, ln[c]>>])
    BY <1>1, <2>3, <2>4, <2>5, PutToken
  <2>7. [ln EXCEPT ![c] = ln[c] + 1] = [len EXCEPT ![c] = r.len]
    BY <1>1, <2>1 DEF ln
  <2>8. r.content = [s.content EXCEPT ![Last(tab2[c])][ln[c] % BlockSize] = <<c, ln[c]>>]
    BY <1>1, <2>1, <2>3
  <2> QED
    BY <2>4, <2>6, <2>7, <2>8 DEF PoolOf, PoolOK, tab2, r
<1> QED
  BY <1>2, <1>3

\* append keeps the pool right, however many turns its loop makes.
LEMMA TurnsKeep ==
  ASSUME PageAssumption, NEW c \in Caches, NEW batch \in Nat,
         PoolOK(freeBlocks, table, len, content)
  PROVE  PoolOf(c, Turns(c, batch)[batch])
<1> DEFINE S == {n \in Nat : n <= batch => PoolOf(c, Turns(c, batch)[n])}
<1>1. table \in [Caches -> Seq(Blocks)] /\ len \in [Caches -> Nat]
  BY DEF PoolOK, PlacesOK, TokensOK
<1>2. /\ Turns(c, batch)[0] = Appending(c)
      /\ \A n \in Nat : n < batch => Turns(c, batch)[n + 1] = AppendOne(c, Turns(c, batch)[n])
  <2> DEFINE t == Turns(c, batch)
  <2>1. t = [n \in 0..batch |-> IF n = 0 THEN Appending(c) ELSE AppendOne(c, t[n - 1])]
    BY TurnsDef
  <2> HIDE DEF t
  <2>2. \A n \in 0..batch : t[n] = IF n = 0 THEN Appending(c) ELSE AppendOne(c, t[n - 1])
    BY <2>1
  <2>3. ASSUME NEW n \in Nat, n < batch PROVE t[n + 1] = AppendOne(c, t[n])
    <3>1. n + 1 \in 0..batch /\ n + 1 # 0 /\ (n + 1) - 1 = n
      BY <2>3
    <3> QED
      BY <2>2, <3>1
  <2>4. t[0] = Appending(c)
    BY <2>2
  <2> QED
    BY <2>3, <2>4 DEF t
<1>3. PoolOf(c, Appending(c))
  <2>1. [table EXCEPT ![c] = table[c]] = table /\ [len EXCEPT ![c] = len[c]] = len
    BY <1>1
  <2> QED
    BY <2>1 DEF PoolOf, Appending
<1>4. 0 \in S
  BY <1>2, <1>3
<1>5. ASSUME NEW n \in Nat, n \in S PROVE n + 1 \in S
  <2> SUFFICES ASSUME n + 1 <= batch PROVE PoolOf(c, Turns(c, batch)[n + 1])
    OBVIOUS
  <2>1. n < batch /\ PoolOf(c, Turns(c, batch)[n])
    BY <1>5
  <2> QED
    BY <1>1, <1>2, <2>1, AppendOneKeeps
<1>6. batch \in S
  <2> HIDE DEF S
  <2> QED
    BY <1>4, <1>5, NatSetInduction
<1> QED
  BY <1>6

\* The recursive function for free's loop satisfies its equation.
LEMMA ReleasedDef ==
  ASSUME NEW blocks, Len(blocks) \in Nat
  PROVE  Released(blocks) =
           [n \in 0..Len(blocks) |->
              IF n = 0 THEN freeBlocks
              ELSE IF blocks[n] \in ToSet(Released(blocks)[n - 1]) THEN Released(blocks)[n - 1]
              ELSE Append(Released(blocks)[n - 1], blocks[n])]
<1> DEFINE G(l, n) == IF blocks[n] \in ToSet(l) THEN l ELSE Append(l, blocks[n])
           F(f, k) == [n \in 0..k |-> IF n = 0 THEN freeBlocks ELSE G(f[n - 1], n)]
           S == {k \in Nat : \E f : f = F(f, k)}
<1> HIDE DEF G
<1>1. 0 \in S
  <2> DEFINE f == [n \in 0..0 |-> freeBlocks]
  <2>1. f = F(f, 0)
    OBVIOUS
  <2> QED
    BY <2>1
<1>2. ASSUME NEW k \in Nat, k \in S PROVE k + 1 \in S
  <2>1. PICK f : f = F(f, k)
    BY <1>2
  <2> HIDE DEF F
  <2> DEFINE g == [n \in 0..(k + 1) |-> IF n = k + 1 THEN G(f[k], n) ELSE f[n]]
  <2>2. ASSUME NEW n \in 0..(k + 1)
        PROVE  g[n] = IF n = 0 THEN freeBlocks ELSE G(g[n - 1], n)
    <3>1. CASE n = 0
      <4>1. f[0] = freeBlocks
        BY <2>1 DEF F
      <4> QED
        BY <3>1, <4>1
    <3>2. CASE n = k + 1
      <4>1. g[n] = G(f[k], n) /\ n # 0 /\ g[n - 1] = f[k]
        BY <3>2
      <4> QED
        BY <4>1
    <3>3. CASE n # 0 /\ n # k + 1
      <4>1. n \in 0..k /\ n - 1 \in 0..(k + 1) /\ n - 1 # k + 1
        BY <3>3
      <4>2. f[n] = G(f[n - 1], n)
        BY <2>1, <3>3, <4>1 DEF F
      <4> QED
        BY <3>3, <4>1, <4>2
    <3> QED
      BY <3>1, <3>2, <3>3
  <2>3. g = F(g, k + 1)
    BY <2>2 DEF F
  <2> QED
    BY <2>3
<1>3. Len(blocks) \in S
  BY <1>1, <1>2, NatSetInduction
<1>4. Released(blocks) = CHOOSE f : f = F(f, Len(blocks))
  BY DEF Released, G
<1>5. \E f : f = F(f, Len(blocks))
  BY <1>3
<1> QED
  BY <1>4, <1>5 DEF G

\* free's loop puts the blocks of the table behind the free ones, in order.
LEMMA ReleasedAppends ==
  ASSUME NEW c \in Caches, PlacesOK(freeBlocks, table)
  PROVE  LET all == Released(table[c])[Len(table[c])]
         IN /\ all \in Seq(Blocks) /\ Len(all) = Len(freeBlocks) + Len(table[c])
            /\ \A i \in 1..Len(freeBlocks) : all[i] = freeBlocks[i]
            /\ \A j \in 1..Len(table[c]) : all[Len(freeBlocks) + j] = table[c][j]
<1> DEFINE free == freeBlocks
           tab == table[c]
           k == Len(tab)
           m == Len(free)
           list == Released(tab)
           Right(n, l) == /\ l \in Seq(Blocks) /\ Len(l) = m + n
                          /\ \A i \in 1..m : l[i] = free[i]
                          /\ \A j \in 1..n : l[m + j] = tab[j]
           S == {n \in Nat : n <= k => Right(n, list[n])}
<1>1. /\ free \in Seq(Blocks) /\ tab \in Seq(Blocks) /\ k \in Nat /\ m \in Nat
      /\ \A i, j \in 1..k : tab[i] = tab[j] => i = j
      /\ \A i \in 1..m, j \in 1..k : free[i] # tab[j]
  BY DEF PlacesOK, Once
<1> HIDE DEF free, tab, k, m
<1>2. /\ list[0] = free
      /\ \A n \in Nat : n < k => list[n + 1] = IF tab[n + 1] \in ToSet(list[n]) THEN list[n]
                                             ELSE Append(list[n], tab[n + 1])
  <2>1. list = [n \in 0..k |-> IF n = 0 THEN free
                              ELSE IF tab[n] \in ToSet(list[n - 1]) THEN list[n - 1]
                              ELSE Append(list[n - 1], tab[n])]
    BY <1>1, ReleasedDef DEF free, k
  <2> HIDE DEF list
  <2>2. \A n \in 0..k : list[n] = IF n = 0 THEN free
                                 ELSE IF tab[n] \in ToSet(list[n - 1]) THEN list[n - 1]
                                 ELSE Append(list[n - 1], tab[n])
    BY <2>1
  <2>3. ASSUME NEW n \in Nat, n < k
        PROVE  list[n + 1] = IF tab[n + 1] \in ToSet(list[n]) THEN list[n]
                             ELSE Append(list[n], tab[n + 1])
    <3>1. n + 1 \in 0..k /\ n + 1 # 0 /\ (n + 1) - 1 = n
      BY <1>1, <2>3
    <3> QED
      BY <2>2, <3>1
  <2>4. list[0] = free
    BY <1>1, <2>2
  <2> QED
    BY <2>3, <2>4
<1> HIDE DEF list
<1>3. 0 \in S
  <2>1. Right(0, free)
    <3>1. Len(free) = m + 0 /\ 1..0 = {}
      BY <1>1 DEF m
    <3> QED
      BY <1>1, <3>1
  <2> HIDE DEF Right
  <2> QED
    BY <1>2, <2>1
<1>4. ASSUME NEW n \in Nat, n \in S PROVE n + 1 \in S
  <2> SUFFICES ASSUME n + 1 <= k PROVE Right(n + 1, list[n + 1])
    OBVIOUS
  <2> DEFINE l == list[n]
             x == tab[n + 1]
  <2>1. Right(n, l) /\ n < k /\ n + 1 \in 1..k /\ x \in Blocks
    <3>1. n < k /\ n <= k /\ n + 1 \in 1..k
      BY <1>1
    <3> HIDE DEF Right
    <3>2. Right(n, l)
      BY <1>4, <3>1
    <3>3. x \in Blocks
      <4>1. \A i \in 1..k : tab[i] \in Blocks
        BY <1>1 DEF k
      <4> QED
        BY <3>1, <4>1
    <3> QED
      BY <3>1, <3>2, <3>3
  <2> HIDE DEF l
  <2>2. ASSUME NEW i \in 1..Len(l) PROVE l[i] # x
    <3>1. CASE i \in 1..m
      BY <1>1, <2>1, <3>1
    <3>2. CASE i \notin 1..m
      <4>1. i - m \in 1..n /\ m + (i - m) = i
        BY <1>1, <2>1, <3>2
      <4>2. l[i] = tab[i - m]
        BY <2>1, <4>1
      <4>3. i - m \in 1..k /\ i - m # n + 1
        BY <1>1, <2>1, <4>1
      <4> QED
        BY <1>1, <2>1, <4>2, <4>3
    <3> QED
      BY <3>1, <3>2
  <2>3. x \notin ToSet(l)
    <3>1. DOMAIN l = 1..Len(l)
      BY <2>1
    <3> QED
      BY <2>2, <3>1 DEF ToSet
  <2>4. list[n + 1] = Append(l, x)
    BY <1>2, <2>1, <2>3 DEF l
  <2> HIDE DEF x
  <2>5. /\ Append(l, x) \in Seq(Blocks) /\ Len(Append(l, x)) = m + n + 1
        /\ \A i \in 1..(m + n) : Append(l, x)[i] = l[i]
        /\ Append(l, x)[m + n + 1] = x
    BY <1>1, <2>1
  <2>6. ASSUME NEW j \in 1..(n + 1) PROVE Append(l, x)[m + j] = tab[j]
    <3>1. CASE j = n + 1
      BY <2>5, <3>1, <1>1 DEF x
    <3>2. CASE j # n + 1
      <4>1. j \in 1..n /\ m + j \in 1..(m + n)
        BY <1>1, <3>2
      <4> QED
        BY <2>1, <2>5, <4>1
    <3> QED
      BY <3>1, <3>2
  <2>7. \A i \in 1..m : Append(l, x)[i] = free[i]
    BY <1>1, <2>1, <2>5
  <2>8. Len(Append(l, x)) = m + (n + 1)
    BY <2>5, <1>1
  <2> QED
    BY <2>4, <2>5, <2>6, <2>7, <2>8
<1>5. k \in S
  <2> HIDE DEF S
  <2> QED
    BY <1>1, <1>3, <1>4, NatSetInduction
<1> QED
  BY <1>1, <1>5 DEF free, tab, k, m, list

\* A freed table leaves every block in one place still.
LEMMA FreeKeepsPlaces ==
  ASSUME NEW c \in Caches, PlacesOK(freeBlocks, table)
  PROVE  PlacesOK(Released(table[c])[Len(table[c])], [table EXCEPT ![c] = <<>>])
<1> DEFINE all == Released(table[c])[Len(table[c])]
           m == Len(freeBlocks)
           k == Len(table[c])
           t == [table EXCEPT ![c] = <<>>]
<1>1. /\ all \in Seq(Blocks) /\ Len(all) = m + k
      /\ \A i \in 1..m : all[i] = freeBlocks[i]
      /\ \A j \in 1..k : all[m + j] = table[c][j]
  BY ReleasedAppends
<1>2. /\ table \in [Caches -> Seq(Blocks)] /\ m \in Nat /\ k \in Nat
      /\ \A d \in Caches : Len(table[d]) \in Nat
  BY DEF PlacesOK
<1>3. /\ \A i \in 1..m, j \in 1..m : freeBlocks[i] = freeBlocks[j] => i = j
      /\ \A d \in Caches : \A i, j \in 1..Len(table[d]) : table[d][i] = table[d][j] => i = j
      /\ \A d \in Caches, i \in 1..m : \A j \in 1..Len(table[d]) : freeBlocks[i] # table[d][j]
      /\ \A d, e \in Caches : d # e =>
           \A i \in 1..Len(table[d]), j \in 1..Len(table[e]) : table[d][i] # table[e][j]
      /\ \A b \in Blocks : \/ \E i \in 1..m : freeBlocks[i] = b
                          \/ \E d \in Caches : \E i \in 1..Len(table[d]) : table[d][i] = b
  BY DEF PlacesOK, Once
<1>4. /\ t \in [Caches -> Seq(Blocks)] /\ t[c] = <<>>
      /\ \A d \in Caches \ {c} : t[d] = table[d]
  BY <1>2
<1> HIDE DEF all, m, k, t
<1> DEFINE FromFree(i) == i \in 1..m /\ all[i] = freeBlocks[i]
           FromTable(i) == i - m \in 1..k /\ all[i] = table[c][i - m]
<1>5. \A i \in 1..Len(all) : FromFree(i) \/ FromTable(i)
  <2> SUFFICES ASSUME NEW i \in 1..Len(all)
               PROVE  FromFree(i) \/ FromTable(i)
    OBVIOUS
  <2>1. CASE i \in 1..m
    BY <1>1, <2>1
  <2>2. CASE i \notin 1..m
    <3>1. i - m \in 1..k /\ m + (i - m) = i
      BY <1>1, <1>2, <2>2
    <3> QED
      BY <1>1, <3>1
  <2> QED
    BY <2>1, <2>2
<1>0. /\ \A i \in 1..m, j \in 1..k : freeBlocks[i] # table[c][j]
      /\ \A i \in 1..k, j \in 1..k : table[c][i] = table[c][j] => i = j
  BY <1>3 DEF k
<1>6. Once(all)
  <2> SUFFICES ASSUME NEW i \in 1..Len(all), NEW j \in 1..Len(all), all[i] = all[j]
               PROVE  i = j
    BY DEF Once
  <2>1. CASE FromFree(i)
    <3>1. CASE FromFree(j)
      <4>1. freeBlocks[i] = freeBlocks[j] /\ i \in 1..m /\ j \in 1..m
        BY <2>1, <3>1
      <4> HIDE DEF FromFree, FromTable
      <4> QED
        BY <1>3, <4>1
    <3>2. CASE FromTable(j)
      <4>1. j - m \in 1..k /\ freeBlocks[i] = table[c][j - m] /\ i \in 1..m
        BY <2>1, <3>2
      <4> HIDE DEF FromFree, FromTable
      <4> QED
        BY <1>0, <4>1
    <3> QED
      BY <1>5, <3>1, <3>2
  <2>2. CASE FromTable(i)
    <3>1. CASE FromFree(j)
      BY <1>0, <2>2, <3>1
    <3>2. CASE FromTable(j)
      <4>1. i - m = j - m
        BY <1>0, <2>2, <3>2
      <4> QED
        BY <4>1, <1>1, <1>2
    <3> QED
      BY <1>5, <3>1, <3>2
  <2> QED
    BY <1>5, <2>1, <2>2
<1>7. ASSUME NEW d \in Caches PROVE Once(t[d])
  <2>1. CASE d = c
    <3>1. Len(t[d]) = 0
      BY <1>4, <2>1
    <3> QED
      BY <3>1 DEF Once
  <2>2. CASE d # c
    BY <1>3, <1>4, <2>2 DEF Once
  <2> QED
    BY <2>1, <2>2
<1>8. ASSUME NEW d \in Caches, NEW i \in 1..Len(all), NEW j \in 1..Len(t[d])
      PROVE  all[i] # t[d][j]
  <2>1. d # c /\ t[d] = table[d]
    BY <1>4
  <2>2. CASE FromFree(i)
    BY <1>3, <2>1, <2>2
  <2>3. CASE FromTable(i)
    BY <1>3, <2>1, <2>3 DEF k
  <2> QED
    BY <1>5, <2>2, <2>3
<1>9. \A d, e \in Caches : d # e =>
        \A i \in 1..Len(t[d]), j \in 1..Len(t[e]) : t[d][i] # t[e][j]
  <2>1. Len(t[c]) = 0
    BY <1>4
  <2> SUFFICES ASSUME NEW d \in Caches, NEW e \in Caches, d # e,
                      NEW i \in 1..Len(t[d]), NEW j \in 1..Len(t[e])
               PROVE  t[d][i] # t[e][j]
    OBVIOUS
  <2>2. d # c /\ e # c
    BY <2>1
  <2>3. t[d] = table[d] /\ t[e] = table[e]
    BY <1>4, <2>2
  <2> QED
    BY <1>3, <2>3
<1>10. ASSUME NEW b \in Blocks
       PROVE  \/ \E i \in 1..Len(all) : all[i] = b
              \/ \E d \in Caches : \E i \in 1..Len(t[d]) : t[d][i] = b
  <2>1. CASE \E i \in 1..m : freeBlocks[i] = b
    <3>1. PICK i \in 1..m : freeBlocks[i] = b
      BY <2>1
    <3>2. i \in 1..Len(all) /\ all[i] = b
      BY <3>1, <1>1, <1>2
    <3> QED
      BY <3>2
  <2>2. CASE \E d \in Caches : \E i \in 1..Len(table[d]) : table[d][i] = b
    <3>1. PICK d \in Caches : \E i \in 1..Len(table[d]) : table[d][i] = b
      BY <2>2
    <3>2. CASE d = c
      <4>1. PICK j \in 1..k : table[c][j] = b
        BY <3>1, <3>2 DEF k
      <4>2. m + j \in 1..Len(all) /\ all[m + j] = b
        BY <4>1, <1>1, <1>2
      <4> QED
        BY <4>2
    <3>3. CASE d # c
      BY <3>1, <3>3, <1>4
    <3> QED
      BY <3>2, <3>3
  <2> QED
    BY <2>1, <2>2, <1>3
<1>11. PlacesOK(all, t)
  BY <1>1, <1>4, <1>6, <1>7, <1>8, <1>9, <1>10 DEF PlacesOK
<1> QED
  BY <1>11 DEF all, t

\* free keeps the pool right: nobody else's token is moved or lost.
LEMMA FreeKeeps ==
  ASSUME NEW c \in Caches, PoolOK(freeBlocks, table, len, content), PageAssumption
  PROVE  PoolOK(Released(table[c])[Len(table[c])], [table EXCEPT ![c] = <<>>],
                [len EXCEPT ![c] = 0], content)
<1> DEFINE t == [table EXCEPT ![c] = <<>>]
           l == [len EXCEPT ![c] = 0]
<1>1. PlacesOK(freeBlocks, table) /\ TokensOK(table, len, content)
  BY DEF PoolOK
<1>2. PlacesOK(Released(table[c])[Len(table[c])], t)
  BY <1>1, FreeKeepsPlaces
<1>3. /\ l \in [Caches -> Nat] /\ l[c] = 0 /\ t[c] = <<>>
      /\ \A d \in Caches \ {c} : t[d] = table[d] /\ l[d] = len[d]
  BY <1>1 DEF PlacesOK, TokensOK
<1>4. BlocksFor(0) = 0
  <2>1. 0 % BlockSize = 0 /\ 0 \div BlockSize = 0
    BY DEF PageAssumption
  <2> QED
    BY <2>1 DEF BlocksFor
<1> HIDE DEF t, l
<1>5. ASSUME NEW d \in Caches PROVE Len(t[d]) = BlocksFor(l[d])
  <2>1. CASE d = c
    BY <2>1, <1>3, <1>4
  <2>2. CASE d # c
    BY <2>2, <1>1, <1>3 DEF TokensOK
  <2> QED
    BY <2>1, <2>2
<1>6. ASSUME NEW d \in Caches, NEW p \in 0..(l[d] - 1)
      PROVE  content[t[d][p \div BlockSize + 1]][p % BlockSize] = <<d, p>>
  <2>1. d # c
    BY <1>3
  <2>2. p \in 0..(len[d] - 1) /\ t[d] = table[d]
    BY <1>3, <2>1
  <2> QED
    BY <1>1, <2>2 DEF TokensOK
<1>7. TokensOK(t, l, content)
  BY <1>1, <1>3, <1>5, <1>6 DEF TokensOK
<1> QED
  BY <1>2, <1>7 DEF PoolOK, t, l

\* At first every block is free.
LEMMA PageInitOK ==
  ASSUME PageAssumption, PageInit
  PROVE  PoolOK(freeBlocks, table, len, content)
<1> USE DEF PageInit
<1>1. TotalBlocks \in Nat /\ BlockSize \in Nat \ {0}
  BY DEF PageAssumption
<1>2. /\ freeBlocks \in Seq(Blocks) /\ Len(freeBlocks) = TotalBlocks
      /\ \A i \in 1..TotalBlocks : freeBlocks[i] = i - 1
  <2>1. \A i \in 1..TotalBlocks : i - 1 \in Blocks
    BY <1>1 DEF Blocks
  <2> QED
    BY <1>1, <2>1
<1>3. Once(freeBlocks)
  BY <1>1, <1>2 DEF Once
<1>4. table \in [Caches -> Seq(Blocks)] /\ \A c \in Caches : table[c] = <<>> /\ Len(table[c]) = 0
  OBVIOUS
<1>5. ASSUME NEW b \in Blocks PROVE \E i \in 1..Len(freeBlocks) : freeBlocks[i] = b
  <2>1. b + 1 \in 1..TotalBlocks /\ freeBlocks[b + 1] = b
    BY <1>1, <1>2 DEF Blocks
  <2> QED
    BY <1>2, <2>1
<1>6. PlacesOK(freeBlocks, table)
  <2>1. \A c \in Caches : 1..Len(table[c]) = {}
    BY <1>4
  <2>2. \A c \in Caches : Once(table[c])
    BY <2>1 DEF Once
  <2> HIDE DEF PageInit
  <2> QED
    BY <1>2, <1>3, <1>4, <1>5, <2>1, <2>2 DEF PlacesOK
<1>7. TokensOK(table, len, content)
  <2>1. len \in [Caches -> Nat] /\ \A c \in Caches : len[c] = 0
    OBVIOUS
  <2>2. content \in [Blocks -> [0..(BlockSize - 1) -> {Empty} \cup (Caches \X Nat)]]
    OBVIOUS
  <2>3. BlocksFor(0) = 0
    <3>1. 0 % BlockSize = 0 /\ 0 \div BlockSize = 0
      BY <1>1
    <3> QED
      BY <3>1 DEF BlocksFor
  <2> HIDE DEF PageInit
  <2>4. \A c \in Caches : 0..(len[c] - 1) = {}
    BY <2>1
  <2> QED
    BY <1>4, <2>1, <2>2, <2>3, <2>4 DEF TokensOK
<1> QED
  BY <1>6, <1>7 DEF PoolOK

\* The inductive invariant.
PagesInv == PoolOK(freeBlocks, table, len, content)

\* What the run checks follows from it.
LEMMA PagesConsistentFromInv ==
  ASSUME PageAssumption, PagesInv
  PROVE  PagesConsistent
<1>1. PlacesOK(freeBlocks, table) /\ TokensOK(table, len, content)
  BY DEF PagesInv, PoolOK
<1>2. /\ freeBlocks \in Seq(Blocks) /\ table \in [Caches -> Seq(Blocks)] /\ len \in [Caches -> Nat]
      /\ DOMAIN freeBlocks = 1..Len(freeBlocks)
      /\ \A c \in Caches : DOMAIN table[c] = 1..Len(table[c])
  BY <1>1 DEF PlacesOK, TokensOK
<1>3. ASSUME NEW b \in Blocks
      PROVE  Cardinality({i \in DOMAIN freeBlocks : freeBlocks[i] = b})
               + Cardinality(Held(b)) = 1
  <2> DEFINE F == {i \in DOMAIN freeBlocks : freeBlocks[i] = b}
             H == Held(b)
  <2>1. CASE \E i \in 1..Len(freeBlocks) : freeBlocks[i] = b
    <3>1. PICK i \in 1..Len(freeBlocks) : freeBlocks[i] = b
      BY <2>1
    <3>2. F = {i}
      BY <1>1, <1>2, <3>1 DEF PlacesOK, Once
    <3>3. H = {}
      BY <1>1, <1>2, <3>1 DEF PlacesOK, Held
    <3>4. Cardinality(F) = 1 /\ Cardinality(H) = 0
      BY <3>2, <3>3, FS_Singleton, FS_EmptySet
    <3> HIDE DEF F, H
    <3> QED
      BY <3>4 DEF F, H
  <2>2. CASE \E c \in Caches : \E i \in 1..Len(table[c]) : table[c][i] = b
    <3>1. PICK c \in Caches : \E i \in 1..Len(table[c]) : table[c][i] = b
      BY <2>2
    <3>2. PICK i \in 1..Len(table[c]) : table[c][i] = b
      BY <3>1
    <3>3. F = {}
      BY <1>1, <1>2, <3>2 DEF PlacesOK
    <3>4. \A d \in Caches : \A j \in 1..Len(table[d]) : table[d][j] = b => d = c /\ j = i
      <4>1. \A j \in 1..Len(table[c]) : table[c][j] = b => j = i
        BY <1>1, <3>2 DEF PlacesOK, Once
      <4>2. \A d \in Caches \ {c} : \A j \in 1..Len(table[d]) : table[d][j] # b
        BY <1>1, <3>2 DEF PlacesOK
      <4> QED
        BY <4>1, <4>2
    <3>5. H = {<<c, i>>}
      <4>1. {j \in DOMAIN table[c] : table[c][j] = b} = {i}
        BY <1>2, <3>2, <3>4
      <4>2. \A d \in Caches \ {c} : {j \in DOMAIN table[d] : table[d][j] = b} = {}
        BY <1>2, <3>4
      <4> QED
        BY <4>1, <4>2 DEF Held
    <3>6. Cardinality(F) = 0 /\ Cardinality(H) = 1
      BY <3>3, <3>5, FS_Singleton, FS_EmptySet
    <3> HIDE DEF F, H
    <3> QED
      BY <3>6 DEF F, H
  <2> QED
    BY <2>1, <2>2, <1>1 DEF PlacesOK
<1>4. TableFits
  <2> SUFFICES ASSUME NEW c \in Caches
               PROVE  Len(table[c]) * BlockSize >= len[c] /\ len[c] > (Len(table[c]) - 1) * BlockSize
    BY DEF TableFits
  <2> DEFINE n == len[c]
             q == n \div BlockSize
             r == n % BlockSize
  <2>1. n \in Nat /\ BlockSize \in Nat \ {0} /\ Len(table[c]) = BlocksFor(n)
    BY <1>1 DEF TokensOK, PageAssumption
  <2>2. q \in Nat /\ r \in 0..(BlockSize - 1) /\ n = q * BlockSize + r
    <3> HIDE DEF n
    <3> QED
      BY <2>1, DivMod
  <2>3. Len(table[c]) = IF r = 0 THEN q ELSE q + 1
    BY <2>1 DEF BlocksFor
  <2> HIDE DEF n, q, r
  <2>4. /\ (q + 1) * BlockSize = q * BlockSize + BlockSize /\ q * BlockSize \in Nat
        /\ (q - 1) * BlockSize = q * BlockSize - BlockSize
    BY <2>1, <2>2
  <2>5. Len(table[c]) * BlockSize >= n /\ n > (Len(table[c]) - 1) * BlockSize
    <3>1. CASE r = 0
      BY <2>1, <2>2, <2>3, <2>4, <3>1
    <3>2. CASE r # 0
      BY <2>1, <2>2, <2>3, <2>4, <3>2
    <3> QED
      BY <3>1, <3>2
  <2> QED
    BY <2>5 DEF n
<1>5. ReadsOwnTokens
  BY <1>1 DEF TokensOK, ReadsOwnTokens, Read
<1> QED
  BY <1>3, <1>4, <1>5 DEF PagesConsistent, BlockInOnePlace

\* Pool and tables agree after any appends and frees, those that ran out of
\* blocks half way included, for every number of caches, blocks and tokens.
THEOREM PagesAlwaysConsistent == PageSpec => []PagesConsistent
<1>1. PageInit => PagesInv
  BY PageAssumption, PageInitOK DEF PagesInv
<1>2. PagesInv /\ [PageNext]_pageVars => PagesInv'
  <2> SUFFICES ASSUME PagesInv, [PageNext]_pageVars PROVE PagesInv'
    OBVIOUS
  <2>1. ASSUME NEW c \in Caches, Free(c) PROVE PagesInv'
    BY <2>1, PageAssumption, FreeKeeps DEF Free, PagesInv
  <2>2. ASSUME NEW c \in Caches, NEW batch \in 1..MaxBatch, AppendTokens(c, batch)
        PROVE  PagesInv'
    <3>1. PoolOf(c, Turns(c, batch)[batch])
      <4>1. batch \in Nat
        BY PageAssumption DEF PageAssumption
      <4> QED
        BY <4>1, PageAssumption, TurnsKeep DEF PagesInv
    <3> QED
      BY <2>2, <3>1 DEF AppendTokens, PagesInv, PoolOf
  <2>3. CASE UNCHANGED pageVars
    BY <2>3 DEF PagesInv, pageVars, PoolOK, PlacesOK, TokensOK
  <2> QED
    BY <2>1, <2>2, <2>3 DEF PageNext
<1>3. PagesInv => PagesConsistent
  BY PageAssumption, PagesConsistentFromInv
<1> QED
  BY <1>1, <1>2, <1>3, PTL DEF PageSpec

-----------------------------------------------------------------------------
(* The code graph.                                                         *)

\* The rows of table files.
FileRows == [path : Paths, text : Texts]

\* No two rows of one path.
OneRowEach(tab) == \A i, j \in 1..Len(tab) : tab[i].path = tab[j].path => i = j

\* Table files.
TableOK(tab) == tab \in Seq(FileRows) /\ OneRowEach(tab)

\* Calls and references lead from a row that uses the name to one that defines it.
EdgesIn(tab, cs, rs) ==
  /\ \A c \in DOMAIN cs :
       /\ \E row \in ToSet(tab) : row.path = c[1] /\ c[2] \in Uses[row.text]
       /\ cs[c] = "null" \/ \E row \in ToSet(tab) : row.path = cs[c] /\ c[2] \in Defs[row.text]
  /\ \A r \in rs :
       \E row, target \in ToSet(tab) : /\ row.path = r[1] /\ r[2] \in Uses[row.text]
                                       /\ target.path = r[3] /\ r[2] \in Defs[target.text]

\* Every use in a file with a symbol has its call.
UsesCovered(tab, cs) ==
  \A row \in ToSet(tab) : Defs[row.text] # {} =>
    \A name \in Uses[row.text] : <<row.path, name>> \in DOMAIN cs

\* The tables at any moment, whoever writes them.
TablesInv == TableOK(files) /\ EdgesIn(files, calls, refs) /\ UsesCovered(files, calls)

\* The values of the indexers' variables.
GraphTyped ==
  /\ disk \in [Paths -> Texts \cup {"none", "bad"}]
  /\ indexAt \in [Indexers -> Resting \cup {"files", "check", "store", "prune", "resolve"}]
  /\ workspace \in [Indexers -> SUBSET Paths] /\ found \in [Indexers -> SUBSET Paths]
  /\ todo \in [Indexers -> SUBSET Paths] /\ doomed \in [Indexers -> SUBSET Paths]
  /\ inHand \in [Indexers -> FileRows \cup {<<>>}] /\ solo \in [Indexers -> BOOLEAN]
  /\ \A x \in Indexers : indexAt[x] \in {"check", "store"} => inHand[x] \in FileRows

\* The row of a file as it is on disk.
OnDisk(p) == [path |-> p, text |-> disk[p]]
Present(x) == There(workspace[x])

\* What an undisturbed run has done so far.
ReadInv(x) ==
  /\ found[x] = Present(x) /\ todo[x] \subseteq found[x]
  /\ \A p \in found[x] \ todo[x] : disk[p] \in Texts =>
       OnDisk(p) \in ToSet(files) \/ (indexAt[x] # "files" /\ inHand[x] = OnDisk(p))
HandInv(x) == \E p \in found[x] \ todo[x] : disk[p] \in Texts /\ inHand[x] = OnDisk(p)
StoredInv(x) == \A p \in workspace[x] : disk[p] \in Texts => OnDisk(p) \in ToSet(files)
PrunedInv(x) == StoredPaths \subseteq Present(x)

\* It needs the others to rest until it is done.
SoloInv(x) ==
  solo[x] =>
    /\ \A y \in Indexers \ {x} : indexAt[y] \in Resting
    /\ indexAt[x] \in {"files", "check", "store"} => ReadInv(x)
    /\ indexAt[x] \in {"check", "store"} => HandInv(x)
    /\ indexAt[x] \in {"prune", "resolve", "done"} => StoredInv(x)
    /\ indexAt[x] = "prune" => doomed[x] = StoredPaths \ Present(x)
    /\ indexAt[x] \in {"resolve", "done"} => PrunedInv(x)
    /\ indexAt[x] = "done" =>
         \A c \in DOMAIN calls : calls[c] = "null" => Definer(files, c[2]) = "null"

\* The inductive invariant.
GraphInv == GraphTyped /\ TablesInv /\ \A x \in Indexers : SoloInv(x)


\* The recursive function of a delete satisfies its equation.
LEMMA KeptDef ==
  ASSUME NEW gone, Len(files) \in Nat
  PROVE  \E kept :
           /\ RowsWithout(gone) = kept[Len(files)]
           /\ kept = [n \in 0..Len(files) |->
                IF n = 0 THEN <<>>
                ELSE IF files[n].path \in gone THEN kept[n - 1] ELSE Append(kept[n - 1], files[n])]
<1> DEFINE G(l, n) == IF files[n].path \in gone THEN l ELSE Append(l, files[n])
           F(f, k) == [n \in 0..k |-> IF n = 0 THEN <<>> ELSE G(f[n - 1], n)]
           S == {k \in Nat : \E f : f = F(f, k)}
<1> HIDE DEF G
<1>1. 0 \in S
  <2> DEFINE f == [n \in 0..0 |-> <<>>]
  <2>1. f = F(f, 0)
    OBVIOUS
  <2> QED
    BY <2>1
<1>2. ASSUME NEW k \in Nat, k \in S PROVE k + 1 \in S
  <2>1. PICK f : f = F(f, k)
    BY <1>2
  <2> HIDE DEF F
  <2> DEFINE g == [n \in 0..(k + 1) |-> IF n = k + 1 THEN G(f[k], n) ELSE f[n]]
  <2>2. ASSUME NEW n \in 0..(k + 1)
        PROVE  g[n] = IF n = 0 THEN <<>> ELSE G(g[n - 1], n)
    <3>1. CASE n = 0
      <4>1. f[0] = <<>>
        BY <2>1 DEF F
      <4> QED
        BY <3>1, <4>1
    <3>2. CASE n = k + 1
      <4>1. g[n] = G(f[k], n) /\ n # 0 /\ g[n - 1] = f[k]
        BY <3>2
      <4> QED
        BY <4>1
    <3>3. CASE n # 0 /\ n # k + 1
      <4>1. n \in 0..k /\ n - 1 \in 0..(k + 1) /\ n - 1 # k + 1
        BY <3>3
      <4>2. f[n] = G(f[n - 1], n)
        BY <2>1, <3>3, <4>1 DEF F
      <4> QED
        BY <3>3, <4>1, <4>2
    <3> QED
      BY <3>1, <3>2, <3>3
  <2>3. g = F(g, k + 1)
    BY <2>2 DEF F
  <2> QED
    BY <2>3
<1>3. Len(files) \in S
  BY <1>1, <1>2, NatSetInduction
<1> DEFINE kept == CHOOSE f : f = F(f, Len(files))
<1>4. RowsWithout(gone) = kept[Len(files)]
  BY DEF RowsWithout, G
<1>5. \E f : f = F(f, Len(files))
  BY <1>3
<1>6. kept = F(kept, Len(files))
  <2> HIDE DEF F
  <2> QED
    BY <1>5
<1> HIDE DEF kept
<1> QED
  BY <1>4, <1>6 DEF G

\* A delete leaves the rows of the other paths, in their order.
LEMMA KeptRows ==
  ASSUME NEW gone, TableOK(files)
  PROVE  /\ TableOK(RowsWithout(gone))
         /\ ToSet(RowsWithout(gone)) = {row \in ToSet(files) : row.path \notin gone}
<1> DEFINE m == Len(files)
           Of(l, n) == \A r : (\E i \in 1..Len(l) : l[i] = r)
                               <=> (\E i \in 1..n : files[i] = r /\ r.path \notin gone)
           Right(l, n) == l \in Seq(FileRows) /\ OneRowEach(l) /\ Of(l, n)
<1>1. /\ files \in Seq(FileRows) /\ m \in Nat /\ DOMAIN files = 1..m
      /\ \A i \in 1..m : files[i] \in FileRows
      /\ \A i, j \in 1..m : files[i].path = files[j].path => i = j
  BY DEF TableOK, OneRowEach
<1>2. PICK kept :
        /\ RowsWithout(gone) = kept[m]
        /\ kept = [n \in 0..m |->
             IF n = 0 THEN <<>>
             ELSE IF files[n].path \in gone THEN kept[n - 1] ELSE Append(kept[n - 1], files[n])]
  BY <1>1, KeptDef
<1> HIDE DEF m
<1> DEFINE S == {n \in Nat : n <= m => Right(kept[n], n)}
<1>3. \A n \in 0..m :
        kept[n] = IF n = 0 THEN <<>>
                  ELSE IF files[n].path \in gone THEN kept[n - 1] ELSE Append(kept[n - 1], files[n])
  BY <1>2
<1>4. 0 \in S
  <2>1. kept[0] = <<>>
    BY <1>1, <1>3
  <2>2. <<>> \in Seq(FileRows) /\ Len(<<>>) = 0 /\ 1..0 = {}
    OBVIOUS
  <2>3. Right(<<>>, 0)
    BY <2>2 DEF OneRowEach
  <2> HIDE DEF Right
  <2> QED
    BY <2>1, <2>3
<1>5. ASSUME NEW n \in Nat, n \in S PROVE n + 1 \in S
  <2> SUFFICES ASSUME n + 1 <= m PROVE Right(kept[n + 1], n + 1)
    OBVIOUS
  <2> DEFINE l == kept[n]
             x == files[n + 1]
  <2>1. n <= m /\ n + 1 \in 1..m /\ n + 1 \in 0..m /\ n + 1 # 0 /\ (n + 1) - 1 = n
    BY <1>1
  <2>2. Right(l, n)
    <3> HIDE DEF Right
    <3> QED
      BY <1>5, <2>1
  <2>3. kept[n + 1] = IF x.path \in gone THEN l ELSE Append(l, x)
    BY <1>3, <2>1
  <2>4. x \in FileRows
    BY <1>1, <2>1
  <2> HIDE DEF l
  <2>5. \A i \in 1..(n + 1) : i \in 1..n \/ i = n + 1
    OBVIOUS
  <2>6. CASE x.path \in gone
    <3>1. Of(l, n + 1)
      BY <2>2, <2>5, <2>6
    <3> QED
      BY <2>2, <2>3, <2>6, <3>1
  <2>7. CASE x.path \notin gone
    <3> DEFINE a == Append(l, x)
    <3> HIDE DEF x
    <3>1. /\ l \in Seq(FileRows) /\ Len(l) \in Nat /\ a \in Seq(FileRows) /\ Len(a) = Len(l) + 1
          /\ \A i \in 1..Len(l) : a[i] = l[i]
          /\ a[Len(l) + 1] = x
      BY <2>2, <2>4
    <3> HIDE DEF a
    <3>2. \A i \in 1..Len(a) :
             (i \in 1..Len(l) /\ a[i] = l[i]) \/ (i = Len(l) + 1 /\ a[i] = x)
      BY <3>1
    <3>3. \A i \in 1..Len(l) : l[i].path # x.path
      <4> SUFFICES ASSUME NEW i \in 1..Len(l), l[i].path = x.path PROVE FALSE
        OBVIOUS
      <4>1. PICK j \in 1..n : files[j] = l[i]
        BY <2>2
      <4>2. j \in 1..m /\ j # n + 1 /\ files[j].path = files[n + 1].path
        BY <4>1, <2>1, <1>1 DEF x
      <4> QED
        BY <4>2, <2>1, <1>1
    <3>4. OneRowEach(a)
      <4> SUFFICES ASSUME NEW i \in 1..Len(a), NEW j \in 1..Len(a), a[i].path = a[j].path
                   PROVE  i = j
        BY DEF OneRowEach
      <4>1. OneRowEach(l)
        BY <2>2
      <4>2. CASE i \in 1..Len(l) /\ a[i] = l[i] /\ j \in 1..Len(l) /\ a[j] = l[j]
        BY <4>1, <4>2 DEF OneRowEach
      <4>3. CASE i \in 1..Len(l) /\ a[i] = l[i] /\ j = Len(l) + 1 /\ a[j] = x
        BY <3>3, <4>3
      <4>4. CASE i = Len(l) + 1 /\ a[i] = x /\ j \in 1..Len(l) /\ a[j] = l[j]
        BY <3>3, <4>4
      <4> QED
        BY <3>2, <4>2, <4>3, <4>4
    <3>5. ASSUME NEW r PROVE (\E i \in 1..Len(a) : a[i] = r)
                             <=> (\E i \in 1..(n + 1) : files[i] = r /\ r.path \notin gone)
      <4>1. (\E i \in 1..Len(l) : l[i] = r) <=> (\E i \in 1..n : files[i] = r /\ r.path \notin gone)
        BY <2>2
      <4>2. (\E i \in 1..Len(a) : a[i] = r) <=> (\E i \in 1..Len(l) : l[i] = r) \/ r = x
        BY <3>1, <3>2
      <4>3. (\E i \in 1..(n + 1) : files[i] = r /\ r.path \notin gone)
              <=> (\E i \in 1..n : files[i] = r /\ r.path \notin gone) \/ r = x
        BY <2>5, <2>7 DEF x
      <4> QED
        BY <4>1, <4>2, <4>3
    <3>6. kept[n + 1] = a
      BY <2>3, <2>7 DEF a
    <3> QED
      BY <3>1, <3>4, <3>5, <3>6
  <2> QED
    BY <2>6, <2>7
<1>6. Right(RowsWithout(gone), m)
  <2> HIDE DEF S
  <2>1. m \in S
    BY <1>1, <1>4, <1>5, NatSetInduction
  <2> HIDE DEF Right
  <2>2. m <= m => Right(kept[m], m)
    BY <2>1 DEF S
  <2> QED
    BY <1>1, <1>2, <2>2
<1>7. DOMAIN RowsWithout(gone) = 1..Len(RowsWithout(gone))
  BY <1>6
<1> DEFINE t == RowsWithout(gone)
<1> HIDE DEF t
<1>8. \A r : r \in ToSet(t) <=> r \in ToSet(files) /\ r.path \notin gone
  <2>1. \A r : r \in ToSet(t) <=> \E i \in 1..Len(t) : t[i] = r
    BY <1>7 DEF ToSet, t
  <2>2. \A r : r \in ToSet(files) <=> \E i \in 1..m : files[i] = r
    BY <1>1 DEF ToSet
  <2> QED
    BY <2>1, <2>2, <1>6 DEF t
<1>9. ToSet(t) = {row \in ToSet(files) : row.path \notin gone}
  BY <1>8
<1> QED
  BY <1>6, <1>9 DEF TableOK, t

\* A name resolves to a file that defines it, if there is one.
LEMMA DefinerSound ==
  ASSUME NEW tab \in Seq(FileRows), NEW name
  PROVE  \/ /\ Definer(tab, name) = "null"
            /\ \A row \in ToSet(tab) : name \notin Defs[row.text]
         \/ \E row \in ToSet(tab) : row.path = Definer(tab, name) /\ name \in Defs[row.text]
<1> DEFINE those == {i \in DOMAIN tab : name \in Defs[tab[i].text]}
<1>1. CASE those = {}
  BY <1>1 DEF Definer, ToSet
<1>2. CASE those # {}
  <2>1. those \subseteq Nat
    OBVIOUS
  <2>2. PICK m \in those : \A k \in those : ~(<<k, m>> \in OpToRel(<, Nat))
    BY <1>2, <2>1, NatLessThanWellFounded, WFMin
  <2>3. \A k \in those : m <= k
    <3> SUFFICES ASSUME NEW k \in those PROVE m <= k
      OBVIOUS
    <3>1. k \in Nat /\ m \in Nat
      BY <2>1
    <3> HIDE DEF those
    <3>2. ~(k < m)
      BY <2>2, <3>1 DEF OpToRel
    <3> QED
      BY <3>1, <3>2
  <2>4. Min(those) \in those
    <3> HIDE DEF those
    <3> QED
      BY <2>3 DEF Min
  <2>5. Definer(tab, name) = tab[Min(those)].path
    BY <1>2 DEF Definer
  <2> HIDE DEF those
  <2>6. tab[Min(those)] \in ToSet(tab) /\ name \in Defs[tab[Min(those)].text]
    BY <2>4 DEF those, ToSet
  <2> QED
    BY <2>5, <2>6
<1> QED
  BY <1>1, <1>2

\* A delete takes the edges of the rows that go, and those that lead to them.
LEMMA DeleteKeeps ==
  ASSUME NEW gone, TablesInv
  PROVE  /\ TableOK(RowsWithout(gone))
         /\ EdgesIn(RowsWithout(gone), CallsWithout(gone), RefsWithout(gone))
         /\ UsesCovered(RowsWithout(gone), CallsWithout(gone))
<1> DEFINE t == RowsWithout(gone)
           cs == CallsWithout(gone)
           rs == RefsWithout(gone)
<1>1. /\ TableOK(t) /\ ToSet(t) = {row \in ToSet(files) : row.path \notin gone}
  BY KeptRows DEF TablesInv
<1>2. /\ DOMAIN cs = {c \in DOMAIN calls : c[1] \notin gone}
      /\ \A c \in DOMAIN cs : cs[c] = IF calls[c] \in gone THEN "null" ELSE calls[c]
  BY DEF CallsWithout
<1>3. \A r \in rs : r \in refs /\ r[1] \notin gone /\ r[3] \notin gone
  BY DEF RefsWithout
<1> HIDE DEF t, cs, rs
<1>4. ASSUME NEW c \in DOMAIN cs
      PROVE  /\ \E row \in ToSet(t) : row.path = c[1] /\ c[2] \in Uses[row.text]
             /\ cs[c] = "null" \/ \E row \in ToSet(t) : row.path = cs[c] /\ c[2] \in Defs[row.text]
  <2>1. c \in DOMAIN calls /\ c[1] \notin gone
    BY <1>2
  <2>2. /\ \E row \in ToSet(files) : row.path = c[1] /\ c[2] \in Uses[row.text]
        /\ calls[c] = "null" \/ \E row \in ToSet(files) : row.path = calls[c] /\ c[2] \in Defs[row.text]
    BY <2>1 DEF TablesInv, EdgesIn
  <2>3. \E row \in ToSet(t) : row.path = c[1] /\ c[2] \in Uses[row.text]
    BY <2>1, <2>2, <1>1
  <2>4. cs[c] = "null" \/ \E row \in ToSet(t) : row.path = cs[c] /\ c[2] \in Defs[row.text]
    BY <2>1, <2>2, <1>1, <1>2
  <2> QED
    BY <2>3, <2>4
<1>5. ASSUME NEW r \in rs
      PROVE  \E row, target \in ToSet(t) : /\ row.path = r[1] /\ r[2] \in Uses[row.text]
                                           /\ target.path = r[3] /\ r[2] \in Defs[target.text]
  <2>1. PICK row \in ToSet(files), target \in ToSet(files) :
          /\ row.path = r[1] /\ r[2] \in Uses[row.text]
          /\ target.path = r[3] /\ r[2] \in Defs[target.text]
    BY <1>3 DEF TablesInv, EdgesIn
  <2>2. row \in ToSet(t) /\ target \in ToSet(t)
    BY <2>1, <1>1, <1>3
  <2> QED
    BY <2>1, <2>2
<1>6. UsesCovered(t, cs)
  <2> SUFFICES ASSUME NEW row \in ToSet(t), Defs[row.text] # {}, NEW name \in Uses[row.text]
               PROVE  <<row.path, name>> \in DOMAIN cs
    BY DEF UsesCovered
  <2>1. row \in ToSet(files) /\ row.path \notin gone
    BY <1>1
  <2>2. <<row.path, name>> \in DOMAIN calls
    BY <2>1 DEF TablesInv, UsesCovered
  <2> QED
    BY <1>2, <2>1, <2>2
<1> QED
  BY <1>1, <1>4, <1>5, <1>6 DEF EdgesIn, t, cs, rs

\* Storing a file replaces its row, its edges, and the edges that led to it.
LEMMA StoreKeeps ==
  ASSUME GraphAssumption, TablesInv, NEW new \in FileRows
  PROVE  LET p == new.path
             t == Append(RowsWithout({p}), new)
             cs == Joined(CallsOf(p, new.text), CallsWithout({p}))
             rs == RefsWithout({p}) \cup RefsOf(p, new.text, RowsWithout({p}))
         IN /\ TableOK(t) /\ EdgesIn(t, cs, rs) /\ UsesCovered(t, cs)
            /\ ToSet(t) = {row \in ToSet(files) : row.path # p} \cup {new}
<1> DEFINE p == new.path
           x == new.text
           old == RowsWithout({p})
           t == Append(old, new)
           kept == CallsWithout({p})
           own == CallsOf(p, x)
           cs == Joined(own, kept)
           rs == RefsWithout({p}) \cup RefsOf(p, x, old)
<1>1. /\ TableOK(old) /\ EdgesIn(old, kept, RefsWithout({p})) /\ UsesCovered(old, kept)
      /\ ToSet(old) = {row \in ToSet(files) : row.path # p}
  <2>1. ToSet(old) = {row \in ToSet(files) : row.path \notin {p}}
    BY KeptRows DEF TablesInv
  <2>2. \A row : row.path \notin {p} <=> row.path # p
    OBVIOUS
  <2> QED
    BY <2>1, <2>2, DeleteKeeps
<1>2. p \in Paths /\ x \in Texts /\ new = [path |-> p, text |-> x]
  BY DEF FileRows
<1>3. /\ old \in Seq(FileRows) /\ Len(old) \in Nat /\ DOMAIN old = 1..Len(old)
      /\ \A i \in 1..Len(old) : old[i].path # p
  <2>1. old \in Seq(FileRows) /\ Len(old) \in Nat /\ DOMAIN old = 1..Len(old)
    BY <1>1 DEF TableOK
  <2>2. \A i \in 1..Len(old) : old[i] \in ToSet(old)
    BY <2>1 DEF ToSet
  <2> QED
    BY <1>1, <2>1, <2>2
<1> HIDE DEF old
<1>4. /\ t \in Seq(FileRows) /\ Len(t) = Len(old) + 1 /\ t[Len(old) + 1] = new
      /\ \A i \in 1..Len(old) : t[i] = old[i]
      /\ DOMAIN t = 1..(Len(old) + 1)
  BY <1>3
<1> HIDE DEF t
<1>5. ToSet(t) = ToSet(old) \cup {new}
  <2>1. \A r : r \in ToSet(t) <=> \E i \in 1..(Len(old) + 1) : t[i] = r
    BY <1>4 DEF ToSet
  <2>2. \A r : r \in ToSet(old) <=> \E i \in 1..Len(old) : old[i] = r
    BY <1>3 DEF ToSet
  <2>3. \A i \in 1..(Len(old) + 1) : i \in 1..Len(old) \/ i = Len(old) + 1
    BY <1>3
  <2>4. ASSUME NEW r PROVE r \in ToSet(t) <=> r \in ToSet(old) \/ r = new
    <3>1. ASSUME r \in ToSet(t) PROVE r \in ToSet(old) \/ r = new
      BY <2>1, <2>2, <2>3, <1>4, <3>1
    <3>2. ASSUME r \in ToSet(old) PROVE r \in ToSet(t)
      <4>1. PICK i \in 1..Len(old) : old[i] = r
        BY <2>2, <3>2
      <4>2. i \in 1..(Len(old) + 1) /\ t[i] = r
        BY <4>1, <1>3, <1>4
      <4> QED
        BY <2>1, <4>2
    <3>3. new \in ToSet(t)
      <4>1. Len(old) + 1 \in 1..(Len(old) + 1)
        BY <1>3
      <4> QED
        BY <2>1, <1>4, <4>1
    <3> QED
      BY <3>1, <3>2, <3>3
  <2> QED
    BY <2>4
<1>6. OneRowEach(t)
  <2> SUFFICES ASSUME NEW i \in 1..Len(t), NEW j \in 1..Len(t), t[i].path = t[j].path
               PROVE  i = j
    BY DEF OneRowEach
  <2>1. \A k \in 1..Len(t) : (k \in 1..Len(old) /\ t[k] = old[k]) \/ (k = Len(old) + 1 /\ t[k] = new)
    BY <1>3, <1>4
  <2>2. \A k, l \in 1..Len(old) : old[k].path = old[l].path => k = l
    BY <1>1 DEF TableOK, OneRowEach
  <2>3. CASE i \in 1..Len(old) /\ t[i] = old[i]
    BY <2>1, <2>2, <2>3, <1>3
  <2>4. CASE i = Len(old) + 1 /\ t[i] = new
    BY <2>1, <2>4, <1>3
  <2> QED
    BY <2>1, <2>3, <2>4
<1>7. /\ DOMAIN own = IF Defs[x] = {} THEN {} ELSE {p} \X Uses[x]
      /\ \A c \in DOMAIN own : own[c] = IF c[2] \in Defs[x] THEN p ELSE "null"
  BY DEF CallsOf
<1> HIDE DEF own, kept
<1>8. /\ DOMAIN cs = DOMAIN own \cup DOMAIN kept
      /\ \A c \in DOMAIN cs : cs[c] = IF c \in DOMAIN own THEN own[c] ELSE kept[c]
  BY DEF Joined
<1> HIDE DEF cs
<1>9. ASSUME NEW c \in DOMAIN cs
      PROVE  /\ \E row \in ToSet(t) : row.path = c[1] /\ c[2] \in Uses[row.text]
             /\ cs[c] = "null" \/ \E row \in ToSet(t) : row.path = cs[c] /\ c[2] \in Defs[row.text]
  <2>1. CASE c \in DOMAIN own
    <3>1. c[1] = p /\ c[2] \in Uses[x] /\ cs[c] = IF c[2] \in Defs[x] THEN p ELSE "null"
      BY <2>1, <1>7, <1>8
    <3>2. new \in ToSet(t) /\ new.path = p /\ new.text = x
      BY <1>5
    <3> QED
      BY <3>1, <3>2
  <2>2. CASE c \notin DOMAIN own
    <3>1. c \in DOMAIN kept /\ cs[c] = kept[c]
      BY <2>2, <1>8
    <3> QED
      BY <3>1, <1>1, <1>5 DEF EdgesIn
  <2> QED
    BY <2>1, <2>2
<1>10. ASSUME NEW r \in rs
       PROVE  \E row, target \in ToSet(t) : /\ row.path = r[1] /\ r[2] \in Uses[row.text]
                                            /\ target.path = r[3] /\ r[2] \in Defs[target.text]
  <2>1. CASE r \in RefsWithout({p})
    BY <2>1, <1>1, <1>5 DEF EdgesIn
  <2>2. CASE r \in RefsOf(p, x, old)
    <3>1. /\ r[1] = p /\ r[2] \in Uses[x] /\ r[3] \in Paths
          /\ r[3] = IF r[2] \in Defs[x] THEN p ELSE Definer(old, r[2])
      BY <2>2 DEF RefsOf
    <3>2. new \in ToSet(t) /\ new.path = p /\ new.text = x
      BY <1>5
    <3>3. CASE r[2] \in Defs[x]
      BY <3>1, <3>2, <3>3
    <3>4. CASE r[2] \notin Defs[x]
      <4>1. Definer(old, r[2]) # "null"
        BY <3>1, <3>4 DEF GraphAssumption
      <4>2. PICK target \in ToSet(old) :
              target.path = Definer(old, r[2]) /\ r[2] \in Defs[target.text]
        BY <4>1, <1>3, DefinerSound
      <4> QED
        BY <3>1, <3>2, <3>4, <4>2, <1>5
    <3> QED
      BY <3>3, <3>4
  <2> QED
    BY <2>1, <2>2
<1>11. UsesCovered(t, cs)
  <2> SUFFICES ASSUME NEW row \in ToSet(t), Defs[row.text] # {}, NEW name \in Uses[row.text]
               PROVE  <<row.path, name>> \in DOMAIN cs
    BY DEF UsesCovered
  <2>1. CASE row = new
    BY <2>1, <1>7, <1>8
  <2>2. CASE row \in ToSet(old)
    BY <2>2, <1>1, <1>8 DEF UsesCovered
  <2> QED
    BY <2>1, <2>2, <1>5
<1> QED
  BY <1>1, <1>4, <1>5, <1>6, <1>9, <1>10, <1>11 DEF TableOK, EdgesIn, t, cs, own, kept, old

\* A call that was open leads to a file that defines its name, or stays open
\* since none does.
LEMMA ResolveKeeps ==
  ASSUME TablesInv
  PROVE  /\ EdgesIn(files, Resolved(files), refs) /\ UsesCovered(files, Resolved(files))
         /\ \A c \in DOMAIN Resolved(files) :
              Resolved(files)[c] = "null" => Definer(files, c[2]) = "null"
<1> DEFINE cs == Resolved(files)
<1>1. /\ DOMAIN cs = DOMAIN calls
      /\ \A c \in DOMAIN cs : cs[c] = IF calls[c] = "null" THEN Definer(files, c[2]) ELSE calls[c]
  BY DEF Resolved
<1>2. files \in Seq(FileRows)
  BY DEF TablesInv, TableOK
<1> HIDE DEF cs
<1>3. ASSUME NEW c \in DOMAIN cs
      PROVE  /\ \E row \in ToSet(files) : row.path = c[1] /\ c[2] \in Uses[row.text]
             /\ \/ cs[c] = "null"
                \/ \E row \in ToSet(files) : row.path = cs[c] /\ c[2] \in Defs[row.text]
             /\ cs[c] = "null" => Definer(files, c[2]) = "null"
  <2>1. /\ \E row \in ToSet(files) : row.path = c[1] /\ c[2] \in Uses[row.text]
        /\ calls[c] = "null" \/ \E row \in ToSet(files) : row.path = calls[c] /\ c[2] \in Defs[row.text]
    BY <1>1 DEF TablesInv, EdgesIn
  <2>2. CASE calls[c] = "null"
    <3>1. cs[c] = Definer(files, c[2])
      BY <1>1, <2>2
    <3>2. \/ Definer(files, c[2]) = "null"
          \/ \E row \in ToSet(files) : row.path = Definer(files, c[2]) /\ c[2] \in Defs[row.text]
      BY <1>2, DefinerSound
    <3> QED
      BY <2>1, <3>1, <3>2
  <2>3. CASE calls[c] # "null"
    BY <2>1, <2>3, <1>1
  <2> QED
    BY <2>2, <2>3
<1>4. EdgesIn(files, cs, refs)
  BY <1>3 DEF EdgesIn, TablesInv
<1>5. UsesCovered(files, cs)
  BY <1>1 DEF UsesCovered, TablesInv
<1> QED
  BY <1>3, <1>4, <1>5 DEF cs

\* At first there is nothing in the graph.
LEMMA GraphInitOK ==
  ASSUME GraphInit
  PROVE  GraphInv
<1>1. GraphTyped
  BY DEF GraphInit, GraphTyped, Resting
<1>2. TablesInv
  <2>1. files = <<>> /\ calls = <<>> /\ refs = {} /\ Len(<<>>) = 0 /\ 1..0 = {}
    BY DEF GraphInit
  <2>2. TableOK(files)
    BY <2>1 DEF TableOK, OneRowEach
  <2>3. ToSet(files) = {} /\ DOMAIN calls = {}
    BY <2>1 DEF ToSet
  <2> QED
    BY <2>1, <2>2, <2>3 DEF TablesInv, EdgesIn, UsesCovered
<1>3. ASSUME NEW x \in Indexers PROVE SoloInv(x)
  BY DEF GraphInit, SoloInv
<1> QED
  BY <1>1, <1>2, <1>3 DEF GraphInv

\* The paths of the table are paths.
LEMMA StoredPathsTyped ==
  ASSUME TablesInv
  PROVE  StoredPaths \subseteq Paths
<1>1. files \in Seq(FileRows)
  BY DEF TablesInv, TableOK
<1>2. \A row \in ToSet(files) : row \in FileRows
  BY <1>1 DEF ToSet
<1> QED
  BY <1>2 DEF StoredPaths, FileRows

\* Every action keeps the types.
LEMMA GraphTypedStep ==
  ASSUME GraphAssumption, GraphTyped, TablesInv, [GraphNext]_graphVars
  PROVE  GraphTyped'
<1> USE DEF GraphTyped, Move, Resting
<1>1. ASSUME NEW p \in Paths, NEW text \in Texts \cup {"none", "bad"}, EditFile(p, text)
      PROVE  GraphTyped'
  BY <1>1 DEF EditFile, indexerVars
<1>2. ASSUME NEW x \in Indexers, NEW w \in Workspaces, NEW walked \in SUBSET There(w),
             NEW f \in BOOLEAN, StartIndex(x, w, walked, f)
      PROVE  GraphTyped'
  <2>1. w \in SUBSET Paths /\ walked \in SUBSET Paths
    BY DEF GraphAssumption, There
  <2> QED
    BY <1>2, <2>1 DEF StartIndex
<1>3. ASSUME NEW x \in Indexers, NEW p \in Paths, ReadFile(x, p) PROVE GraphTyped'
  <2>1. disk[p] \in Texts => [path |-> p, text |-> disk[p]] \in FileRows
    BY DEF FileRows
  <2> QED
    BY <1>3, <2>1 DEF ReadFile
<1>4. ASSUME NEW x \in Indexers, CheckHash(x) PROVE GraphTyped'
  BY <1>4 DEF CheckHash
<1>5. ASSUME NEW x \in Indexers, StoreFile(x) PROVE GraphTyped'
  BY <1>5 DEF StoreFile
<1>6. ASSUME NEW x \in Indexers, ListMissing(x) PROVE GraphTyped'
  BY <1>6, StoredPathsTyped DEF ListMissing
<1>7. ASSUME NEW x \in Indexers, PruneMissing(x) PROVE GraphTyped'
  BY <1>7 DEF PruneMissing
<1>8. ASSUME NEW x \in Indexers, ResolveCalls(x) PROVE GraphTyped'
  BY <1>8 DEF ResolveCalls
<1>9. ASSUME NEW x \in Indexers, GiveUp(x) PROVE GraphTyped'
  BY <1>9 DEF GiveUp
<1>10. ASSUME NEW x \in Indexers, EndEarly(x) PROVE GraphTyped'
  BY <1>10 DEF EndEarly
<1>11. CASE UNCHANGED graphVars
  BY <1>11 DEF graphVars, indexerVars
<1> HIDE DEF GraphTyped, Move, Resting
<1> QED
  BY <1>1, <1>2, <1>3, <1>4, <1>5, <1>6, <1>7, <1>8, <1>9, <1>10, <1>11 DEF GraphNext

\* Every action keeps the tables sound: a store, a prune and a resolution
\* change them, each in a transaction.
LEMMA TablesStep ==
  ASSUME GraphAssumption, GraphTyped, TablesInv, [GraphNext]_graphVars
  PROVE  TablesInv'
<1>1. CASE UNCHANGED <<files, calls, refs>>
  BY <1>1 DEF TablesInv
<1>2. ASSUME NEW x \in Indexers, StoreFile(x) PROVE TablesInv'
  <2>1. inHand[x] \in FileRows
    BY <1>2 DEF StoreFile, GraphTyped
  <2> QED
    BY <1>2, <2>1, StoreKeeps DEF StoreFile, TablesInv
<1>3. ASSUME NEW x \in Indexers, PruneMissing(x) PROVE TablesInv'
  BY <1>3, DeleteKeeps DEF PruneMissing, TablesInv
<1>4. ASSUME NEW x \in Indexers, ResolveCalls(x) PROVE TablesInv'
  BY <1>4, ResolveKeeps DEF ResolveCalls, TablesInv
<1>5. CASE \E p \in Paths, text \in Texts \cup {"none", "bad"} : EditFile(p, text)
  BY <1>1, <1>5 DEF EditFile
<1>6. ASSUME NEW x \in Indexers,
             \/ \E w \in Workspaces : \E walked \in SUBSET There(w), f \in BOOLEAN : StartIndex(x, w, walked, f)
             \/ \E p \in Paths : ReadFile(x, p)
             \/ CheckHash(x) \/ ListMissing(x) \/ GiveUp(x) \/ EndEarly(x)
      PROVE  TablesInv'
  BY <1>1, <1>6 DEF StartIndex, ReadFile, CheckHash, ListMissing, GiveUp, EndEarly
<1>7. CASE UNCHANGED graphVars
  BY <1>1, <1>7 DEF graphVars
<1> QED
  BY <1>2, <1>3, <1>4, <1>5, <1>6, <1>7 DEF GraphNext

\* While a run is undisturbed, whoever acts is that run.
LEMMA OnlySolo ==
  ASSUME NEW x \in Indexers, NEW y \in Indexers, SoloInv(x), solo[x], indexAt[y] \notin Resting
  PROVE  x = y
BY DEF SoloInv

\* What an action of an undisturbed run must establish of it.
LEMMA SoloAfter ==
  ASSUME GraphTyped, NEW y \in Indexers, indexAt[y] \notin Resting, NEW step,
         Move(y, step), solo' = solo, \A x \in Indexers : SoloInv(x),
         SoloInv(y) /\ solo[y] =>
           /\ step \in {"files", "check", "store"} => ReadInv(y)'
           /\ step \in {"check", "store"} => HandInv(y)'
           /\ step \in {"prune", "resolve", "done"} => StoredInv(y)'
           /\ step = "prune" => doomed'[y] = StoredPaths' \ Present(y)'
           /\ step \in {"resolve", "done"} => PrunedInv(y)'
           /\ step = "done" =>
                \A c \in DOMAIN calls' : calls'[c] = "null" => Definer(files', c[2]) = "null"
  PROVE  \A x \in Indexers : SoloInv(x)'
<1> SUFFICES ASSUME NEW x \in Indexers, solo[x] PROVE SoloInv(x)'
  BY DEF SoloInv
<1>1. x = y
  BY OnlySolo
<1>2. \A z \in Indexers \ {x} : indexAt[z] \in Resting
  BY DEF SoloInv
<1>3. indexAt'[y] = step /\ \A z \in Indexers \ {y} : indexAt'[z] = indexAt[z]
  BY DEF Move, GraphTyped
<1> QED
  BY <1>1, <1>2, <1>3 DEF SoloInv

\* Every action keeps what an undisturbed run has done, or ends the quiet.
LEMMA SoloStep ==
  ASSUME GraphAssumption, GraphTyped, TablesInv, \A x \in Indexers : SoloInv(x),
         [GraphNext]_graphVars
  PROVE  \A x \in Indexers : SoloInv(x)'
<1>1. ASSUME NEW p \in Paths, NEW text \in Texts \cup {"none", "bad"}, EditFile(p, text)
      PROVE  \A x \in Indexers : SoloInv(x)'
  BY <1>1 DEF EditFile, SoloInv
<1>2. ASSUME NEW y \in Indexers, NEW w \in Workspaces, NEW walked \in SUBSET There(w),
             NEW f \in BOOLEAN, StartIndex(y, w, walked, f)
      PROVE  \A x \in Indexers : SoloInv(x)'
  <2> SUFFICES ASSUME NEW x \in Indexers, solo'[x] PROVE SoloInv(x)'
    BY DEF SoloInv
  <2>1. x = y /\ walked = There(w) /\ \A z \in Indexers \ {x} : indexAt[z] \in Resting
    BY <1>2 DEF StartIndex
  <2>2. indexAt'[x] = "files" /\ \A z \in Indexers \ {x} : indexAt'[z] = indexAt[z]
    BY <1>2, <2>1 DEF StartIndex, Move, GraphTyped
  <2>3. /\ workspace'[x] = w /\ disk' = disk /\ files' = files
        /\ found'[x] = There(w) /\ todo'[x] = found'[x]
    BY <1>2, <2>1 DEF StartIndex, GraphTyped
  <2>4. ReadInv(x)'
    BY <2>3 DEF ReadInv, Present, There
  <2> QED
    BY <2>1, <2>2, <2>4 DEF SoloInv
<1>3. ASSUME NEW y \in Indexers, NEW p \in Paths, ReadFile(y, p)
      PROVE  \A x \in Indexers : SoloInv(x)'
  <2>1. /\ indexAt[y] = "files" /\ p \in todo[y] /\ todo'[y] = todo[y] \ {p}
        /\ UNCHANGED <<disk, files, workspace, found, solo>>
    BY <1>3 DEF ReadFile, GraphTyped
  <2>2. CASE disk[p] \in Texts
    <3>1. inHand'[y] = OnDisk(p) /\ Move(y, "check")
      BY <1>3, <2>2 DEF ReadFile, OnDisk, GraphTyped
    <3>2. ASSUME SoloInv(y), solo[y] PROVE ReadInv(y)' /\ HandInv(y)'
      <4>1. ReadInv(y)
        BY <3>2, <2>1 DEF SoloInv
      <4>2. found'[y] = Present(y)' /\ todo'[y] \subseteq found'[y]
        BY <4>1, <2>1 DEF ReadInv, Present, There
      <4>3. p \in found'[y] \ todo'[y] /\ disk'[p] \in Texts /\ inHand'[y] = OnDisk(p)'
        BY <4>1, <2>1, <2>2, <3>1 DEF ReadInv, OnDisk
      <4>4. ASSUME NEW q \in found'[y] \ todo'[y], disk'[q] \in Texts
            PROVE  OnDisk(q)' \in ToSet(files') \/ (indexAt'[y] # "files" /\ inHand'[y] = OnDisk(q)')
        <5>1. CASE q = p
          <6>1. indexAt'[y] = "check"
            BY <3>1 DEF Move, GraphTyped
          <6> QED
            BY <5>1, <4>3, <6>1
        <5>2. CASE q # p
          <6>1. q \in found[y] \ todo[y] /\ disk[q] \in Texts /\ OnDisk(q)' = OnDisk(q)
            BY <4>4, <5>2, <2>1 DEF OnDisk
          <6> QED
            BY <6>1, <4>1, <2>1 DEF ReadInv
        <5> QED
          BY <5>1, <5>2
      <4>5. ReadInv(y)'
        BY <4>2, <4>4 DEF ReadInv
      <4> QED
        BY <4>3, <4>5 DEF HandInv
    <3> QED
      BY <2>1, <3>1, <3>2, SoloAfter DEF Resting
  <2>3. CASE disk[p] \notin Texts
    <3>1. inHand' = inHand /\ Move(y, "files") /\ indexAt' = indexAt
      BY <1>3, <2>1, <2>3 DEF ReadFile, Move, GraphTyped
    <3>2. ASSUME SoloInv(y), solo[y] PROVE ReadInv(y)'
      <4>1. ReadInv(y)
        BY <3>2, <2>1 DEF SoloInv
      <4>2. found'[y] = Present(y)' /\ todo'[y] \subseteq found'[y]
        BY <4>1, <2>1 DEF ReadInv, Present, There
      <4>3. ASSUME NEW q \in found'[y] \ todo'[y], disk'[q] \in Texts
            PROVE  OnDisk(q)' \in ToSet(files')
        <5>1. q \in found[y] \ todo[y] /\ disk[q] \in Texts /\ OnDisk(q)' = OnDisk(q)
          BY <4>3, <2>1, <2>3 DEF OnDisk
        <5> QED
          BY <5>1, <4>1, <2>1 DEF ReadInv
      <4> QED
        BY <4>2, <4>3 DEF ReadInv
    <3> QED
      BY <2>1, <3>1, <3>2, SoloAfter DEF Resting
  <2> QED
    BY <2>2, <2>3
<1>4. ASSUME NEW y \in Indexers, CheckHash(y) PROVE \A x \in Indexers : SoloInv(x)'
  <2>1. indexAt[y] = "check" /\ UNCHANGED <<disk, files, workspace, found, todo, solo>>
    BY <1>4 DEF CheckHash
  <2>0. Present(y)' = Present(y) /\ \A q : OnDisk(q)' = OnDisk(q)
    BY <2>1 DEF Present, There, OnDisk
  <2>2. CASE ~force[y] /\ Unchanged(y)
    <3>1. Move(y, "files") /\ inHand[y] \in ToSet(files) /\ indexAt'[y] = "files"
      BY <1>4, <2>2 DEF CheckHash, Unchanged, Move, GraphTyped
    <3>2. ASSUME SoloInv(y), solo[y] PROVE ReadInv(y)'
      <4>1. ReadInv(y)
        BY <3>2, <2>1 DEF SoloInv
      <4>2. ASSUME NEW q \in found'[y] \ todo'[y], disk'[q] \in Texts
            PROVE  OnDisk(q)' \in ToSet(files')
        BY <4>1, <4>2, <2>0, <2>1, <3>1 DEF ReadInv
      <4>3. found'[y] = Present(y)' /\ todo'[y] \subseteq found'[y]
        BY <4>1, <2>0, <2>1 DEF ReadInv
      <4> QED
        BY <4>2, <4>3 DEF ReadInv
    <3> QED
      BY <2>1, <3>1, <3>2, SoloAfter DEF Resting
  <2>3. CASE ~(~force[y] /\ Unchanged(y))
    <3>1. Move(y, "store") /\ inHand' = inHand /\ indexAt'[y] = "store"
      BY <1>4, <2>3 DEF CheckHash, Move, GraphTyped
    <3>2. ASSUME SoloInv(y), solo[y] PROVE ReadInv(y)' /\ HandInv(y)'
      <4>1. ReadInv(y) /\ HandInv(y)
        BY <3>2, <2>1 DEF SoloInv
      <4>2. ASSUME NEW q \in found'[y] \ todo'[y], disk'[q] \in Texts
            PROVE  OnDisk(q)' \in ToSet(files') \/ (indexAt'[y] # "files" /\ inHand'[y] = OnDisk(q)')
        BY <4>1, <4>2, <2>0, <2>1, <3>1 DEF ReadInv
      <4>3. found'[y] = Present(y)' /\ todo'[y] \subseteq found'[y]
        BY <4>1, <2>0, <2>1 DEF ReadInv
      <4>4. HandInv(y)'
        BY <4>1, <2>0, <2>1, <3>1 DEF HandInv
      <4> QED
        BY <4>2, <4>3, <4>4 DEF ReadInv
    <3> QED
      BY <2>1, <3>1, <3>2, SoloAfter DEF Resting
  <2> QED
    BY <2>2, <2>3
<1>5. ASSUME NEW y \in Indexers, StoreFile(y) PROVE \A x \in Indexers : SoloInv(x)'
  <2> DEFINE new == inHand[y]
  <2>1. /\ indexAt[y] = "store" /\ Move(y, "files") /\ indexAt'[y] = "files"
        /\ UNCHANGED <<disk, workspace, found, todo, solo>>
    BY <1>5 DEF StoreFile, Move, GraphTyped
  <2>2. new \in FileRows /\ ToSet(files') = {row \in ToSet(files) : row.path # new.path} \cup {new}
    <3>1. new \in FileRows
      BY <2>1 DEF GraphTyped
    <3>2. files' = Append(RowsWithout({new.path}), new)
      BY <1>5 DEF StoreFile
    <3> HIDE DEF new
    <3> QED
      BY <3>1, <3>2, StoreKeeps
  <2>0. Present(y)' = Present(y) /\ \A q : OnDisk(q)' = OnDisk(q) /\ OnDisk(q).path = q
    BY <2>1 DEF Present, There, OnDisk
  <2>3. ASSUME SoloInv(y), solo[y] PROVE ReadInv(y)'
    <3>1. ReadInv(y) /\ HandInv(y)
      BY <2>3, <2>1 DEF SoloInv
    <3>2. PICK p : new = OnDisk(p) /\ new.path = p
      BY <3>1, <2>0 DEF HandInv
    <3>3. ASSUME NEW q \in found'[y] \ todo'[y], disk'[q] \in Texts
          PROVE  OnDisk(q)' \in ToSet(files')
      <4>1. OnDisk(q) \in ToSet(files) \/ new = OnDisk(q)
        BY <3>1, <3>3, <2>1 DEF ReadInv
      <4>2. CASE q = p
        BY <4>2, <3>2, <2>2, <2>0
      <4>3. CASE q # p
        <5>1. OnDisk(q) \in ToSet(files) /\ OnDisk(q).path # new.path
          BY <4>1, <4>3, <3>2, <2>0
        <5> QED
          BY <5>1, <2>2, <2>0
      <4> QED
        BY <4>2, <4>3
    <3>4. found'[y] = Present(y)' /\ todo'[y] \subseteq found'[y]
      BY <3>1, <2>0, <2>1 DEF ReadInv
    <3> QED
      BY <3>3, <3>4 DEF ReadInv
  <2> QED
    BY <2>1, <2>3, SoloAfter DEF Resting
<1>6. ASSUME NEW y \in Indexers, ListMissing(y) PROVE \A x \in Indexers : SoloInv(x)'
  <2>1. /\ indexAt[y] = "files" /\ todo[y] = {} /\ Move(y, "prune")
        /\ doomed'[y] = StoredPaths \ found[y] /\ UNCHANGED <<disk, files, workspace, solo>>
    BY <1>6 DEF ListMissing, GraphTyped
  <2>0. Present(y)' = Present(y) /\ StoredPaths' = StoredPaths /\ \A q : OnDisk(q)' = OnDisk(q)
    BY <2>1 DEF Present, There, OnDisk, StoredPaths
  <2>2. ASSUME SoloInv(y), solo[y]
        PROVE  StoredInv(y)' /\ doomed'[y] = StoredPaths' \ Present(y)'
    <3>1. ReadInv(y)
      BY <2>2, <2>1 DEF SoloInv
    <3>2. ASSUME NEW q \in workspace'[y], disk'[q] \in Texts PROVE OnDisk(q)' \in ToSet(files')
      <4>1. q \in workspace[y] /\ disk[q] \in Texts /\ disk[q] # "none"
        BY <3>2, <2>1 DEF GraphAssumption
      <4>2. q \in found[y] \ todo[y]
        BY <4>1, <3>1, <2>1 DEF ReadInv, Present, There
      <4> QED
        BY <4>1, <4>2, <3>1, <2>0, <2>1 DEF ReadInv
    <3> QED
      BY <3>1, <3>2, <2>0, <2>1 DEF StoredInv, ReadInv
  <2> QED
    BY <2>1, <2>2, SoloAfter DEF Resting
<1>7. ASSUME NEW y \in Indexers, PruneMissing(y) PROVE \A x \in Indexers : SoloInv(x)'
  <2>1. /\ indexAt[y] = "prune" /\ Move(y, "resolve") /\ UNCHANGED <<disk, workspace, solo>>
        /\ ToSet(files') = {row \in ToSet(files) : row.path \notin doomed[y]}
    BY <1>7, KeptRows DEF PruneMissing, TablesInv
  <2>0. Present(y)' = Present(y) /\ \A q : OnDisk(q)' = OnDisk(q) /\ OnDisk(q).path = q
    BY <2>1 DEF Present, There, OnDisk
  <2>2. ASSUME SoloInv(y), solo[y] PROVE StoredInv(y)' /\ PrunedInv(y)'
    <3>1. StoredInv(y) /\ doomed[y] = StoredPaths \ Present(y)
      BY <2>2, <2>1 DEF SoloInv
    <3>2. ASSUME NEW q \in workspace'[y], disk'[q] \in Texts PROVE OnDisk(q)' \in ToSet(files')
      <4>1. q \in workspace[y] /\ disk[q] \in Texts /\ disk[q] # "none"
        BY <3>2, <2>1 DEF GraphAssumption
      <4>2. OnDisk(q) \in ToSet(files) /\ q \notin doomed[y]
        BY <4>1, <3>1 DEF StoredInv, Present, There
      <4> QED
        BY <4>2, <2>0, <2>1
    <3>3. PrunedInv(y)'
      <4>1. \A row \in ToSet(files') : row.path \in Present(y)
        BY <3>1, <2>1 DEF StoredPaths
      <4> QED
        BY <4>1, <2>0 DEF PrunedInv, StoredPaths
    <3> QED
      BY <3>2, <3>3 DEF StoredInv
  <2> QED
    BY <2>1, <2>2, SoloAfter DEF Resting
<1>8. ASSUME NEW y \in Indexers, ResolveCalls(y) PROVE \A x \in Indexers : SoloInv(x)'
  <2>1. /\ indexAt[y] = "resolve" /\ Move(y, "done") /\ UNCHANGED <<disk, files, workspace, solo>>
        /\ \A c \in DOMAIN calls' : calls'[c] = "null" => Definer(files', c[2]) = "null"
    BY <1>8, ResolveKeeps DEF ResolveCalls
  <2>2. ASSUME SoloInv(y), solo[y] PROVE StoredInv(y)' /\ PrunedInv(y)'
    <3>1. StoredInv(y) /\ PrunedInv(y)
      BY <2>2, <2>1 DEF SoloInv
    <3> QED
      BY <3>1, <2>1 DEF StoredInv, PrunedInv, StoredPaths, Present, There, OnDisk
  <2> QED
    BY <2>1, <2>2, SoloAfter DEF Resting
<1>9. ASSUME NEW y \in Indexers, GiveUp(y) \/ EndEarly(y) PROVE \A x \in Indexers : SoloInv(x)'
  <2>1. indexAt[y] \notin Resting /\ solo' = [solo EXCEPT ![y] = FALSE]
    BY <1>9 DEF GiveUp, EndEarly, Resting
  <2> SUFFICES ASSUME NEW x \in Indexers, solo'[x] PROVE FALSE
    BY DEF SoloInv
  <2>2. solo[x] /\ x # y
    BY <2>1 DEF GraphTyped
  <2> QED
    BY <2>1, <2>2, OnlySolo
<1>10. CASE UNCHANGED graphVars
  BY <1>10 DEF graphVars, indexerVars, SoloInv, ReadInv, HandInv, StoredInv, PrunedInv,
               StoredPaths, Present, There, OnDisk
<1> QED
  BY <1>1, <1>2, <1>3, <1>4, <1>5, <1>6, <1>7, <1>8, <1>9, <1>10 DEF GraphNext

\* What the run checks follows from it.
LEMMA GraphConsistentFromInv ==
  ASSUME GraphInv
  PROVE  GraphConsistent
<1>1. /\ files \in Seq(FileRows) /\ DOMAIN files = 1..Len(files)
      /\ \A i, j \in 1..Len(files) : files[i].path = files[j].path => i = j
  BY DEF GraphInv, TablesInv, TableOK, OneRowEach
<1>2. IsInjective([i \in DOMAIN files |-> files[i].path])
  BY <1>1 DEF IsInjective
<1>3. EdgesSound
  BY DEF GraphInv, TablesInv, EdgesIn, EdgesSound
<1>4. SoloRunMends
  <2> SUFFICES ASSUME NEW x \in Indexers, indexAt[x] = "done", solo[x]
               PROVE
       /\ \A p \in workspace[x] :
            /\ disk[p] \in Texts => [path |-> p, text |-> disk[p]] \in ToSet(files)
            /\ disk[p] = "none" => p \notin StoredPaths
       /\ \A row \in ToSet(files), name \in UNION {Uses[t] : t \in Texts} :
            Defs[row.text] # {} /\ name \in Uses[row.text] =>
              /\ <<row.path, name>> \in DOMAIN calls
              /\ calls[<<row.path, name>>] = "null" => Definer(files, name) = "null"
    BY DEF SoloRunMends
  <2>1. /\ StoredInv(x) /\ PrunedInv(x)
        /\ \A c \in DOMAIN calls : calls[c] = "null" => Definer(files, c[2]) = "null"
    BY DEF GraphInv, SoloInv
  <2>2. ASSUME NEW row \in ToSet(files), Defs[row.text] # {}, NEW name \in Uses[row.text]
        PROVE  /\ <<row.path, name>> \in DOMAIN calls
               /\ calls[<<row.path, name>>] = "null" => Definer(files, name) = "null"
    <3>1. <<row.path, name>> \in DOMAIN calls
      BY <2>2 DEF GraphInv, TablesInv, UsesCovered
    <3>2. <<row.path, name>>[2] = name
      OBVIOUS
    <3> QED
      BY <3>1, <3>2, <2>1
  <2>3. ASSUME NEW p \in workspace[x]
        PROVE  /\ disk[p] \in Texts => [path |-> p, text |-> disk[p]] \in ToSet(files)
               /\ disk[p] = "none" => p \notin StoredPaths
    BY <2>1 DEF StoredInv, PrunedInv, Present, There, OnDisk
  <2> QED
    BY <2>2, <2>3
<1> QED
  BY <1>2, <1>3, <1>4 DEF GraphConsistent

\* The edges are sound at every moment, and the next quiet run that looks at the
\* whole of its workspace mends its rows and the open calls, for any files, texts,
\* workspaces, indexers, walks that miss files and processes that die.
THEOREM GraphAlwaysConsistent == GraphSpec => []GraphConsistent
<1>1. GraphInit => GraphInv
  BY GraphInitOK
<1>2. GraphInv /\ [GraphNext]_graphVars => GraphInv'
  BY GraphAssumption, GraphTypedStep, TablesStep, SoloStep DEF GraphInv
<1>3. GraphInv => GraphConsistent
  BY GraphConsistentFromInv
<1> QED
  BY <1>1, <1>2, <1>3, PTL DEF GraphSpec

-----------------------------------------------------------------------------
(* The fusion engine.                                                      *)

\* No element of a list stands in it twice.
Distinctly(l) == \A i, j \in 1..Len(l) : l[i] = l[j] => i = j

\* What is left of a list is of the list, in its order, and without those passed over.
Left(T, list, gone, l, n) ==
  /\ l \in Seq(T)
  /\ \A i \in 1..Len(l) : \E j \in 1..n : l[i] = list[j] /\ list[j] \notin gone
  /\ Distinctly(list) => Distinctly(l)

\* The recursive function of a filtered list satisfies its equation.
LEMMA FilterDef ==
  ASSUME NEW list, NEW gone, Len(list) \in Nat
  PROVE  Filtered(list, gone) =
           [n \in 0..Len(list) |->
              IF n = 0 THEN <<>>
              ELSE IF list[n] \in gone THEN Filtered(list, gone)[n - 1]
              ELSE Append(Filtered(list, gone)[n - 1], list[n])]
<1> DEFINE G(l, n) == IF list[n] \in gone THEN l ELSE Append(l, list[n])
           F(f, k) == [n \in 0..k |-> IF n = 0 THEN <<>> ELSE G(f[n - 1], n)]
           S == {k \in Nat : \E f : f = F(f, k)}
<1> HIDE DEF G
<1>1. 0 \in S
  <2> DEFINE f == [n \in 0..0 |-> <<>>]
  <2>1. f = F(f, 0)
    OBVIOUS
  <2> QED
    BY <2>1
<1>2. ASSUME NEW k \in Nat, k \in S PROVE k + 1 \in S
  <2>1. PICK f : f = F(f, k)
    BY <1>2
  <2> HIDE DEF F
  <2> DEFINE g == [n \in 0..(k + 1) |-> IF n = k + 1 THEN G(f[k], n) ELSE f[n]]
  <2>2. ASSUME NEW n \in 0..(k + 1)
        PROVE  g[n] = IF n = 0 THEN <<>> ELSE G(g[n - 1], n)
    <3>1. CASE n = 0
      <4>1. f[0] = <<>>
        BY <2>1 DEF F
      <4> QED
        BY <3>1, <4>1
    <3>2. CASE n = k + 1
      <4>1. g[n] = G(f[k], n) /\ n # 0 /\ g[n - 1] = f[k]
        BY <3>2
      <4> QED
        BY <4>1
    <3>3. CASE n # 0 /\ n # k + 1
      <4>1. n \in 0..k /\ n - 1 \in 0..(k + 1) /\ n - 1 # k + 1
        BY <3>3
      <4>2. f[n] = G(f[n - 1], n)
        BY <2>1, <3>3, <4>1 DEF F
      <4> QED
        BY <3>3, <4>1, <4>2
    <3> QED
      BY <3>1, <3>2, <3>3
  <2>3. g = F(g, k + 1)
    BY <2>2 DEF F
  <2> QED
    BY <2>3
<1>3. Len(list) \in S
  BY <1>1, <1>2, NatSetInduction
<1>4. \E f : f = F(f, Len(list))
  BY <1>3
<1> DEFINE kept == CHOOSE f : f = F(f, Len(list))
<1>5. Filtered(list, gone) = kept
  BY DEF Filtered, G
<1>6. kept = F(kept, Len(list))
  <2> HIDE DEF F
  <2> QED
    BY <1>4
<1> HIDE DEF kept
<1> QED
  BY <1>5, <1>6 DEF G

\* The steps of a filtered list: an element is passed over or comes last.
LEMMA FilterStep ==
  ASSUME NEW T, NEW list \in Seq(T), NEW gone
  PROVE  /\ Filtered(list, gone)[0] = <<>>
         /\ \A n \in 1..Len(list) :
              Filtered(list, gone)[n] = IF list[n] \in gone THEN Filtered(list, gone)[n - 1]
                                    ELSE Append(Filtered(list, gone)[n - 1], list[n])
<1>1. Len(list) \in Nat
  OBVIOUS
<1> DEFINE K == Filtered(list, gone)
<1>2. K = [n \in 0..Len(list) |->
              IF n = 0 THEN <<>>
              ELSE IF list[n] \in gone THEN K[n - 1]
              ELSE Append(K[n - 1], list[n])]
  BY <1>1, FilterDef
<1> HIDE DEF K
<1>3. K[0] = <<>>
  BY <1>1, <1>2
<1>4. ASSUME NEW n \in 1..Len(list)
      PROVE  K[n] = IF list[n] \in gone THEN K[n - 1] ELSE Append(K[n - 1], list[n])
  <2>1. n \in 0..Len(list) /\ n # 0
    BY <1>1
  <2> QED
    BY <1>2, <2>1
<1> QED
  BY <1>3, <1>4 DEF K

\* What is left after n elements, for every n.
LEMMA FilterLeaves ==
  ASSUME NEW T, NEW list \in Seq(T), NEW gone
  PROVE  \A n \in 0..Len(list) : Left(T, list, gone, Filtered(list, gone)[n], n)
<1> DEFINE K == Filtered(list, gone)
           S == {n \in Nat : n <= Len(list) => Left(T, list, gone, K[n], n)}
<1>0. Len(list) \in Nat
  OBVIOUS
<1>1. 0 \in S
  <2>1. K[0] = <<>>
    BY FilterStep
  <2>2. <<>> \in Seq(T) /\ Len(<<>>) = 0 /\ 1..0 = {}
    OBVIOUS
  <2>3. Left(T, list, gone, <<>>, 0)
    BY <2>2 DEF Left, Distinctly
  <2> HIDE DEF K
  <2> QED
    BY <2>1, <2>3
<1>2. ASSUME NEW n \in Nat, n \in S PROVE n + 1 \in S
  <2> SUFFICES ASSUME n + 1 <= Len(list) PROVE Left(T, list, gone, K[n + 1], n + 1)
    OBVIOUS
  <2>1. Left(T, list, gone, K[n], n)
    BY <1>0, <1>2
  <2>2. n + 1 \in 1..Len(list) /\ n + 1 - 1 = n
    BY <1>0
  <2>3. K[n + 1] = IF list[n + 1] \in gone THEN K[n] ELSE Append(K[n], list[n + 1])
    BY <2>2, FilterStep
  <2> HIDE DEF K
  <2>4. CASE list[n + 1] \in gone
    <3>1. K[n + 1] = K[n]
      BY <2>3, <2>4
    <3>2. \A j \in 1..n : j \in 1..(n + 1)
      OBVIOUS
    <3> QED
      BY <2>1, <3>1, <3>2 DEF Left
  <2>5. CASE list[n + 1] \notin gone
    <3> DEFINE l == K[n]  k == K[n + 1]
    <3>1. l \in Seq(T) /\ Len(l) \in Nat /\ list[n + 1] \in T
      BY <1>0, <2>1 DEF Left
    <3>2. k = Append(l, list[n + 1])
      BY <2>3, <2>5
    <3> HIDE DEF l, k
    <3>3. /\ k \in Seq(T) /\ Len(k) = Len(l) + 1 /\ k[Len(l) + 1] = list[n + 1]
          /\ \A i \in 1..Len(l) : k[i] = l[i]
      BY <3>1, <3>2
    <3>4. \A i \in 1..Len(l) : \E j \in 1..n : l[i] = list[j] /\ list[j] \notin gone
      BY <2>1 DEF Left, l
    <3>5. ASSUME NEW i \in 1..Len(k)
          PROVE  \E j \in 1..(n + 1) : k[i] = list[j] /\ list[j] \notin gone
      <4>1. CASE i = Len(l) + 1
        BY <2>5, <3>1, <3>3, <4>1
      <4>2. CASE i \in 1..Len(l)
        <5>1. PICK j \in 1..n : l[i] = list[j] /\ list[j] \notin gone
          BY <3>4, <4>2
        <5> QED
          BY <3>3, <4>2, <5>1
      <4> QED
        BY <3>1, <3>3, <4>1, <4>2
    <3>6. ASSUME Distinctly(list) PROVE Distinctly(k)
      <4>1. \A i \in 1..Len(l) : l[i] # list[n + 1]
        <5> SUFFICES ASSUME NEW i \in 1..Len(l), l[i] = list[n + 1] PROVE FALSE
          OBVIOUS
        <5>1. PICK j \in 1..n : l[i] = list[j]
          BY <3>4
        <5>2. j \in 1..Len(list) /\ n + 1 \in 1..Len(list) /\ j # n + 1
          BY <1>0
        <5> QED
          BY <3>6, <5>1, <5>2 DEF Distinctly
      <4>2. Distinctly(l)
        BY <2>1, <3>6 DEF Left, l
      <4> SUFFICES ASSUME NEW i \in 1..Len(k), NEW j \in 1..Len(k), k[i] = k[j] PROVE i = j
        BY DEF Distinctly
      <4>3. (i \in 1..Len(l) \/ i = Len(l) + 1) /\ (j \in 1..Len(l) \/ j = Len(l) + 1)
        BY <3>1, <3>3
      <4> QED
        BY <3>3, <4>1, <4>2, <4>3 DEF Distinctly
    <3> QED
      BY <3>3, <3>5, <3>6 DEF Left, l, k
  <2> QED
    BY <2>4, <2>5
<1>3. \A n \in Nat : n \in S
  BY <1>1, <1>2, NatSetInduction
<1> QED
  BY <1>0, <1>3

\* The least of a set of numbers, and the lesser and the greater of two.
LEMMA LeastOf ==
  ASSUME NEW S, S \subseteq Nat, S # {}
  PROVE  Min(S) \in S /\ \A y \in S : Min(S) <= y
<1>1. PICK m \in S : \A k \in S : ~(<<k, m>> \in OpToRel(<, Nat))
  BY NatLessThanWellFounded, WFMin
<1>2. ASSUME NEW y \in S PROVE m <= y
  <2>1. y \in Nat /\ m \in Nat
    OBVIOUS
  <2>2. ~(y < m)
    BY <1>1, <2>1 DEF OpToRel
  <2> QED
    BY <2>1, <2>2
<1> QED
  BY <1>2 DEF Min

LEMMA OfTwo ==
  ASSUME NEW a \in Int, NEW b \in Int
  PROVE  /\ Min({a, b}) = IF a <= b THEN a ELSE b
         /\ Max({a, b}) = IF a <= b THEN b ELSE a
  BY DEF Min, Max

\* The names a run deals with, and the entries of its panel.
Names(c) == Specialists \cup {c.forced, c.textgen} \cup ToSet(c.ranked) \cup ToSet(c.cached)
Entries(c) == [kind : {"hub", "local"}, model : Names(c)]

\* What the catalogue offers: a list of it, each model once, without the forced one.
LEMMA OffersOnce ==
  ASSUME NEW c \in Settings
  PROVE  /\ Offered(c) \in Seq(ToSet(c.ranked)) /\ Len(Offered(c)) \in Nat
         /\ Distinctly(Offered(c))
         /\ \A i \in 1..Len(Offered(c)) : Offered(c)[i] # c.forced
<1> DEFINE T == ToSet(c.ranked)
           n == Min({3 * MaxPanel, Len(c.ranked)})
           b == Best(c, 3 * MaxPanel)
<1>1. /\ c.ranked \in Seq(T) /\ MaxPanel \in Nat
      /\ \A i, j \in DOMAIN c.ranked : c.ranked[i] = c.ranked[j] => i = j
  BY FusionAssumption
<1>2. Len(c.ranked) \in Nat /\ DOMAIN c.ranked = 1..Len(c.ranked) /\ 3 * MaxPanel \in Nat
  BY <1>1
<1>3. n \in 0..Len(c.ranked)
  BY <1>2, OfTwo
<1>4. b = SubSeq(c.ranked, 1, n)
  BY DEF Best
<1> HIDE DEF n, b, T
<1>5. /\ b \in Seq(T) /\ Len(b) = n
      /\ \A i \in 1..n : b[i] = c.ranked[i]
  BY <1>1, <1>2, <1>3, <1>4
<1>6. Distinctly(b)
  <2> SUFFICES ASSUME NEW i \in 1..n, NEW j \in 1..n, b[i] = b[j] PROVE i = j
    BY <1>5 DEF Distinctly
  <2>1. i \in 1..Len(c.ranked) /\ j \in 1..Len(c.ranked)
    BY <1>2, <1>3
  <2> QED
    BY <1>1, <1>2, <1>5, <2>1
<1>7. n \in 0..Len(b)
  BY <1>2, <1>3, <1>5
<1>8. Left(T, b, {c.forced}, Filtered(b, {c.forced})[n], n)
  BY <1>5, <1>7, FilterLeaves
<1>9. Offered(c) = Filtered(b, {c.forced})[n]
  BY <1>5 DEF Offered, Without, b
<1> HIDE DEF Offered
<1>10. Left(T, b, {c.forced}, Offered(c), n)
  BY <1>8, <1>9
<1> QED
  BY <1>6, <1>10 DEF Left, T

\* The specialists and the forced model open the panel.
LEMMA SpecialsOpen ==
  ASSUME NEW c \in Settings
  PROVE  /\ Specials(c) \in Seq(Entries(c)) /\ Len(Specials(c)) \in 1..3
         /\ Len(Specials(c)) = 3 => c.forced # NoModel /\ c.glm
         /\ \A i \in 1..Len(Specials(c)) : Specials(c)[i].model \in Specialists \cup {c.forced}
<1> DEFINE E == Entries(c)
           Own == {e \in E : e.model \in Specialists \cup {c.forced}}
           flint == Prefer(c, FlintTag, FlintRepo)
           glm == Prefer(c, GlmTag, GlmRepo)
           mine == Prefer(c, c.forced, c.forced)
<1>1. flint \in Own /\ glm \in Own /\ mine \in Own
  BY DEF Prefer, Local, Hub, Entries, Names, Specialists
<1> HIDE DEF flint, glm, mine, Own
<1> DEFINE withGlm == <<flint>> \o IF c.glm THEN <<glm>> ELSE <<>>
           last == IF \/ c.forced \in {NoModel, FlintTag, FlintRepo}
                      \/ c.forced \in ModelsOf(withGlm)
                   THEN <<>> ELSE <<mine>>
<1>2. Specials(c) = withGlm \o last
  BY DEF Specials, flint, glm, mine
<1>3. /\ withGlm \in Seq(Own) /\ Len(withGlm) \in 1..2
      /\ Len(withGlm) = 2 => c.glm
  <2>1. CASE c.glm
    <3>1. withGlm = <<flint>> \o <<glm>>
      BY <2>1
    <3>2. <<flint>> \in Seq(Own) /\ <<glm>> \in Seq(Own) /\ Len(<<flint>>) = 1 /\ Len(<<glm>>) = 1
      BY <1>1
    <3>3. withGlm \in Seq(Own) /\ Len(withGlm) = 2
      BY <3>1, <3>2, ConcatProperties
    <3> QED
      BY <2>1, <3>3
  <2>2. CASE ~c.glm
    <3>1. withGlm = <<flint>>
      BY <1>1, <2>2
    <3> QED
      BY <1>1, <3>1
  <2> QED
    BY <2>1, <2>2
<1> HIDE DEF withGlm
<1>4. /\ last \in Seq(Own) /\ Len(last) \in 0..1
      /\ Len(last) = 1 => c.forced # NoModel
  BY <1>1
<1> HIDE DEF last
<1>5. /\ Specials(c) \in Seq(Own) /\ Len(Specials(c)) = Len(withGlm) + Len(last)
  BY <1>2, <1>3, <1>4, ConcatProperties
<1> HIDE DEF Specials
<1>6. /\ Len(Specials(c)) \in 1..3
      /\ Len(Specials(c)) = 3 => Len(withGlm) = 2 /\ Len(last) = 1
  <2>1. Len(withGlm) \in 1..2 /\ Len(last) \in 0..1
    BY <1>3, <1>4
  <2>2. Len(Specials(c)) = Len(withGlm) + Len(last)
    BY <1>5
  <2> DEFINE a == Len(withGlm)  b == Len(last)  n == Len(Specials(c))
  <2> HIDE DEF a, b, n
  <2>3. a \in 1..2 /\ b \in 0..1 /\ n = a + b
    BY <2>1, <2>2 DEF a, b, n
  <2>4. n \in 1..3 /\ (n = 3 => a = 2 /\ b = 1)
    BY <2>3
  <2> QED
    BY <2>4 DEF a, b, n
<1>7. Own \subseteq E
  BY DEF Own
<1>8. \A i \in 1..Len(Specials(c)) : Specials(c)[i] \in Own
  BY <1>5
<1> QED
  BY <1>3, <1>4, <1>5, <1>6, <1>7, <1>8 DEF Own

\* The catalogue is looked through until the panel is full, and no further.
LEMMA LooksFar ==
  ASSUME NEW c \in Settings
  PROVE  LET most == Len(Offered(c))
             U == Unseen(c, Looked(c))
         IN /\ Looked(c) \in 0..most
            /\ U \in Seq(ToSet(c.ranked))
            /\ \A i \in 1..Len(U) : \E j \in 1..Looked(c) : U[i] = Offered(c)[j]
            /\ Len(U) = 0 \/ Len(Specials(c)) + Len(U) <= MaxPanel
            /\ Looked(c) < most => Len(Specials(c)) + Len(U) >= MaxPanel
<1> DEFINE T == ToSet(c.ranked)
           O == Offered(c)
           most == Len(O)
           S == Specials(c)
           gone == ModelsOf(S)
           K == Filtered(O, gone)
           full == {k \in 0..most : Len(S \o Unseen(c, k)) >= MaxPanel}
<1>1. O \in Seq(T) /\ most \in Nat
  BY OffersOnce
<1>2. S \in Seq(Entries(c)) /\ Len(S) \in Nat
  BY SpecialsOpen
<1>3. \A k : Unseen(c, k) = K[k]
  BY DEF Unseen
<1> HIDE DEF O, S, T, gone
<1>4. \A k \in 0..most : Left(T, O, gone, K[k], k)
  BY <1>1, FilterLeaves
<1>5. /\ K[0] = <<>>
      /\ \A k \in 1..most : K[k] = IF O[k] \in gone THEN K[k - 1] ELSE Append(K[k - 1], O[k])
  BY <1>1, FilterStep
<1>6. MaxPanel \in Nat
  BY FusionAssumption
<1> HIDE DEF K
<1>7. \A k \in 0..most : K[k] \in Seq(T) /\ Len(K[k]) \in Nat
  BY <1>4 DEF Left
<1>8. \A k \in 0..most : Len(S \o K[k]) = Len(S) + Len(K[k])
  BY <1>2, <1>7
<1>9. full = {k \in 0..most : Len(S) + Len(K[k]) >= MaxPanel}
  BY <1>3, <1>8
<1>10. Looked(c) = IF full = {} THEN most ELSE Min(full)
  BY DEF Looked, O, S
<1> DEFINE L == Looked(c)
<1> HIDE DEF full, L
<1>11. /\ L \in 0..most
       /\ L < most => Len(S) + Len(K[L]) >= MaxPanel
       /\ \A k \in 0..most : k < L => Len(S) + Len(K[k]) < MaxPanel
       /\ L = most \/ full # {}
  <2>1. CASE full = {}
    <3>1. L = most
      BY <1>10, <2>1 DEF L
    <3>2. \A k \in 0..most : ~(Len(S) + Len(K[k]) >= MaxPanel)
      BY <1>9, <2>1
    <3> QED
      BY <1>1, <1>2, <1>6, <1>7, <3>1, <3>2
  <2>2. CASE full # {}
    <3>1. full \subseteq Nat
      BY <1>1, <1>9
    <3>2. L \in full /\ \A y \in full : L <= y
      BY <1>10, <2>2, <3>1, LeastOf DEF L
    <3> QED
      BY <1>1, <1>2, <1>6, <1>7, <1>9, <2>2, <3>2
  <2> QED
    BY <2>1, <2>2
<1>12. Len(K[L]) = 0 \/ Len(S) + Len(K[L]) <= MaxPanel
  <2>1. CASE L = 0
    BY <1>5, <2>1
  <2>2. CASE L # 0
    <3>1. L \in 1..most /\ L - 1 \in 0..most /\ L - 1 < L
      BY <1>1, <1>11, <2>2
    <3>2. Len(S) + Len(K[L - 1]) < MaxPanel
      BY <1>11, <3>1
    <3>3. O[L] \in T
      BY <1>1, <3>1
    <3>4. Len(K[L]) <= Len(K[L - 1]) + 1
      <4>1. K[L] = IF O[L] \in gone THEN K[L - 1] ELSE Append(K[L - 1], O[L])
        BY <1>5, <3>1
      <4>2. K[L - 1] \in Seq(T) /\ Len(K[L - 1]) \in Nat
        BY <1>7, <3>1
      <4>3. Len(Append(K[L - 1], O[L])) = Len(K[L - 1]) + 1
        BY <3>3, <4>2
      <4> QED
        BY <4>1, <4>2, <4>3
    <3>5. Len(K[L]) \in Nat /\ Len(K[L - 1]) \in Nat
      BY <1>7, <3>1
    <3> QED
      BY <1>2, <1>6, <3>2, <3>4, <3>5
  <2> QED
    BY <2>1, <2>2
<1>13. Left(T, O, gone, K[L], L) /\ Unseen(c, L) = K[L]
  BY <1>3, <1>4, <1>11
<1> QED
  BY <1>11, <1>12, <1>13 DEF Left, L, O, S, T

\* The panel without repetitions is as large as it should be, and has models of the
\* catalogue up to the last one looked at, and others only when all were.
LEMMA DistinctFits ==
  ASSUME NEW c \in Settings
  PROVE  LET B == Distinct(c)
         IN /\ B \in Seq(Entries(c)) /\ Len(B) \in Nat \ {0}
            /\ \/ Len(B) <= MaxPanel
               \/ Len(B) = MaxPanel + 1 /\ c.forced # NoModel /\ c.glm
            /\ \A i \in 1..Len(B) :
                 \/ B[i].model \in Specialists \cup {c.forced}
                 \/ \E j \in 1..Looked(c) : B[i].model = Offered(c)[j]
                 \/ Looked(c) = Len(Offered(c))
<1> DEFINE E == Entries(c)
           S == Specials(c)
           L == Looked(c)
           O == Offered(c)
           U == Unseen(c, L)
           hubs == [i \in DOMAIN U |-> Hub(U[i])]
           chosen == S \o hubs
           others == Without(c.cached, ModelsOf(chosen))
           more == Max({0, Min({MaxPanel - Len(chosen), Len(others)})})
           locals == [i \in 1..more |-> Local(others[i])]
           B == Distinct(c)
           Right(m) == \/ m \in Specialists \cup {c.forced}
                       \/ \E j \in 1..L : m = O[j]
                       \/ L = Len(O)
<1>1. /\ S \in Seq(E) /\ Len(S) \in 1..3
      /\ Len(S) = 3 => c.forced # NoModel /\ c.glm
      /\ \A i \in 1..Len(S) : S[i].model \in Specialists \cup {c.forced}
  BY SpecialsOpen
<1>2. /\ U \in Seq(ToSet(c.ranked)) /\ Len(O) \in Nat /\ L \in 0..Len(O)
      /\ \A i \in 1..Len(U) : \E j \in 1..L : U[i] = O[j]
      /\ Len(U) = 0 \/ Len(S) + Len(U) <= MaxPanel
      /\ L < Len(O) => Len(S) + Len(U) >= MaxPanel
  BY LooksFar, OffersOnce
<1>3. B = chosen \o locals
  BY DEF Distinct
<1>4. MaxPanel \in Nat /\ MaxPanel >= 2 /\ c.cached \in Seq(ToSet(c.cached))
  BY FusionAssumption
<1> HIDE DEF S, L, O, U, B
<1>5. Len(U) \in Nat /\ DOMAIN U = 1..Len(U)
  BY <1>2
<1>6. hubs \in Seq(E) /\ Len(hubs) = Len(U) /\ \A i \in 1..Len(U) : hubs[i].model = U[i]
  <2>1. \A i \in 1..Len(U) : Hub(U[i]) \in E
    BY <1>2 DEF Hub, Entries, Names
  <2>2. \A i \in 1..Len(U) : Hub(U[i]).model = U[i]
    BY DEF Hub
  <2> QED
    BY <1>5, <2>1, <2>2
<1> HIDE DEF hubs, E
<1>7. /\ chosen \in Seq(E) /\ Len(chosen) = Len(S) + Len(U)
      /\ \A i \in 1..(Len(S) + Len(U)) : chosen[i] = IF i <= Len(S) THEN S[i] ELSE hubs[i - Len(S)]
  BY <1>1, <1>5, <1>6, ConcatProperties
<1>8. Left(ToSet(c.cached), c.cached, ModelsOf(chosen), others, Len(c.cached))
  <2>1. Len(c.cached) \in 0..Len(c.cached)
    BY <1>4
  <2> QED
    BY <1>4, <2>1, FilterLeaves DEF Without
<1>9. others \in Seq(ToSet(c.cached)) /\ Len(others) \in Nat
  BY <1>8 DEF Left
<1> HIDE DEF others
<1>10. ASSUME NEW i \in 1..Len(chosen) PROVE Right(chosen[i].model)
  <2>1. Len(S) \in Nat
    BY <1>1
  <2>2. CASE i <= Len(S)
    <3>1. i \in 1..Len(S) /\ chosen[i] = S[i]
      BY <1>5, <1>7, <2>1, <2>2
    <3> QED
      BY <1>1, <3>1
  <2>3. CASE ~(i <= Len(S))
    <3>1. i - Len(S) \in 1..Len(U) /\ chosen[i] = hubs[i - Len(S)]
      BY <1>5, <1>7, <2>1, <2>3
    <3>2. PICK j \in 1..L : U[i - Len(S)] = O[j]
      BY <1>2, <3>1
    <3>3. chosen[i].model = O[j]
      BY <1>6, <3>1, <3>2
    <3> QED
      BY <3>3
  <2> QED
    BY <2>2, <2>3
<1>11. Len(chosen) \in Nat
  BY <1>1, <1>5, <1>7
<1> HIDE DEF chosen
<1>12. /\ more \in Nat /\ more <= Len(others)
       /\ more = 0 \/ Len(chosen) + more <= MaxPanel
  <2>1. MaxPanel - Len(chosen) \in Int
    BY <1>4, <1>11
  <2> DEFINE least == Min({MaxPanel - Len(chosen), Len(others)})
  <2>2. least \in Int /\ least <= Len(others) /\ least <= MaxPanel - Len(chosen)
    BY <1>9, <2>1, OfTwo
  <2>3. more = Max({0, least})
    OBVIOUS
  <2> HIDE DEF least, more
  <2>4. more = IF 0 <= least THEN least ELSE 0
    <3>1. 0 \in Int /\ least \in Int
      BY <2>2
    <3>2. Max({0, least}) = IF 0 <= least THEN least ELSE 0
      BY <3>1, OfTwo, Zenon
    <3> QED
      BY <2>3, <3>2
  <2> QED
    BY <1>4, <1>9, <1>11, <2>2, <2>4
<1>13. more = 0 \/ L = Len(O)
  BY <1>1, <1>2, <1>4, <1>5, <1>7, <1>12
<1> HIDE DEF more
<1>14. locals \in Seq(E) /\ Len(locals) = more
  <2>1. ASSUME NEW i \in 1..more PROVE Local(others[i]) \in E
    <3>1. others[i] \in ToSet(c.cached)
      BY <1>9, <1>12
    <3> QED
      BY <3>1 DEF Local, E, Entries, Names
  <2> QED
    BY <1>12, <2>1
<1> HIDE DEF locals
<1>15. /\ B \in Seq(E) /\ Len(B) = Len(chosen) + more
       /\ \A i \in 1..(Len(chosen) + more) :
            B[i] = IF i <= Len(chosen) THEN chosen[i] ELSE locals[i - Len(chosen)]
  BY <1>3, <1>7, <1>14, ConcatProperties
<1>16. ASSUME NEW i \in 1..Len(B) PROVE Right(B[i].model)
  <2>1. CASE i \in 1..Len(chosen)
    <3>1. B[i] = chosen[i]
      BY <1>11, <1>12, <1>15, <2>1
    <3> QED
      BY <1>10, <2>1, <3>1
  <2>2. CASE i \notin 1..Len(chosen)
    <3>1. more # 0
      BY <1>11, <1>12, <1>15, <2>2
    <3> QED
      BY <1>13, <3>1
  <2> QED
    BY <2>1, <2>2
<1>17. /\ Len(B) \in Nat \ {0}
       /\ Len(B) <= MaxPanel \/ (Len(B) = MaxPanel + 1 /\ Len(S) = 3)
  <2> DEFINE s == Len(S)  u == Len(U)  b == Len(B)  k == Len(chosen)
  <2> HIDE DEF s, u, b, k
  <2>1. /\ s \in 1..3 /\ u \in Nat /\ more \in Nat /\ b = k + more /\ k = s + u
        /\ u = 0 \/ s + u <= MaxPanel
        /\ more = 0 \/ k + more <= MaxPanel
    BY <1>1, <1>2, <1>5, <1>7, <1>12, <1>15 DEF s, u, b, k
  <2> HIDE DEF B, S, U
  <2>2. b \in Nat \ {0} /\ (b <= MaxPanel \/ (b = MaxPanel + 1 /\ s = 3))
    BY <1>4, <2>1
  <2> QED
    BY <2>2 DEF s, b
<1>18. Len(B) <= MaxPanel \/ (Len(B) = MaxPanel + 1 /\ c.forced # NoModel /\ c.glm)
  BY <1>1, <1>17
<1> QED
  BY <1>15, <1>16, <1>17, <1>18 DEF B, E, L, O

\* A panel is full.
LEMMA PanelFills ==
  ASSUME NEW c \in Settings, ~NothingFound(c)
  PROVE  LET P == Panel(c)
         IN /\ P \in Seq(Entries(c)) /\ Len(P) \in Nat \ {0}
            /\ \/ Len(P) = MaxPanel
               \/ Len(P) = MaxPanel + 1 /\ c.forced # NoModel /\ c.glm
            /\ c.mode = "multi-sample" =>
                 \A i \in 1..Len(P) :
                   P[i].model = IF c.forced # NoModel THEN c.forced ELSE c.ranked[1]
            /\ c.mode # "multi-sample" =>
                 \A i \in 1..Len(P) : \E j \in 1..Len(Distinct(c)) : P[i] = Distinct(c)[j]
<1> DEFINE E == Entries(c)
           P == Panel(c)
           B == Distinct(c)
<1>1. MaxPanel \in Nat \ {0}
  BY FusionAssumption
<1>2. CASE c.mode = "multi-sample"
  <2> DEFINE m == IF c.forced # NoModel THEN c.forced ELSE c.ranked[1]
             x == Hub(m)
  <2>1. m \in Names(c)
    <3>1. CASE c.forced # NoModel
      BY <3>1 DEF Names
    <3>2. CASE c.forced = NoModel
      <4>1. c.ranked \in Seq(ToSet(c.ranked)) /\ c.ranked # <<>>
        BY <1>2, <3>2, FusionAssumption DEF NothingFound
      <4>2. c.ranked[1] \in ToSet(c.ranked)
        BY <4>1
      <4> QED
        BY <3>2, <4>2 DEF Names
    <3> QED
      BY <3>1, <3>2
  <2>2. x \in E /\ x.model = m
    BY <2>1 DEF Hub, Entries
  <2>3. P = [i \in 1..MaxPanel |-> x]
    BY <1>2 DEF Panel
  <2> HIDE DEF x, P, E
  <2>4. P \in Seq(E) /\ Len(P) = MaxPanel /\ \A i \in 1..MaxPanel : P[i] = x
    BY <1>1, <2>2, <2>3
  <2>5. \A i \in 1..Len(P) : P[i].model = m
    BY <2>2, <2>4
  <2> QED
    BY <1>1, <1>2, <2>4, <2>5 DEF P, E
<1>3. CASE c.mode # "multi-sample"
  <2> DEFINE n == Max({MaxPanel, Len(B)})
             at_(i) == ((i - 1) % Len(B)) + 1
  <2>1. /\ B \in Seq(E) /\ Len(B) \in Nat \ {0}
        /\ Len(B) <= MaxPanel \/ (Len(B) = MaxPanel + 1 /\ c.forced # NoModel /\ c.glm)
    BY DistinctFits
  <2>2. P = [i \in 1..n |-> B[at_(i)]]
    BY <1>3 DEF Panel
  <2> DEFINE b == Len(B)
  <2>3. b \in Nat \ {0} /\ (b <= MaxPanel \/ b = MaxPanel + 1) /\ n = Max({MaxPanel, b})
    BY <2>1
  <2> HIDE DEF P, E, n, B, b
  <2>10. n = IF MaxPanel <= b THEN b ELSE MaxPanel
    <3>1. MaxPanel \in Int /\ b \in Int
      BY <1>1, <2>3
    <3>2. Max({MaxPanel, b}) = IF MaxPanel <= b THEN b ELSE MaxPanel
      BY <3>1, OfTwo, Zenon
    <3> QED
      BY <2>3, <3>2
  <2>11. n \in Nat \ {0} /\ (n = MaxPanel \/ (n = MaxPanel + 1 /\ n = b))
    BY <1>1, <2>3, <2>10
  <2>4. n \in Nat \ {0} /\ (n = MaxPanel \/ (n = MaxPanel + 1 /\ n = Len(B)))
    BY <2>11 DEF b
  <2>5. ASSUME NEW i \in 1..n PROVE at_(i) \in 1..Len(B)
    <3> DEFINE k == i - 1
    <3>1. b \in Nat /\ b > 0 /\ k \in Nat
      BY <2>3, <2>4
    <3> HIDE DEF k
    <3>2. k % b \in 0..(b - 1)
      BY <3>1
    <3> QED
      BY <3>1, <3>2 DEF b, k
  <2>6. \A i \in 1..n : B[at_(i)] \in E
    BY <2>1, <2>5
  <2>7. P \in Seq(E) /\ Len(P) = n /\ \A i \in 1..n : P[i] = B[at_(i)]
    BY <2>2, <2>4, <2>6
  <2>8. \A i \in 1..n : \E j \in 1..Len(B) : P[i] = B[j]
    BY <2>5, <2>7
  <2>9. Len(P) = MaxPanel \/ (Len(P) = MaxPanel + 1 /\ c.forced # NoModel /\ c.glm)
    <3>1. n = MaxPanel + 1 /\ n = Len(B) => ~(Len(B) <= MaxPanel)
      BY <1>1
    <3> QED
      BY <2>1, <2>4, <2>7, <3>1
  <2> QED
    BY <1>3, <2>4, <2>7, <2>8, <2>9 DEF P, E, B
<1> QED
  BY <1>2, <1>3

\* The pool has each model once, and none that the panel asks, the specialists apart.
LEMMA PoolFresh ==
  ASSUME NEW c \in Settings, ~NothingFound(c)
  PROVE  LET Q == Pool(c)
         IN /\ Q \in Seq(ToSet(c.ranked)) /\ Len(Q) \in Nat
            /\ Distinctly(Q)
            /\ \A i \in 1..Len(Q) : Q[i] # NoModel
            /\ \A i \in 1..Len(Q) : Q[i] \in Specialists \/ Q[i] \notin ModelsOf(Panel(c))
<1> DEFINE T == ToSet(c.ranked)
           Q == Pool(c)
           P == Panel(c)
<1>1. /\ c.ranked \in Seq(T) /\ Len(c.ranked) \in Nat
      /\ \A i, j \in 1..Len(c.ranked) : c.ranked[i] = c.ranked[j] => i = j
      /\ NoModel \notin T
  BY FusionAssumption
<1>2. P \in Seq(Entries(c))
  BY PanelFills
<1>3. ModelsOf(P) = {P[i].model : i \in 1..Len(P)}
  BY <1>2 DEF ModelsOf
<1>4. CASE c.mode = "multi-sample" /\ c.forced # NoModel
  <2>1. Q = <<>>
    BY <1>4 DEF Pool
  <2> HIDE DEF Q
  <2>2. Q \in Seq(T) /\ Len(Q) = 0 /\ 1..0 = {}
    BY <2>1
  <2> QED
    BY <2>2 DEF Distinctly, Q
<1>5. CASE c.mode = "multi-sample" /\ c.forced = NoModel
  <2> DEFINE n == Min({3, Len(c.ranked)})
             b == Best(c, 3)
  <2>1. c.ranked # <<>> /\ Len(c.ranked) >= 1
    BY <1>1, <1>5 DEF NothingFound
  <2>2. n \in 1..Len(c.ranked)
    BY <1>1, <2>1, OfTwo
  <2>3. b = SubSeq(c.ranked, 1, n)
    BY DEF Best
  <2>4. Q = Tail(b)
    BY <1>5 DEF Pool
  <2>5. \A i \in 1..Len(P) : P[i].model = c.ranked[1]
    BY <1>5, PanelFills
  <2> HIDE DEF n, b, Q, P, T
  <2>6. b \in Seq(T) /\ Len(b) = n /\ \A i \in 1..n : b[i] = c.ranked[i]
    BY <1>1, <2>2, <2>3
  <2>7. /\ Q \in Seq(T) /\ Len(Q) = n - 1
        /\ \A i \in 1..(n - 1) : Q[i] = c.ranked[i + 1]
    <3>1. b # <<>>
      BY <2>2, <2>6
    <3> QED
      BY <1>1, <2>2, <2>4, <2>6, <3>1
  <2>8. \A i \in 1..(n - 1) : i + 1 \in 1..Len(c.ranked) /\ i + 1 # 1
    BY <1>1, <2>2
  <2>9. Distinctly(Q)
    <3> SUFFICES ASSUME NEW i \in 1..(n - 1), NEW j \in 1..(n - 1), Q[i] = Q[j] PROVE i = j
      BY <2>7 DEF Distinctly
    <3>1. i + 1 = j + 1
      BY <1>1, <2>7, <2>8
    <3> QED
      BY <2>2, <3>1
  <2>10. ASSUME NEW i \in 1..Len(Q) PROVE Q[i] \notin ModelsOf(P)
    <3>1. Q[i] # c.ranked[1]
      BY <1>1, <2>1, <2>7, <2>8
    <3> QED
      BY <1>3, <2>5, <3>1
  <2>11. n - 1 \in Nat
    BY <1>1, <2>2
  <2>12. \A i \in 1..Len(Q) : Q[i] \in T
    BY <2>7
  <2> QED
    BY <1>1, <2>7, <2>9, <2>10, <2>11, <2>12 DEF Q, P, T
<1>6. CASE c.mode # "multi-sample"
  <2> DEFINE O == Offered(c)
             L == Looked(c)
  <2>1. /\ O \in Seq(T) /\ Len(O) \in Nat /\ Distinctly(O)
        /\ \A i \in 1..Len(O) : O[i] # c.forced
    BY OffersOnce
  <2>2. L \in 0..Len(O)
    BY LooksFar
  <2>3. Q = SubSeq(O, L + 1, Len(O))
    BY <1>6 DEF Pool
  <2>4. ASSUME NEW i \in 1..Len(P)
        PROVE  \/ P[i].model \in Specialists \cup {c.forced}
               \/ \E j \in 1..L : P[i].model = O[j]
               \/ L = Len(O)
    <3>1. PICK j \in 1..Len(Distinct(c)) : P[i] = Distinct(c)[j]
      BY <1>6, PanelFills
    <3> QED
      BY <3>1, DistinctFits
  <2> HIDE DEF O, L, Q, P, T
  <2>5. /\ Q \in Seq(T) /\ Len(Q) = Len(O) - L
        /\ \A i \in 1..(Len(O) - L) : L + i \in 1..Len(O) /\ Q[i] = O[L + i]
    BY <2>1, <2>2, <2>3
  <2>6. Len(Q) \in Nat
    BY <2>1, <2>2, <2>5
  <2>7. Distinctly(Q)
    <3> SUFFICES ASSUME NEW i \in 1..(Len(O) - L), NEW j \in 1..(Len(O) - L), Q[i] = Q[j]
                 PROVE  i = j
      BY <2>5 DEF Distinctly
    <3>1. L + i = L + j
      BY <2>1, <2>5 DEF Distinctly
    <3> QED
      BY <2>2, <3>1
  <2>8. ASSUME NEW i \in 1..Len(Q), Q[i] \in ModelsOf(P) PROVE Q[i] \in Specialists
    <3>1. PICK k \in 1..Len(P) : Q[i] = P[k].model
      BY <1>3, <2>8
    <3>2. L + i \in 1..Len(O) /\ Q[i] = O[L + i] /\ L # Len(O)
      BY <2>1, <2>2, <2>5
    <3>3. Q[i] # c.forced
      BY <2>1, <3>2
    <3>4. ASSUME NEW j \in 1..L, P[k].model = O[j] PROVE FALSE
      <4>1. j \in 1..Len(O) /\ j # L + i
        BY <2>1, <2>2
      <4> QED
        BY <2>1, <3>1, <3>2, <3>4, <4>1 DEF Distinctly
    <3> QED
      BY <2>4, <3>1, <3>2, <3>3, <3>4
  <2>9. \A i \in 1..Len(Q) : Q[i] \in T
    BY <2>5
  <2> QED
    BY <1>1, <2>5, <2>6, <2>7, <2>8, <2>9 DEF Q, P, T
<1> QED
  BY <1>4, <1>5, <1>6

\* The states of a call, and those it is in while it runs.
Running == Backends \cup {"remote", "generate"}
CallStates == Ended \cup Running \cup {"idle"}

\* The values of the variables, and what the choice of the models guarantees.
ChoiceInv ==
  /\ FusionTypeOK
  /\ at # "waiting" => setting \in Settings
  /\ Len(panel) \in 0..(MaxPanel + 1) /\ PanelIsFull
  /\ Len(pool) \in Nat /\ DOMAIN pool = 1..Len(pool) /\ Distinctly(pool)
  /\ \A i \in 1..Len(pool) :
       pool[i] # NoModel /\ (pool[i] \in Specialists \/ pool[i] \notin ModelsOf(panel))

\* Before a run, while its panel answers, after that, and when nobody has answered.
WaitingInv ==
  at = "waiting" =>
    /\ panel = <<>> /\ pool = <<>> /\ queue = {} /\ wave = {}
    /\ used = 0 /\ \A s \in 1..(MaxPanel + 1) : source[s] = NoModel
    /\ \A s \in 0..(MaxPanel + 1) : call[s] = "idle"
    /\ position = "none" /\ final = "none"
WaveInv ==
  at = "panel" =>
    \E lo, hi \in Slots :
      /\ lo <= hi /\ wave = lo..hi
      /\ \A s \in Slots : (s < lo => call[s] \in Ended) /\ (s > hi => call[s] = "idle")
      /\ setting.flags # {} => hi < lo + setting.batch
AnsweredInv ==
  /\ at \in Single \cup {"answered", "done"} => \A s \in Slots : call[s] \in Ended
  /\ at = "failed" => \A s \in Slots : call[s] = "error"

\* What replaces a failed answer is a candidate already taken, and of one answer only.
SourceInv ==
  /\ DOMAIN source = 1..(MaxPanel + 1)
  /\ \A s \in 1..(MaxPanel + 1) :
       source[s] = NoModel \/ \E j \in 1..used : source[s] = pool[j]
  /\ \A s, t \in 1..(MaxPanel + 1) : source[s] = source[t] => source[s] = NoModel \/ s = t
  /\ at = "replace" => queue # {} /\ used < Len(pool)

\* Nothing is made up where it may not be, and what is returned is an answer.
RealInv ==
  /\ at # "waiting" /\ setting.noSim =>
       /\ \A s \in 0..(MaxPanel + 1) : call[s] # "mock"
       /\ position # "mock" /\ final # "mock"
  /\ at \in {"writer", "done"} => position \in Good
  /\ at = "done" => final \in Good

\* The inductive invariant.
FusionInv ==
  /\ ChoiceInv /\ WaitingInv /\ WaveInv /\ AnsweredInv
  /\ SourceInv /\ RealInv /\ JudgesAnswers

\* It says more than the property.
LEMMA FusionInvImplies == FusionInv => FusionConsistent
<1> SUFFICES ASSUME FusionInv PROVE FusionConsistent
  OBVIOUS
<1> USE DEF FusionInv
<1>1. MaxPanel \in Nat
  BY FusionAssumption
<1>2. FallbackIsFresh
  <2> SUFFICES ASSUME NEW i \in DOMAIN pool
               PROVE  /\ pool[i] \in Specialists \/ pool[i] \notin ModelsOf(panel)
                      /\ Cardinality({s \in Slots : source[s] = pool[i]}) <= 1
    BY DEF FallbackIsFresh
  <2>1. /\ pool[i] # NoModel
        /\ pool[i] \in Specialists \/ pool[i] \notin ModelsOf(panel)
    BY DEF ChoiceInv
  <2> DEFINE Z == {s \in Slots : source[s] = pool[i]}
  <2>2. \A s, t \in Z : s = t
    <3> SUFFICES ASSUME NEW s \in Z, NEW t \in Z PROVE s = t
      OBVIOUS
    <3>1. s \in 1..(MaxPanel + 1) /\ t \in 1..(MaxPanel + 1)
      BY <1>1 DEF ChoiceInv, Slots
    <3> QED
      BY <2>1, <3>1 DEF SourceInv
  <2>3. Cardinality(Z) <= 1
    <3> HIDE DEF Z
    <3>1. CASE Z = {}
      BY <3>1, FS_EmptySet
    <3>2. CASE Z # {}
      <4>1. PICK s : Z = {s}
        BY <2>2, <3>2
      <4> QED
        BY <4>1, FS_Singleton
    <3> QED
      BY <3>1, <3>2
  <2> QED
    BY <2>1, <2>3
<1>3. BatchFits
  <2> SUFFICES ASSUME at = "panel", setting.flags # {}
               PROVE  Cardinality({s \in Slots : call[s] \in Backends}) <= setting.batch
    BY DEF BatchFits
  <2>1. PICK lo \in Slots, hi \in Slots :
          /\ lo <= hi /\ wave = lo..hi
          /\ \A s \in Slots : (s < lo => call[s] \in Ended) /\ (s > hi => call[s] = "idle")
          /\ hi < lo + setting.batch
    BY DEF WaveInv
  <2>2. setting.batch \in Nat
    BY FusionAssumption DEF ChoiceInv
  <2>3. lo \in Nat /\ hi \in Nat /\ Slots \subseteq Nat
    BY <1>1 DEF ChoiceInv, Slots
  <2> DEFINE Z == {s \in Slots : call[s] \in Backends}
  <2>4. Z \subseteq lo..hi
    <3> SUFFICES ASSUME NEW s \in Slots, call[s] \in Backends PROVE s \in lo..hi
      OBVIOUS
    <3>1. call[s] \notin Ended /\ call[s] # "idle"
      BY DEF Backends, Ended, Good
    <3> QED
      BY <2>1, <2>3, <3>1
  <2> HIDE DEF Z
  <2>5. IsFiniteSet(lo..hi) /\ Cardinality(lo..hi) = hi - lo + 1
    BY <2>1, <2>3, FS_Interval
  <2>6. IsFiniteSet(Z) /\ Cardinality(Z) <= Cardinality(lo..hi)
    BY <2>4, <2>5, FS_Subset
  <2>7. Cardinality(Z) \in Nat
    BY <2>6, FS_CardinalityType
  <2> QED
    BY <2>1, <2>2, <2>3, <2>5, <2>6, <2>7 DEF Z
<1>4. AnswerIsReal
  <2>1. at = "done" => final \in Good
    BY DEF RealInv
  <2>2. at = "failed" => \A s \in Slots : call[s] \notin Good
    BY DEF AnsweredInv, Good
  <2>3. setting.noSim => "mock" \notin {final, position}
    BY DEF RealInv, WaitingInv
  <2> QED
    BY <2>1, <2>2, <2>3 DEF AnswerIsReal
<1> QED
  BY <1>2, <1>3, <1>4 DEF FusionConsistent, ChoiceInv

\* It holds before the first run.
LEMMA FusionInvInit == FusionInit => FusionInv
<1> SUFFICES ASSUME FusionInit PROVE FusionInv
  OBVIOUS
<1> USE DEF FusionInit
<1>1. MaxPanel \in Nat
  BY FusionAssumption
<1>2. Slots = {} /\ Len(panel) = 0 /\ Len(pool) = 0 /\ DOMAIN pool = {}
  BY DEF Slots
<1>3. ChoiceInv
  BY <1>1, <1>2 DEF ChoiceInv, FusionTypeOK, PanelIsFull, Distinctly, Ended, Good, Flags, Single
<1>4. WaitingInv /\ SourceInv
  BY <1>1 DEF WaitingInv, SourceInv
<1>5. WaveInv /\ AnsweredInv /\ RealInv /\ JudgesAnswers
  BY DEF WaveInv, AnsweredInv, RealInv, JudgesAnswers, Single
<1> QED
  BY <1>3, <1>4, <1>5 DEF FusionInv

\* A run begins.
LEMMA BeginKeeps ==
  ASSUME FusionInv, NEW c \in Settings, BeginFusion(c)
  PROVE  FusionInv'
<1> USE DEF FusionInv
<1>1. MaxPanel \in Nat \ {0, 1} /\ c.flags \subseteq Flags /\ c.batch \in Nat \ {0}
  BY FusionAssumption
<1>2. /\ at = "waiting" /\ setting' = c /\ flags' = c.flags
      /\ UNCHANGED <<call, used, queue, source, position, final>>
  BY DEF BeginFusion
<1>3. /\ panel = <<>> /\ pool = <<>> /\ queue = {} /\ wave = {} /\ used = 0
      /\ \A s \in 1..(MaxPanel + 1) : source[s] = NoModel
      /\ \A s \in 0..(MaxPanel + 1) : call[s] = "idle"
      /\ position = "none" /\ final = "none"
  BY <1>2 DEF WaitingInv
<1>4. /\ call \in [0..(MaxPanel + 1) -> Ended \cup Backends \cup {"idle", "remote", "generate"}]
      /\ DOMAIN source = 1..(MaxPanel + 1)
  BY DEF ChoiceInv, FusionTypeOK, SourceInv
<1>5. SourceInv' /\ RealInv' /\ JudgesAnswers' /\ WaitingInv' /\ at' \in {"panel", "failed"}
  <2>1. at' \in {"panel", "failed"}
    BY DEF BeginFusion
  <2>2. SourceInv'
    BY <1>2, <1>3, <1>4, <2>1 DEF SourceInv
  <2>3. RealInv'
    BY <1>2, <1>3, <2>1 DEF RealInv
  <2>4. JudgesAnswers' /\ WaitingInv'
    BY <2>1 DEF JudgesAnswers, WaitingInv
  <2> QED
    BY <2>1, <2>2, <2>3, <2>4
<1>6. CASE NothingFound(c)
  <2>1. at' = "failed" /\ panel' = <<>> /\ pool' = <<>> /\ wave' = {}
    BY <1>3, <1>6 DEF BeginFusion
  <2>2. Slots' = {} /\ Len(panel') = 0 /\ Len(pool') = 0 /\ DOMAIN (pool') = 1..0
    BY <2>1 DEF Slots
  <2>3. FusionTypeOK'
    BY <1>1, <1>2, <1>3, <1>4, <2>1, <2>2 DEF FusionTypeOK, Single
  <2>4. ChoiceInv'
    BY <1>1, <1>2, <2>1, <2>2, <2>3 DEF ChoiceInv, PanelIsFull, Distinctly
  <2>5. WaveInv' /\ AnsweredInv'
    BY <2>1, <2>2 DEF WaveInv, AnsweredInv, Single
  <2> QED
    BY <1>5, <2>4, <2>5
<1>7. CASE ~NothingFound(c)
  <2> DEFINE P == Panel(c)
             Q == Pool(c)
             m == IF c.flags = {} THEN Len(P) ELSE Min({c.batch, Len(P)})
  <2>1. at' = "panel" /\ panel' = P /\ pool' = Q /\ wave' = 1..m
    BY <1>7 DEF BeginFusion
  <2>2. /\ P \in Seq(Entries(c)) /\ Len(P) \in Nat \ {0}
        /\ Len(P) = MaxPanel \/ (Len(P) = MaxPanel + 1 /\ c.forced # NoModel /\ c.glm)
    BY <1>7, PanelFills
  <2>3. /\ Q \in Seq(ToSet(c.ranked)) /\ Len(Q) \in Nat /\ Distinctly(Q)
        /\ \A i \in 1..Len(Q) : Q[i] # NoModel
        /\ \A i \in 1..Len(Q) : Q[i] \in Specialists \/ Q[i] \notin ModelsOf(P)
    BY <1>7, PoolFresh
  <2> HIDE DEF P, Q
  <2>4. Slots' = 1..Len(P)
    BY <2>1 DEF Slots
  <2>5. /\ m \in 1..Len(P)
        /\ c.flags # {} => m <= c.batch
    <3> DEFINE p == Len(P)  b == c.batch
    <3>1. p \in Nat \ {0} /\ b \in Nat \ {0}
      BY <1>1, <2>2
    <3> HIDE DEF p, b
    <3>2. m = IF c.flags = {} THEN p ELSE Min({b, p})
      BY DEF p, b
    <3> HIDE DEF m
    <3>3. p \in Int /\ b \in Int
      BY <3>1
    <3>4. Min({b, p}) = IF b <= p THEN b ELSE p
      BY <3>3, OfTwo, Zenon
    <3>5. m \in 1..p /\ (c.flags # {} => m <= b)
      BY <3>1, <3>2, <3>4
    <3> QED
      BY <3>5 DEF p, b
  <2> HIDE DEF m
  <2>6. FusionTypeOK'
    <3>1. wave' \subseteq Slots'
      BY <2>1, <2>2, <2>4, <2>5
    <3>2. used' \in 0..Len(pool')
      BY <1>2, <1>3, <2>1, <2>3
    <3> QED
      BY <1>1, <1>2, <1>3, <1>4, <2>1, <3>1, <3>2 DEF FusionTypeOK
  <2>7. PanelIsFull'
    BY <1>2, <2>1, <2>2 DEF PanelIsFull
  <2>8. Len(P) \in 0..(MaxPanel + 1) /\ DOMAIN Q = 1..Len(Q)
    BY <1>1, <2>2, <2>3
  <2>9. ChoiceInv'
    BY <1>2, <2>1, <2>3, <2>6, <2>7, <2>8 DEF ChoiceInv
  <2>10. WaveInv'
    <3> DEFINE one == 1
    <3>1. 1 \in Slots' /\ m \in Slots' /\ 1 <= m
      BY <2>2, <2>4, <2>5
    <3>2. \A s \in Slots' : ~(s < 1) /\ call'[s] = "idle"
      <4> SUFFICES ASSUME NEW s \in 1..Len(P) PROVE ~(s < 1) /\ call[s] = "idle"
        BY <1>2, <2>4
      <4>1. s \in 0..(MaxPanel + 1)
        BY <1>1, <2>2, <2>8
      <4> QED
        BY <1>3, <4>1
    <3>3. setting'.flags # {} => m < 1 + setting'.batch
      BY <1>1, <1>2, <2>2, <2>5
    <3> QED
      BY <2>1, <3>1, <3>2, <3>3 DEF WaveInv
  <2>11. AnsweredInv'
    BY <2>1 DEF AnsweredInv, Single
  <2> QED
    BY <1>5, <2>9, <2>10, <2>11
<1> QED
  BY <1>6, <1>7

\* A call makes a step, whichever it is.
OneCall(s, x) ==
  /\ call' = [call EXCEPT ![s] = x]
  /\ x \in Running \cup Ended /\ (setting.noSim => x # "mock")
  /\ call[s] \in Running \/ (call[s] = "idle" /\ (at \in Single \/ (at = "panel" /\ s \in wave)))
  /\ call[s] = "idle" /\ at \in Single => s = 0
  /\ flags' \subseteq Flags
  /\ UNCHANGED <<choiceVars, panelVars, at, position, final>>

LEMMA OneCallKeeps ==
  ASSUME FusionInv, NEW s \in 0..(MaxPanel + 1), NEW x, OneCall(s, x)
  PROVE  FusionInv'
<1> USE DEF FusionInv
<1>1. /\ call \in [0..(MaxPanel + 1) -> Ended \cup Backends \cup {"idle", "remote", "generate"}]
      /\ call' = [call EXCEPT ![s] = x]
      /\ x \in Running \cup Ended /\ (setting.noSim => x # "mock")
      /\ flags' \subseteq Flags
      /\ UNCHANGED <<choiceVars, panelVars, at, position, final>>
  BY DEF OneCall, ChoiceInv, FusionTypeOK
<1>2. /\ call'[s] = x
      /\ \A t \in 0..(MaxPanel + 1) : t # s => call'[t] = call[t]
      /\ call' \in [0..(MaxPanel + 1) -> Ended \cup Backends \cup {"idle", "remote", "generate"}]
  BY <1>1 DEF Running
<1>3. call[s] \notin Ended
  BY DEF OneCall, Running, Ended, Good, Backends
<1>4. /\ UNCHANGED <<setting, panel, pool, judge, wave, used, queue, source, at, position, final>>
      /\ Slots' = Slots
  BY <1>1 DEF choiceVars, panelVars, Slots
<1>5. Slots \subseteq 0..(MaxPanel + 1) /\ Slots \subseteq Nat
  <2>1. MaxPanel \in Nat /\ Len(panel) \in 0..(MaxPanel + 1)
    BY FusionAssumption DEF ChoiceInv
  <2> QED
    BY <2>1 DEF Slots
<1>6. FusionTypeOK'
  BY <1>1, <1>2, <1>4 DEF ChoiceInv, FusionTypeOK
<1>7. ChoiceInv'
  BY <1>4, <1>6 DEF ChoiceInv, PanelIsFull, ModelsOf
<1>8. SourceInv'
  BY <1>4 DEF SourceInv
<1>9. RealInv'
  BY <1>1, <1>2, <1>4 DEF RealInv
<1>10. at # "waiting"
  BY <1>3 DEF OneCall, WaitingInv, Single, Running, Backends
<1>11. WaitingInv'
  BY <1>4, <1>10 DEF WaitingInv
<1>12. CASE at = "panel"
  <2>1. PICK lo \in Slots, hi \in Slots :
          /\ lo <= hi /\ wave = lo..hi
          /\ \A t \in Slots : (t < lo => call[t] \in Ended) /\ (t > hi => call[t] = "idle")
          /\ setting.flags # {} => hi < lo + setting.batch
    BY <1>12 DEF WaveInv
  <2>2. ASSUME NEW t \in Slots
        PROVE  (t < lo => call'[t] \in Ended) /\ (t > hi => call'[t] = "idle")
    <3>1. CASE t # s
      BY <1>2, <1>5, <2>1, <3>1
    <3>2. CASE t = s
      <4>1. ~(t < lo)
        BY <1>3, <2>1, <3>2
      <4>2. ~(t > hi)
        <5> SUFFICES ASSUME t > hi PROVE FALSE
          OBVIOUS
        <5>1. call[s] = "idle"
          BY <2>1, <3>2
        <5>2. s \in wave
          BY <1>12, <5>1 DEF OneCall, Running, Backends, Single
        <5> QED
          BY <1>5, <2>1, <3>2, <5>2
      <4> QED
        BY <4>1, <4>2
    <3> QED
      BY <3>1, <3>2
  <2>3. WaveInv'
    BY <1>4, <2>1, <2>2 DEF WaveInv
  <2>4. AnsweredInv' /\ JudgesAnswers'
    BY <1>4, <1>12 DEF AnsweredInv, JudgesAnswers, Single
  <2> QED
    BY <1>7, <1>8, <1>9, <1>11, <2>3, <2>4
<1>13. CASE at # "panel"
  <2>1. at \in Single \cup {"answered", "done", "failed"}
    BY <1>10, <1>13 DEF ChoiceInv, FusionTypeOK
  <2>2. \A t \in Slots : call[t] \in Ended
    BY <2>1 DEF AnsweredInv, Ended
  <2>3. \A t \in Slots : call'[t] = call[t]
    BY <1>2, <1>3, <1>5, <2>2
  <2>4. WaveInv'
    BY <1>4, <1>13 DEF WaveInv
  <2>5. AnsweredInv'
    BY <1>4, <2>3 DEF AnsweredInv
  <2>6. JudgesAnswers'
    BY <1>4, <2>3 DEF JudgesAnswers
  <2> QED
    BY <1>7, <1>8, <1>9, <1>11, <2>4, <2>5, <2>6
<1> QED
  BY <1>12, <1>13

\* The steps of a call are such steps.
LEMMA CallingKeeps ==
  ASSUME FusionInv, Calling
  PROVE  FusionInv'
<1>1. PICK s \in 0..(MaxPanel + 1) :
        StartCall(s) \/ CallAnswers(s) \/ CallFails(s) \/ RemoteFails(s) \/ OllamaUnreachable(s)
  BY DEF Calling
<1> SUFFICES \E x : OneCall(s, x)
  BY OneCallKeeps
<1>2. flags \subseteq Flags
  BY DEF FusionInv, ChoiceInv, FusionTypeOK
<1> USE DEF Running, Backends, Ended, Good, Flags
<1>3. CASE StartCall(s)
  <2>1. Route(Kind(s), flags') \in Running
    BY DEF Route
  <2>2. flags' \subseteq Flags
    BY <1>2, <1>3 DEF StartCall
  <2> HIDE DEF Flags
  <2>3. OneCall(s, Route(Kind(s), flags'))
    BY <1>3, <2>1, <2>2 DEF StartCall, OneCall, Single
  <2> QED
    BY <2>3
<1>4. CASE CallAnswers(s)
  BY <1>2, <1>4 DEF CallAnswers, Becomes, OneCall
<1>5. CASE CallFails(s)
  <2>1. NextBackend(call[s]) \in Running \cup {"error"}
    BY DEF NextBackend
  <2> QED
    BY <1>2, <1>5, <2>1 DEF CallFails, Becomes, OneCall
<1>6. CASE RemoteFails(s)
  <2>1. Route("hub", flags') \in Running
    BY DEF Route
  <2>2. flags' \subseteq Flags
    BY <1>2, <1>6 DEF RemoteFails
  <2> HIDE DEF Flags
  <2> QED
    BY <1>6, <2>1, <2>2 DEF RemoteFails, OneCall
<1>7. CASE OllamaUnreachable(s)
  BY <1>2, <1>7 DEF OllamaUnreachable, Becomes, OneCall
<1> QED
  BY <1>1, <1>3, <1>4, <1>5, <1>6, <1>7

\* The panel has answered: the next wave, or the review.
LEMMA WaveEndsKeeps ==
  ASSUME FusionInv, WaveEnds
  PROVE  FusionInv'
<1> USE DEF FusionInv
<1>1. /\ at = "panel" /\ \A s \in wave : call[s] \in Ended
      /\ UNCHANGED <<setting, panel, pool, judge, used, queue, source, flags, call, position, final>>
  BY DEF WaveEnds, choiceVars
<1>2. PICK lo \in Slots, hi \in Slots :
        /\ lo <= hi /\ wave = lo..hi
        /\ \A s \in Slots : (s < lo => call[s] \in Ended) /\ (s > hi => call[s] = "idle")
        /\ setting.flags # {} => hi < lo + setting.batch
  BY <1>1 DEF WaveInv
<1> DEFINE b == setting.batch
           n == Len(panel)
           next == {s \in Slots : s > hi /\ s <= hi + b}
<1>3. b \in Nat \ {0} /\ n \in Nat /\ Slots = 1..n /\ Slots' = Slots
  <2>1. MaxPanel \in Nat /\ Len(panel) \in 0..(MaxPanel + 1) /\ setting \in Settings
    BY <1>1, FusionAssumption DEF ChoiceInv
  <2> QED
    BY <1>1, <2>1, FusionAssumption DEF Slots
<1> HIDE DEF b, n
<1>4. Max(wave) = hi
  <2> DEFINE Z == lo..hi
  <2>1. hi \in Z /\ \A y \in Z : y <= hi /\ y \in Int
    BY <1>2, <1>3
  <2>2. \A x \in Z : (\A y \in Z : x >= y) => x = hi
    BY <1>2, <1>3
  <2>3. hi >= hi /\ \A y \in Z : hi >= y
    BY <1>3, <2>1
  <2> HIDE DEF Z
  <2>4. Max(Z) = hi
    BY <2>1, <2>2, <2>3 DEF Max
  <2> QED
    BY <1>2, <2>4 DEF Z
<1>5. \/ next # {} /\ wave' = next /\ at' = at
      \/ next = {} /\ wave' = {} /\ at' = "answered"
  BY <1>4 DEF WaveEnds, b
<1>6. \A s \in Slots : s <= hi => call[s] \in Ended
  <2> SUFFICES ASSUME NEW s \in Slots, s <= hi PROVE call[s] \in Ended
    OBVIOUS
  <2>1. CASE s < lo
    BY <1>2, <2>1
  <2>2. CASE ~(s < lo)
    <3>1. s \in wave
      BY <1>2, <1>3, <2>2
    <3> QED
      BY <1>1, <3>1
  <2> QED
    BY <2>1, <2>2
<1>7. FusionTypeOK'
  <2>1. wave' \subseteq Slots'
    BY <1>3, <1>5
  <2>2. at' \in Single \cup {"waiting", "panel", "answered", "done", "failed"}
    BY <1>1, <1>5
  <2> QED
    BY <1>1, <1>3, <2>1, <2>2 DEF ChoiceInv, FusionTypeOK
<1>8. at' \in {"panel", "answered"}
  BY <1>1, <1>5
<1>9. ChoiceInv' /\ WaitingInv' /\ SourceInv' /\ RealInv' /\ JudgesAnswers'
  <2>1. ChoiceInv'
    BY <1>1, <1>7, <1>8 DEF ChoiceInv, PanelIsFull, ModelsOf
  <2>2. WaitingInv' /\ SourceInv'
    BY <1>1, <1>8 DEF WaitingInv, SourceInv
  <2>3. RealInv' /\ JudgesAnswers'
    BY <1>1, <1>8 DEF RealInv, JudgesAnswers
  <2> QED
    BY <2>1, <2>2, <2>3
<1>10. CASE next # {}
  <2>1. wave' = next /\ at' = "panel"
    BY <1>1, <1>5, <1>10
  <2> DEFINE l == hi + 1
             h == IF hi + b <= n THEN hi + b ELSE n
  <2>2. hi < n
    BY <1>2, <1>3, <1>10
  <2>3. l \in Slots /\ h \in Slots /\ l <= h /\ next = l..h
    BY <1>2, <1>3, <2>2
  <2>4. h < l + b
    BY <1>3, <1>2, <2>2
  <2>5. \A s \in Slots : (s < l => call[s] \in Ended) /\ (s > h => call[s] = "idle")
    BY <1>2, <1>3, <1>6, <2>2
  <2> HIDE DEF l, h
  <2>6. WaveInv'
    BY <1>1, <1>3, <2>1, <2>3, <2>4, <2>5 DEF WaveInv, b
  <2>7. AnsweredInv'
    BY <2>1 DEF AnsweredInv, Single
  <2> QED
    BY <1>9, <2>6, <2>7
<1>11. CASE next = {}
  <2>1. at' = "answered"
    BY <1>5, <1>11
  <2>2. hi = n
    <3> SUFFICES ASSUME hi # n PROVE FALSE
      OBVIOUS
    <3>1. hi + 1 \in next
      BY <1>2, <1>3
    <3> QED
      BY <1>11, <3>1
  <2>3. \A s \in Slots' : call'[s] \in Ended
    BY <1>1, <1>2, <1>3, <1>6, <2>2
  <2>4. AnsweredInv' /\ WaveInv'
    BY <2>1, <2>3 DEF AnsweredInv, WaveInv
  <2> QED
    BY <1>9, <2>4
<1> QED
  BY <1>10, <1>11

\* What the steps after the panel's waves have in common.
LEMMA LaterKeeps ==
  ASSUME FusionInv, at \in Single \cup {"answered"},
         at' \in Single \cup {"answered", "done", "failed"},
         UNCHANGED <<choiceVars, wave, flags>>,
         call' \in [0..(MaxPanel + 1) -> CallStates],
         used' \in 0..Len(pool), queue' \subseteq Slots,
         position' \in Good \cup {"none"}, final' \in Good \cup {"none"}
  PROVE  ChoiceInv' /\ WaitingInv' /\ WaveInv' /\ Slots' = Slots
<1> USE DEF FusionInv
<1>1. UNCHANGED <<setting, panel, pool, judge>> /\ Slots' = Slots
  BY DEF choiceVars, Slots
<1>2. at' # "waiting" /\ at' # "panel" /\ at # "waiting"
  BY DEF Single
<1>3. FusionTypeOK'
  BY <1>1 DEF ChoiceInv, FusionTypeOK, CallStates, Running
<1>4. ChoiceInv'
  BY <1>1, <1>2, <1>3 DEF ChoiceInv, PanelIsFull, ModelsOf
<1> QED
  BY <1>1, <1>2, <1>4 DEF WaitingInv, WaveInv

\* Another pass over the failed answers, or the judge, or nothing to judge.
LEMMA ReviewKeeps ==
  ASSUME FusionInv, Review
  PROVE  FusionInv'
<1> USE DEF FusionInv
<1>1. /\ at = "answered" /\ UNCHANGED <<choiceVars, wave, used, source, flags, call, position, final>>
      /\ UNCHANGED <<setting, panel, pool>>
  BY DEF Review, choiceVars
<1>2. /\ call \in [0..(MaxPanel + 1) -> CallStates] /\ queue \subseteq Slots
      /\ used \in 0..Len(pool) /\ Len(pool) \in Nat
      /\ position \in Good \cup {"none"} /\ final \in Good \cup {"none"}
  BY DEF ChoiceInv, FusionTypeOK, CallStates, Running
<1>3. \A s \in Slots : call[s] \in Ended
  BY <1>1 DEF AnsweredInv
<1>4. Slots' = Slots /\ FailedSlots \subseteq Slots
  BY <1>1 DEF Slots, FailedSlots
<1>5. CASE FailedSlots # {} /\ used < Len(pool) /\ at' = "replace" /\ queue' = FailedSlots
  <2>1. ChoiceInv' /\ WaitingInv' /\ WaveInv'
    BY <1>1, <1>2, <1>4, <1>5, LaterKeeps DEF Single
  <2>2. AnsweredInv'
    BY <1>1, <1>3, <1>4, <1>5 DEF AnsweredInv
  <2>3. SourceInv'
    BY <1>1, <1>5 DEF SourceInv
  <2>4. RealInv' /\ JudgesAnswers'
    BY <1>1, <1>5 DEF RealInv, JudgesAnswers
  <2> QED
    BY <2>1, <2>2, <2>3, <2>4
<1>6. CASE /\ FailedSlots = {} \/ used >= Len(pool)
           /\ at' = (IF GoodSlots = {} THEN "failed" ELSE "judge") /\ queue' = queue
  <2>1. at' \in {"failed", "judge"}
    BY <1>6
  <2>2. ChoiceInv' /\ WaitingInv' /\ WaveInv'
    BY <1>1, <1>2, <2>1, <1>6, LaterKeeps DEF Single
  <2>3. at' = "failed" => \A s \in Slots : call[s] = "error"
    <3> SUFFICES ASSUME at' = "failed", NEW s \in Slots PROVE call[s] = "error"
      OBVIOUS
    <3>1. GoodSlots = {}
      BY <1>6
    <3>2. call[s] \notin Good
      BY <3>1 DEF GoodSlots
    <3> QED
      BY <1>3, <3>2 DEF Ended
  <2>4. AnsweredInv'
    BY <1>1, <1>3, <1>4, <2>1, <2>3 DEF AnsweredInv
  <2>5. SourceInv' /\ RealInv'
    BY <1>1, <2>1 DEF SourceInv, RealInv
  <2>6. JudgesAnswers'
    <3> SUFFICES ASSUME at' = "judge"
                 PROVE  /\ \E s \in Slots : call[s] \in Good
                        /\ (\E s \in Slots : call[s] = "error") => used = Len(pool)
      BY <1>1, <1>3, <1>4, <2>1 DEF JudgesAnswers
    <3>1. GoodSlots # {}
      BY <1>6
    <3>2. used >= Len(pool) => used = Len(pool)
      BY <1>2
    <3> QED
      BY <1>6, <3>1, <3>2 DEF GoodSlots, FailedSlots
  <2> QED
    BY <2>2, <2>4, <2>5, <2>6
<1> QED
  BY <1>5, <1>6 DEF Review

\* A candidate's answer takes the place of a failed one.
LEMMA ReplacedKeeps ==
  ASSUME FusionInv, Replaced
  PROVE  FusionInv'
<1> USE DEF FusionInv
<1> DEFINE q == Min(queue)
<1>1. /\ at = "replace" /\ call[0] \in Ended
      /\ call' = [call EXCEPT ![q] = call[0], ![0] = "idle"]
      /\ source' = [source EXCEPT ![q] = pool[used + 1]]
      /\ used' = used + 1
      /\ UNCHANGED <<choiceVars, wave, flags, position, final>>
      /\ UNCHANGED <<setting, panel, pool, position, final>>
  BY DEF Replaced, choiceVars
<1>2. at' \in {"answered", "replace"} /\ queue' \subseteq queue
  BY DEF Replaced
<1>3. at' = "replace" => queue' # {} /\ used' # Len(pool)
  <2> SUFFICES ASSUME at' = "replace" PROVE queue' # {} /\ used' # Len(pool)
    OBVIOUS
  <2>1. ~(queue = {q} \/ used' = Len(pool)) /\ queue' = queue \ {q}
    BY DEF Replaced
  <2>2. queue # {}
    BY <1>1 DEF SourceInv
  <2> HIDE DEF q
  <2> QED
    BY <2>1, <2>2
<1>4. /\ MaxPanel \in Nat /\ Slots \subseteq 1..(MaxPanel + 1) /\ 0 \notin Slots
      /\ Slots \subseteq Nat /\ Slots' = Slots
  <2>1. MaxPanel \in Nat /\ Len(panel) \in 0..(MaxPanel + 1)
    BY FusionAssumption DEF ChoiceInv
  <2> QED
    BY <1>1, <2>1 DEF Slots
<1>5. /\ call \in [0..(MaxPanel + 1) -> CallStates] /\ queue \subseteq Slots
      /\ used \in 0..Len(pool) /\ Len(pool) \in Nat
      /\ position \in Good \cup {"none"} /\ final \in Good \cup {"none"}
  BY DEF ChoiceInv, FusionTypeOK, CallStates, Running
<1>6. queue # {} /\ used < Len(pool)
  BY <1>1 DEF SourceInv
<1>7. q \in Slots
  BY <1>4, <1>5, <1>6, LeastOf
<1> HIDE DEF q
<1>8. /\ call' \in [0..(MaxPanel + 1) -> CallStates]
      /\ call'[q] = call[0] /\ call'[0] = "idle"
      /\ \A s \in Slots : s # q => call'[s] = call[s]
  <2>1. q # 0 /\ q \in 0..(MaxPanel + 1) /\ 0 \in 0..(MaxPanel + 1)
    BY <1>4, <1>7
  <2>2. Slots \subseteq 0..(MaxPanel + 1)
    BY <1>4
  <2>3. call[0] \in CallStates /\ "idle" \in CallStates
    BY <1>5, <2>1 DEF CallStates
  <2> QED
    BY <1>1, <1>4, <1>5, <2>1, <2>2, <2>3
<1>9. used' \in 0..Len(pool) /\ (used' # Len(pool) => used' < Len(pool)) /\ used + 1 \in 1..Len(pool)
  BY <1>1, <1>5, <1>6
<1>10. ChoiceInv' /\ WaitingInv' /\ WaveInv'
  BY <1>1, <1>2, <1>5, <1>8, <1>9, LaterKeeps DEF Single
<1>11. AnsweredInv'
  <2>1. \A s \in Slots : call[s] \in Ended
    BY <1>1 DEF AnsweredInv, Single
  <2>2. \A s \in Slots : call'[s] \in Ended
    BY <1>1, <1>8, <2>1
  <2> QED
    BY <1>2, <1>4, <2>2 DEF AnsweredInv
<1>12. SourceInv'
  <2>1. /\ DOMAIN source = 1..(MaxPanel + 1)
        /\ \A s \in 1..(MaxPanel + 1) :
             source[s] = NoModel \/ \E j \in 1..used : source[s] = pool[j]
        /\ \A s, t \in 1..(MaxPanel + 1) : source[s] = source[t] => source[s] = NoModel \/ s = t
    BY DEF SourceInv
  <2>2. q \in 1..(MaxPanel + 1)
    BY <1>4, <1>7
  <2>3. /\ DOMAIN source' = 1..(MaxPanel + 1) /\ source'[q] = pool[used + 1]
        /\ \A s \in 1..(MaxPanel + 1) : s # q => source'[s] = source[s]
    BY <1>1, <2>1, <2>2
  <2>4. \A j \in 1..used : j \in 1..used' /\ j \in 1..Len(pool) /\ j # used + 1
    BY <1>1, <1>5
  <2>5. used + 1 \in 1..used'
    BY <1>1, <1>5
  <2>6. \A s \in 1..(MaxPanel + 1) : s # q => source[s] # pool[used + 1]
    <3> SUFFICES ASSUME NEW s \in 1..(MaxPanel + 1), s # q, source[s] = pool[used + 1]
                 PROVE  FALSE
      OBVIOUS
    <3>1. pool[used + 1] # NoModel /\ Distinctly(pool)
      BY <1>9 DEF ChoiceInv
    <3>2. PICK j \in 1..used : source[s] = pool[j]
      BY <2>1, <3>1
    <3> QED
      BY <1>9, <2>4, <3>1, <3>2 DEF Distinctly
  <2>7. ASSUME NEW s \in 1..(MaxPanel + 1)
        PROVE  source'[s] = NoModel \/ \E j \in 1..used' : source'[s] = pool[j]
    BY <2>1, <2>3, <2>4, <2>5
  <2>8. ASSUME NEW s \in 1..(MaxPanel + 1), NEW t \in 1..(MaxPanel + 1), source'[s] = source'[t]
        PROVE  source'[s] = NoModel \/ s = t
    BY <2>1, <2>3, <2>6, <2>8
  <2> QED
    BY <1>1, <1>3, <1>9, <2>3, <2>7, <2>8 DEF SourceInv
<1>13. RealInv'
  <2>1. setting.noSim => \A s \in 0..(MaxPanel + 1) : call'[s] # "mock"
    <3> SUFFICES ASSUME setting.noSim, NEW s \in 0..(MaxPanel + 1) PROVE call'[s] # "mock"
      OBVIOUS
    <3>1. \A t \in 0..(MaxPanel + 1) : call[t] # "mock"
      BY <1>1 DEF RealInv
    <3>2. 0 \in 0..(MaxPanel + 1) /\ q \in 0..(MaxPanel + 1)
      BY <1>4, <1>7
    <3> QED
      BY <1>1, <1>5, <3>1, <3>2
  <2> QED
    BY <1>1, <1>2, <2>1 DEF RealInv
<1>14. JudgesAnswers'
  BY <1>2 DEF JudgesAnswers
<1> QED
  BY <1>10, <1>11, <1>12, <1>13, <1>14

\* The call of a later step ends, and leaves the panel's answers as they are.
LEMMA CallZeroEnds ==
  ASSUME FusionInv, call' = [call EXCEPT ![0] = "idle"], UNCHANGED <<setting, panel, pool, used>>
  PROVE  /\ call' \in [0..(MaxPanel + 1) -> CallStates]
         /\ Slots' = Slots /\ Slots \subseteq Nat
         /\ \A s \in Slots : call'[s] = call[s]
         /\ at # "waiting" /\ setting.noSim =>
              call[0] # "mock" /\ \A s \in 0..(MaxPanel + 1) : call'[s] # "mock"
<1>1. MaxPanel \in Nat /\ Len(panel) \in 0..(MaxPanel + 1)
  BY FusionAssumption DEF FusionInv, ChoiceInv
<1>2. Slots' = Slots /\ Slots \subseteq 1..(MaxPanel + 1) /\ Slots \subseteq Nat
  BY <1>1 DEF Slots
<1>3. call \in [0..(MaxPanel + 1) -> CallStates] /\ 0 \in 0..(MaxPanel + 1)
  BY <1>1 DEF FusionInv, ChoiceInv, FusionTypeOK, CallStates, Running
<1>4. \A s \in Slots : s # 0 /\ s \in 0..(MaxPanel + 1)
  BY <1>1, <1>2
<1>5. call' \in [0..(MaxPanel + 1) -> CallStates]
  BY <1>3 DEF CallStates
<1> QED
  BY <1>2, <1>3, <1>4, <1>5 DEF FusionInv, RealInv

\* The judge has answered, or has failed.
LEMMA JudgedKeeps ==
  ASSUME FusionInv, Judged
  PROVE  FusionInv'
<1> USE DEF FusionInv
<1>1. /\ at = "judge" /\ call[0] \in Ended /\ call' = [call EXCEPT ![0] = "idle"]
      /\ UNCHANGED <<choiceVars, wave, used, source, flags, final>>
      /\ UNCHANGED <<setting, panel, pool, used>>
  BY DEF Judged, choiceVars
<1>2. \/ at' = "verdict" /\ queue' = GoodSlots /\ position' = position
      \/ at' = "writer" /\ queue' = queue /\ position' = call[0] /\ call[0] \in Good
  BY <1>1 DEF Judged, Ended
<1>3. /\ call' \in [0..(MaxPanel + 1) -> CallStates]
      /\ Slots' = Slots /\ \A s \in Slots : call'[s] = call[s]
      /\ setting.noSim => call[0] # "mock" /\ \A s \in 0..(MaxPanel + 1) : call'[s] # "mock"
  BY <1>1, CallZeroEnds
<1>4. /\ queue' \subseteq Slots /\ used' \in 0..Len(pool)
      /\ position' \in Good \cup {"none"} /\ final' \in Good \cup {"none"}
  BY <1>1, <1>2 DEF ChoiceInv, FusionTypeOK, GoodSlots
<1>5. ChoiceInv' /\ WaitingInv' /\ WaveInv'
  BY <1>1, <1>2, <1>3, <1>4, LaterKeeps DEF Single
<1>6. AnsweredInv'
  BY <1>1, <1>2, <1>3 DEF AnsweredInv, Single
<1>7. SourceInv'
  BY <1>1, <1>2 DEF SourceInv
<1>8. RealInv'
  BY <1>1, <1>2, <1>3 DEF RealInv
<1>9. JudgesAnswers'
  BY <1>1, <1>3 DEF JudgesAnswers
<1> QED
  BY <1>5, <1>6, <1>7, <1>8, <1>9

\* A verdict is taken from a model that has answered, or its answer is.
LEMMA VerdictKeeps ==
  ASSUME FusionInv, VerdictGiven
  PROVE  FusionInv'
<1> USE DEF FusionInv
<1>1. /\ at = "verdict" /\ call[0] \in Ended /\ call' = [call EXCEPT ![0] = "idle"]
      /\ UNCHANGED <<choiceVars, wave, used, source, flags, final>>
      /\ UNCHANGED <<setting, panel, pool, used>>
  BY DEF VerdictGiven, choiceVars
<1>2. \/ queue' \subseteq queue /\ at' = at /\ position' = position
      \/ /\ queue' = {} /\ at' = "writer"
         /\ position' = IF call[0] = "error" THEN call[Min(GoodSlots)] ELSE call[0]
  BY DEF VerdictGiven
<1>3. /\ call' \in [0..(MaxPanel + 1) -> CallStates]
      /\ Slots' = Slots /\ Slots \subseteq Nat /\ \A s \in Slots : call'[s] = call[s]
      /\ setting.noSim => call[0] # "mock" /\ \A s \in 0..(MaxPanel + 1) : call'[s] # "mock"
  BY <1>1, CallZeroEnds
<1>4. Min(GoodSlots) \in GoodSlots
  <2>1. GoodSlots # {}
    BY <1>1 DEF JudgesAnswers, GoodSlots
  <2>2. GoodSlots \subseteq Nat
    BY <1>3 DEF GoodSlots
  <2> QED
    BY <2>1, <2>2, LeastOf
<1>5. call[Min(GoodSlots)] \in Good /\ call'[Min(GoodSlots)] = call[Min(GoodSlots)]
  BY <1>3, <1>4 DEF GoodSlots
<1>6. setting.noSim => call[Min(GoodSlots)] # "mock"
  <2>1. Min(GoodSlots) \in 0..(MaxPanel + 1)
    <3>1. MaxPanel \in Nat /\ Len(panel) \in 0..(MaxPanel + 1)
      BY FusionAssumption DEF ChoiceInv
    <3> QED
      BY <1>4, <3>1 DEF GoodSlots, Slots
  <2> QED
    BY <1>1, <2>1 DEF RealInv
<1>7. at' = "writer" => position' \in Good /\ (setting.noSim => position' # "mock")
  BY <1>1, <1>2, <1>3, <1>5, <1>6 DEF Ended
<1>8. at' \in {"verdict", "writer"} /\ (at' = "verdict" => position' = position)
  BY <1>1, <1>2
<1>9. /\ queue' \subseteq Slots /\ used' \in 0..Len(pool)
      /\ position' \in Good \cup {"none"} /\ final' \in Good \cup {"none"}
  BY <1>1, <1>2, <1>7, <1>8 DEF ChoiceInv, FusionTypeOK
<1>10. ChoiceInv' /\ WaitingInv' /\ WaveInv'
  BY <1>1, <1>8, <1>3, <1>9, LaterKeeps DEF Single
<1>11. AnsweredInv'
  BY <1>1, <1>3, <1>8 DEF AnsweredInv, Single
<1>12. SourceInv'
  BY <1>1, <1>8 DEF SourceInv
<1>13. RealInv'
  BY <1>1, <1>3, <1>7, <1>8 DEF RealInv
<1>14. JudgesAnswers'
  BY <1>1, <1>3 DEF JudgesAnswers
<1> QED
  BY <1>10, <1>11, <1>12, <1>13, <1>14

\* The final answer is written, or is the judge's position.
LEMMA WrittenKeeps ==
  ASSUME FusionInv, Written
  PROVE  FusionInv'
<1> USE DEF FusionInv
<1>1. /\ at = "writer" /\ at' = "done" /\ call[0] \in Ended
      /\ final' = IF call[0] = "error" THEN position ELSE call[0]
      /\ UNCHANGED <<choiceVars, wave, flags>>
      /\ UNCHANGED <<setting, panel, pool, used, queue, source, call, position>>
  BY DEF Written, choiceVars, panelVars
<1>2. position \in Good /\ final' \in Good
  BY <1>1 DEF RealInv, Ended
<1>3. /\ call \in [0..(MaxPanel + 1) -> CallStates] /\ queue \subseteq Slots
      /\ used \in 0..Len(pool) /\ 0 \in 0..(MaxPanel + 1)
  BY FusionAssumption DEF ChoiceInv, FusionTypeOK, CallStates, Running
<1>4. ChoiceInv' /\ WaitingInv' /\ WaveInv' /\ Slots' = Slots
  BY <1>1, <1>2, <1>3, LaterKeeps DEF Single
<1>5. AnsweredInv'
  BY <1>1, <1>4 DEF AnsweredInv, Single
<1>6. SourceInv'
  BY <1>1 DEF SourceInv
<1>7. RealInv'
  <2>1. setting.noSim => final' # "mock"
    BY <1>1, <1>3 DEF RealInv
  <2> QED
    BY <1>1, <1>2, <2>1 DEF RealInv
<1>8. JudgesAnswers'
  BY <1>1, <1>4 DEF JudgesAnswers
<1> QED
  BY <1>4, <1>5, <1>6, <1>7, <1>8

\* Every run of the fusion engine, in every situation it may begin in and with a panel
\* of any size: its panel is full, no candidate is asked twice, nothing is judged while a
\* failed answer could be replaced, and what is returned some model has answered.
THEOREM FusionAlwaysConsistent == FusionInit /\ [][FusionNext]_fusionVars => []FusionConsistent
<1>1. FusionInit => FusionInv
  BY FusionInvInit
<1>2. ASSUME FusionInv, [FusionNext]_fusionVars PROVE FusionInv'
  <2>1. ASSUME NEW c \in Settings, BeginFusion(c) PROVE FusionInv'
    BY <1>2, <2>1, BeginKeeps
  <2>2. ASSUME FusionStep PROVE FusionInv'
    BY <1>2, <2>2, CallingKeeps, WaveEndsKeeps, ReviewKeeps, ReplacedKeeps, JudgedKeeps,
       VerdictKeeps, WrittenKeeps DEF FusionStep
  <2>3. CASE UNCHANGED fusionVars
    <3>1. /\ UNCHANGED <<setting, flags, at, panel, pool, judge, call, wave, used, queue, source>>
          /\ UNCHANGED <<position, final>> /\ Slots' = Slots
      BY <2>3 DEF fusionVars, choiceVars, panelVars, Slots
    <3>2. ChoiceInv'
      BY <1>2, <3>1 DEF FusionInv, ChoiceInv, FusionTypeOK, PanelIsFull, ModelsOf
    <3>3. WaitingInv' /\ WaveInv'
      BY <1>2, <3>1 DEF FusionInv, WaitingInv, WaveInv
    <3>4. AnsweredInv' /\ SourceInv'
      BY <1>2, <3>1 DEF FusionInv, AnsweredInv, SourceInv
    <3>5. RealInv' /\ JudgesAnswers'
      BY <1>2, <3>1 DEF FusionInv, RealInv, JudgesAnswers
    <3> QED
      BY <3>2, <3>3, <3>4, <3>5 DEF FusionInv
  <2> QED
    BY <1>2, <2>1, <2>2, <2>3 DEF FusionNext
<1>3. FusionInv => FusionConsistent
  BY FusionInvImplies
<1> QED
  BY <1>1, <1>2, <1>3, PTL
=============================================================================
