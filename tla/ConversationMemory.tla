------------------------- MODULE ConversationMemory -------------------------
(***************************************************************************)
(* SqliteMemoryRepository and ContextManager, as the /boost requests use them *)
(* that share one session: find or insert the session, assemble a context,    *)
(* and after the model's answer append the question and the answer.  Every    *)
(* query is a transaction of its own and may fail, the requests ignore errors, *)
(* a delete may come at any time, and the clock of the host may be set back.   *)
(* updated_at, which only orders the list of sessions, is left out.          *)
(***************************************************************************)
EXTENDS Integers, FiniteSets, Sequences, SequencesExt

CONSTANTS
  Talks,         \* the requests
  Past,          \* one that may be over before they begin
  Budget,        \* max_context_tokens less what is reserved for the answer
  HistoryLimit,  \* messages read by assemble_context (30)
  MaxClock       \* bound of the clock

ASSUME MemoryAssumption ==
  Past \notin Talks /\ Budget \in Nat /\ HistoryLimit \in Nat /\ MaxClock \in Nat \ {0}

VARIABLES
  session,   \* is the row of the session there
  messages,  \* the rows of the messages, <<talk, role>> -> created_at
  clock,
  talkAt,    \* "new", "insert", "assemble", "question", "answer", "putQ", "putA", "end"
  stamp,     \* created_at of the message a talk is about to insert
  context,   \* recent_turns of each talk
  earlier    \* history: the rows that were there when an append began

memoryVars == <<session, messages, clock, talkAt, stamp, context, earlier>>

Rows == DOMAIN messages
TokenCount(row) == IF row[2] = "user" THEN 1 ELSE 2      \* token_count
WithEntry(f, m, v) == [n \in {m} \cup DOMAIN f |-> IF n = m THEN v ELSE f[n]]
Stamps(rows) == {messages[row] : row \in rows}

MemoryInit ==
  /\ \/ session \in BOOLEAN /\ messages = <<>> /\ earlier = <<>>
     \/ LET question == <<Past, "user">>  answer == <<Past, "assistant">>
        IN /\ session = TRUE
           /\ messages = [m \in {question, answer} |-> IF m = question THEN 1 ELSE 2]
           /\ earlier = [m \in {question, answer} |-> IF m = question THEN {} ELSE {question}]
  /\ clock = 1
  /\ talkAt = [t \in Talks |-> "new"] /\ stamp = [t \in Talks |-> 0]
  /\ context = [t \in Talks |-> <<>>]

Goto(t, place) == talkAt' = [talkAt EXCEPT ![t] = place]

-----------------------------------------------------------------------------
(* ensure_session.                                                         *)

FindSession(t) ==
  /\ talkAt[t] = "new"
  /\ Goto(t, IF session THEN "assemble" ELSE "insert")
  /\ UNCHANGED <<session, messages, clock, stamp, context, earlier>>

\* Another request may have inserted it: the id is a primary key.
InsertSession(t) ==
  /\ talkAt[t] = "insert"
  /\ session' = TRUE
  /\ Goto(t, IF session THEN "end" ELSE "assemble")
  /\ UNCHANGED <<messages, clock, stamp, context, earlier>>

-----------------------------------------------------------------------------
(* assemble_context.                                                       *)

\* The rows in the order of the query, newest first; equal stamps as they come.
NewestFirst ==
  {order \in SetToSeqs(Rows) :
     \A i, j \in 1..Len(order) : i < j => messages[order[i]] >= messages[order[j]]}

\* Mutant: a turn that does not fit is passed over and older ones are tried.
MutSelected(order) ==
  FoldLeft(LAMBDA turns, row :
             LET used == FoldLeft(LAMBDA sum, r : sum + TokenCount(r), 0, turns)
             IN IF used + TokenCount(row) > Budget THEN turns ELSE <<row>> \o turns,
           <<>>, SubSeq(order, 1, IF Len(order) > HistoryLimit THEN HistoryLimit ELSE Len(order)))

\* The newest turns, as many as fit, in the order of time.
Selected(order) ==
  LET history == IF Len(order) > HistoryLimit THEN SubSeq(order, 1, HistoryLimit) ELSE order
      used(n) == FoldLeft(LAMBDA sum, row : sum + TokenCount(row), 0, SubSeq(history, 1, n))
      fitting == {n \in 0..Len(history) : \A k \in 1..n : used(k) <= Budget}
  IN Reverse(SubSeq(history, 1, CHOOSE n \in fitting : \A k \in fitting : k <= n))

AssembleContext(t) ==
  /\ talkAt[t] = "assemble"
  /\ \E order \in NewestFirst : context' = [context EXCEPT ![t] = Selected(order)]
  /\ Goto(t, "question")
  /\ UNCHANGED <<session, messages, clock, stamp, earlier>>

\* A query fails before the model runs: the request goes on without the session,
\* or without the history.
ReadFails(t) ==
  /\ \/ talkAt[t] \in {"new", "insert"} /\ Goto(t, "end")
     \/ talkAt[t] = "assemble" /\ Goto(t, "question")
  /\ UNCHANGED <<session, messages, clock, stamp, context, earlier>>

-----------------------------------------------------------------------------
(* append_message of the question and then of the answer.                   *)

Message(t) == <<t, IF talkAt[t] \in {"question", "putQ"} THEN "user" ELSE "assistant">>
AfterAppend(t) == Goto(t, IF talkAt[t] \in {"question", "putQ"} THEN "answer" ELSE "end")

\* SELECT MAX(created_at), and the stamp behind it if the clock is not.
ReadNewest(t) ==
  /\ talkAt[t] \in {"question", "answer"}
  /\ \E now \in {clock} \cup {s + 1 : s \in Stamps(Rows)} :
       /\ now >= clock /\ \A s \in Stamps(Rows) : now > s
       /\ stamp' = [stamp EXCEPT ![t] = now]
  /\ earlier' = WithEntry(earlier, Message(t), Rows)
  /\ Goto(t, IF talkAt[t] = "question" THEN "putQ" ELSE "putA")
  /\ UNCHANGED <<session, messages, clock, context>>

\* INSERT: the foreign key must be there.
PutMessage(t) ==
  /\ talkAt[t] \in {"putQ", "putA"}
  /\ messages' = IF session THEN WithEntry(messages, Message(t), stamp[t]) ELSE messages
  /\ AfterAppend(t)
  /\ UNCHANGED <<session, clock, stamp, context, earlier>>

\* A query of append fails: the database is busy for too long.
AppendFails(t) ==
  /\ talkAt[t] \in {"question", "answer", "putQ", "putA"}
  /\ AfterAppend(t)
  /\ UNCHANGED <<session, messages, clock, stamp, context, earlier>>

-----------------------------------------------------------------------------
\* Mutant: the rows of the messages stay.
MutDeleteSession ==
  /\ session /\ session' = FALSE
  /\ UNCHANGED <<messages, clock, talkAt, stamp, context, earlier>>

\* delete_session; the messages go with it.
DeleteSession ==
  /\ session /\ session' = FALSE
  /\ messages' = <<>>
  /\ UNCHANGED <<clock, talkAt, stamp, context, earlier>>

SetClock ==
  /\ clock' \in (1..MaxClock) \ {clock}
  /\ UNCHANGED <<session, messages, talkAt, stamp, context, earlier>>

MemoryNext ==
  \/ \E t \in Talks :
       \/ FindSession(t) \/ InsertSession(t) \/ AssembleContext(t) \/ ReadFails(t)
       \/ ReadNewest(t) \/ PutMessage(t) \/ AppendFails(t)
  \/ DeleteSession \/ SetClock

MemorySpec == MemoryInit /\ [][MemoryNext]_memoryVars

-----------------------------------------------------------------------------
(* A message stands behind every message that was stored when its append      *)
(* began, and so an answer behind its question, whatever the clock does and   *)
(* whoever else writes to the session (memory.rs:269).                      *)
AppendsInOrder ==
  \A m \in Rows : \A n \in earlier[m] \cap Rows : messages[n] < messages[m]

(* No message without its session, however delete, insert and append overlap. *)
NoOrphans == Rows # {} => session

(* What an assembled context leaves out is not newer than what it holds; it   *)
(* is in order and within the budget, and the newest turn it leaves out would *)
(* not have fitted (memory.rs:392).                                        *)
ContextIsRecent ==
  [][\A t \in Talks : context'[t] # context[t] =>
       LET turns == context'[t]
           tokens == FoldLeft(LAMBDA sum, row : sum + TokenCount(row), 0, turns)
           left == Rows \ ToSet(turns)
       IN /\ tokens <= Budget
          /\ \A i, j \in 1..Len(turns) : i < j => messages[turns[i]] <= messages[turns[j]]
          /\ \A row \in left : \A i \in 1..Len(turns) : messages[row] <= messages[turns[i]]
          /\ left = {} \/ Len(turns) = HistoryLimit
               \/ \E row \in left : /\ \A other \in left : messages[other] <= messages[row]
                                   /\ tokens + TokenCount(row) > Budget]_memoryVars

(* The messages of a session stand in the order of their appends and do not   *)
(* outlive it.                                                              *)
LogConsistent == AppendsInOrder /\ NoOrphans
=============================================================================
