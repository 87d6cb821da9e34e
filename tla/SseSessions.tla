---------------------------- MODULE SseSessions ----------------------------
(***************************************************************************)
(* The SSE server: a session per GET /sse with a serving loop of its own and  *)
(* two channels of Buffer messages, and the POST handlers that put messages   *)
(* into a session's inbox.  A client may leave, and nobody takes its session  *)
(* out of the manager: posts to it are accepted and served, the replies are   *)
(* dropped.  Message k of post p is <<p, k>>; every message is a request.     *)
(***************************************************************************)
EXTENDS Integers, FiniteSets, Sequences, SequencesExt

CONSTANTS
  SessionIds, Posts,
  Buffer,        \* of both channels (128)
  MaxInPost      \* bound: messages in one POST

ASSUME SseAssumption == Buffer \in Nat \ {0} /\ MaxInPost \in Nat \ {0}

VARIABLES
  client,   \* of each session: "none", "open", "gone"
  inbox, outbox,
  post,     \* "new", "sending", "accepted", "refused", "cut"
  target, sent, size,  \* of each post: its session, messages put in, messages in all
  working,  \* the messages whose handler task runs
  ended     \* history: the messages whose reply was read or dropped

sseVars == <<client, inbox, outbox, post, target, sent, size, working, ended>>

SseInit ==
  /\ client = [s \in SessionIds |-> "none"]
  /\ inbox = [s \in SessionIds |-> <<>>] /\ outbox = [s \in SessionIds |-> <<>>]
  /\ post = [p \in Posts |-> "new"] /\ target = [p \in Posts |-> {}]
  /\ sent = [p \in Posts |-> 0] /\ size = [p \in Posts |-> 0]
  /\ working = {} /\ ended = {}

Managed == {s \in SessionIds : client[s] # "none"}

Connect(s) ==
  /\ client[s] = "none"
  /\ client' = [client EXCEPT ![s] = "open"]
  /\ UNCHANGED <<inbox, outbox, post, target, sent, size, working, ended>>

\* The stream is dropped, and with it the receiver of the replies.
Leave(s) ==
  /\ client[s] = "open"
  /\ client' = [client EXCEPT ![s] = "gone"]
  /\ ended' = ended \cup ToSet(outbox[s])
  /\ outbox' = [outbox EXCEPT ![s] = <<>>]
  /\ UNCHANGED <<inbox, post, target, sent, size, working>>

\* POST with the id of a session, or with none: any session will do.
PostTo(p, s, n) ==
  /\ post[p] = "new" /\ s \in Managed
  /\ post' = [post EXCEPT ![p] = "sending"]
  /\ target' = [target EXCEPT ![p] = {s}] /\ size' = [size EXCEPT ![p] = n]
  /\ UNCHANGED <<client, inbox, outbox, sent, working, ended>>

\* No such session (404), or a body that is no message (400).
RefusePost(p) ==
  /\ post[p] = "new"
  /\ post' = [post EXCEPT ![p] = "refused"]
  /\ UNCHANGED <<client, inbox, outbox, target, sent, size, working, ended>>

\* handle_incoming_post of the next message; a batch goes in one at a time.
PutIn(p) ==
  /\ post[p] = "sending"
  /\ \E s \in target[p] :
       /\ Len(inbox[s]) < Buffer
       /\ inbox' = [inbox EXCEPT ![s] = Append(@, <<p, sent[p] + 1>>)]
  /\ sent' = [sent EXCEPT ![p] = @ + 1]
  /\ post' = [post EXCEPT ![p] = IF sent'[p] = size[p] THEN "accepted" ELSE "sending"]
  /\ UNCHANGED <<client, outbox, target, size, working, ended>>

\* The poster leaves and its handler is dropped between two messages.
CutPost(p) ==
  /\ post[p] = "sending"
  /\ post' = [post EXCEPT ![p] = "cut"]
  /\ UNCHANGED <<client, inbox, outbox, target, sent, size, working, ended>>

\* Mutant: serve awaits the handler instead of spawning it.
MutTake(s) ==
  /\ inbox[s] # <<>>
  /\ \A m \in working : s \notin target[m[1]]
  /\ working' = working \cup {Head(inbox[s])}
  /\ inbox' = [inbox EXCEPT ![s] = Tail(@)]
  /\ UNCHANGED <<client, outbox, post, target, sent, size, ended>>

\* serve: receive a request and spawn its handler.
Take(s) ==
  /\ inbox[s] # <<>>
  /\ working' = working \cup {Head(inbox[s])}
  /\ inbox' = [inbox EXCEPT ![s] = Tail(@)]
  /\ UNCHANGED <<client, outbox, post, target, sent, size, ended>>

\* The end of a handler: its send waits for room, or fails when the client left.
Reply(m) ==
  /\ m \in working
  /\ \E s \in target[m[1]] :
       \/ /\ client[s] = "open" /\ Len(outbox[s]) < Buffer
          /\ outbox' = [outbox EXCEPT ![s] = Append(@, m)]
          /\ UNCHANGED ended
       \/ /\ client[s] = "gone" /\ ended' = ended \cup {m}
          /\ UNCHANGED outbox
  /\ working' = working \ {m}
  /\ UNCHANGED <<client, inbox, post, target, sent, size>>

\* The stream hands an event to the client.
ReadEvent(s) ==
  /\ outbox[s] # <<>>
  /\ ended' = ended \cup {Head(outbox[s])}
  /\ outbox' = [outbox EXCEPT ![s] = Tail(@)]
  /\ UNCHANGED <<client, inbox, post, target, sent, size, working>>

SseNext ==
  \/ \E s \in SessionIds : Connect(s) \/ Leave(s) \/ Take(s) \/ ReadEvent(s)
  \/ \E p \in Posts :
       \/ RefusePost(p) \/ PutIn(p) \/ CutPost(p)
       \/ \E s \in SessionIds, n \in 1..MaxInPost : PostTo(p, s, n)
  \/ \E m \in working : Reply(m)

\* The server's tasks run; a client need not read, and need not leave.
SseFairness ==
  /\ WF_sseVars(\E s \in SessionIds : Take(s))
  /\ WF_sseVars(\E p \in Posts : PutIn(p))

SseSpec == SseInit /\ [][SseNext]_sseVars /\ SseFairness

-----------------------------------------------------------------------------
(* Every message that was put in is in one place and in the session it was    *)
(* posted to: waiting, at its handler, in the reply channel, or done with,     *)
(* whoever left meanwhile and however a batch was cut (sse_server.rs:118).   *)
MessageInItsSession ==
  \A p \in Posts : \A k \in 1..sent[p] : \A s \in target[p] :
    LET m == <<p, k>>
    IN Cardinality({i \in 1..Len(inbox[s]) : inbox[s][i] = m})
         + Cardinality({i \in 1..Len(outbox[s]) : outbox[s][i] = m})
         + (IF m \in working THEN 1 ELSE 0) + (IF m \in ended THEN 1 ELSE 0) = 1

(* A POST is answered whatever the clients do: one that never reads its       *)
(* stream, and one that has left, do not hold up the posts to their session   *)
(* (server.rs:485, sse_server.rs:142).                                      *)
PostsEnd == \A p \in Posts : post[p] = "sending" ~> post[p] # "sending"

(* No message is lost, doubled or sent to another session, and no poster      *)
(* waits for ever.                                                          *)
SessionsServe == []MessageInItsSession /\ PostsEnd
=============================================================================
