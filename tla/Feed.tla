--------------------------------- MODULE Feed ---------------------------------
(***************************************************************************)
(* What a read stream promises the worker that holds it, with nothing of   *)
(* how it is done: no watermark, no page, no seen set, no bus. Messages    *)
(* are posted and become ready or are withdrawn; a session sends each      *)
(* message at most once, only while it is ready, and each channel in the   *)
(* order of its seconds; a session that ends forgets what it sent.         *)
(***************************************************************************)
EXTENDS Naturals, Sequences

CONSTANTS
  Channels, \* what messages are posted to
  Sessions, \* streams a worker may hold
  Messages  \* the messages' positions

VARIABLES
  posts, \* the messages, in the order they were stored
  open,  \* sessions that are open
  sent   \* how often each session sent each message

vars == <<posts, open, sent>>

Post == [ch : Channels, sec : Nat, ready : BOOLEAN]
None == [i \in Messages |-> 0]

Init ==
  /\ posts = <<>>
  /\ open = {}
  /\ sent = [s \in Sessions |-> None]

\* Messages are added and change between ready and withheld; none moves.
Grow ==
  /\ posts' \in Seq(Post)
  /\ Len(posts') >= Len(posts)
  /\ \A i \in 1 .. Len(posts) : posts'[i].ch = posts[i].ch /\ posts'[i].sec = posts[i].sec

Publish ==
  /\ Grow
  /\ UNCHANGED <<open, sent>>

Connect(s) ==
  /\ s \notin open
  /\ open' = open \cup {s}
  /\ UNCHANGED <<posts, sent>>

\* The messages of a channel that session s may send next.
Sendable(s, c) ==
  {i \in 1 .. Len(posts) :
     /\ posts[i].ch = c
     /\ posts[i].ready
     /\ sent[s][i] = 0
     /\ \A j \in 1 .. Len(posts) :
          posts[j].ch = c /\ sent[s][j] > 0 => posts[j].sec <= posts[i].sec}

Send(s, c) ==
  /\ s \in open
  /\ \E batch \in SUBSET Sendable(s, c) :
       sent' = [sent EXCEPT ![s] =
                  [i \in Messages |-> sent[s][i] + (IF i \in batch THEN 1 ELSE 0)]]
  /\ UNCHANGED <<posts, open>>

End(S) ==
  /\ open' = open \ S
  /\ sent' = [s \in Sessions |-> IF s \in S THEN None ELSE sent[s]]

Disconnect(s) ==
  /\ s \in open
  /\ End({s})
  /\ UNCHANGED posts

\* The server dies and boots: every session ends, unfinished messages settle.
Crash ==
  /\ End(Sessions)
  /\ Grow

Next ==
  \/ Publish
  \/ Crash
  \/ \E s \in Sessions :
       \/ Connect(s) \/ Disconnect(s)
       \/ \E c \in Channels : Send(s, c)

Spec == Init /\ [][Next]_vars
=============================================================================
