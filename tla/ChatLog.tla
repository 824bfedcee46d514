------------------------------- MODULE ChatLog -------------------------------
(***************************************************************************)
(* The chat message log and its change bus: the rows of chat_messages, the *)
(* request handlers that stamp, insert and announce a message, the agent   *)
(* bubbles that are inserted empty and filled later, and the in-process    *)
(* fan-out of "channel c changed" pings (internal/chat, and the part of    *)
(* internal/chatagents that writes bubbles).                               *)
(*                                                                         *)
(* A row's id is its position in the log: SQLite keeps rows of one second  *)
(* in rowid order, which is insertion order.                               *)
(***************************************************************************)
EXTENDS Integers, Sequences, FiniteSets

CONSTANTS
  Channels,    \* chat channels of one community
  Writers,     \* goroutines that write messages: send handlers, agent runs
  Subscribers, \* open streams that listen to the bus
  AnyChannel,  \* the empty ping: a structural change, every channel concerned
  Kinds,       \* which of MessageKinds the writers post
  Start,       \* the second the model starts in
  Horizon,     \* bound: the last second of the clock
  MaxMsgs,     \* bound: rows ever inserted
  PerSecond,   \* bound: rows of one channel stamped with the same second
  MaxDeletes,  \* bound: rows ever deleted
  MaxLag,      \* bound: seconds between a message's stamp and its insert
  QLen         \* capacity of a subscriber's buffer (16 in the code)

\* "user" stands for every deliverable human or webhook row, "own" for what a
\* stream filters out (the connector's own posts, system rows, no mention),
\* "bot" for an agent's bubble.
MessageKinds == {"user", "own", "bot"}

ASSUME ChatConstants ==
  /\ IsFiniteSet(Writers)
  /\ AnyChannel \notin Channels
  /\ Kinds \subseteq MessageKinds
  /\ Start \in Nat \ {0} /\ Horizon \in Nat /\ Start <= Horizon
  /\ {MaxMsgs, PerSecond, MaxDeletes, MaxLag, QLen} \subseteq Nat

VARIABLES
  clock,      \* time.Now() in whole seconds
  log,        \* chat_messages, in insertion order
  writer,     \* what each writing goroutine is about to do
  subscribed, \* subscribers registered on the bus
  box         \* their buffered pings

chatVars == <<clock, log, writer, subscribed, box>>

Second == Start .. Horizon
Row    == [ch : Channels, kind : Kinds, sec : Second,
           gen : {"", "generating", "final"}, deleted : BOOLEAN]
Ping   == Channels \cup {AnyChannel}

Idle   == [st |-> "idle"]
Writer == {Idle}
          \cup [st : {"stamped"}, ch : Channels, kind : Kinds, sec : Second]
          \cup [st : {"inserted", "generating", "flushed"}, id : 1 .. MaxMsgs]

ChatTypeOK ==
  /\ clock \in Second
  /\ log \in Seq(Row) /\ Len(log) <= MaxMsgs
  /\ writer \in [Writers -> Writer]
  /\ \A w \in Writers : writer[w].st \in {"inserted", "generating", "flushed"}
                          => writer[w].id \in 1 .. Len(log)
  /\ subscribed \subseteq Subscribers
  /\ box \in [Subscribers -> Seq(Ping)]
  /\ \A s \in Subscribers : Len(box[s]) <= QLen

ChatInit ==
  /\ clock = Start
  /\ log = <<>>
  /\ writer = [w \in Writers |-> Idle]
  /\ subscribed = {}
  /\ box = [s \in Subscribers |-> <<>>]

Ids == 1 .. Len(log)
InChannel(c) == {i \in Ids : log[i].ch = c}

-----------------------------------------------------------------------------
\* Bus.Broadcast: every registered subscriber gets the ping, one whose buffer
\* is full drops it. (BroadcastUnbounded is a mutant, as are the definitions of
\* the other modules whose comment says so.)
BroadcastUnbounded(p) ==
  box' = [s \in Subscribers |-> IF s \in subscribed THEN Append(box[s], p) ELSE box[s]]

Broadcast(p) ==
  box' = [s \in Subscribers |->
            IF s \in subscribed /\ Len(box[s]) < QLen
            THEN Append(box[s], p) ELSE box[s]]

\* Bus.Subscribe and its unsubscribe: a new, empty buffer each time.
Subscribe(s) ==
  /\ subscribed' = subscribed \cup {s}
  /\ box' = [box EXCEPT ![s] = <<>>]

Unsubscribe(s) ==
  /\ subscribed' = subscribed \ {s}
  /\ box' = [box EXCEPT ![s] = <<>>]

\* The clock may pass a stamped message by at most MaxLag seconds.
Tick ==
  /\ clock < Horizon
  /\ \A w \in Writers : writer[w].st = "stamped" => clock - writer[w].sec < MaxLag
  /\ clock' = clock + 1
  /\ UNCHANGED <<log, writer, subscribed, box>>

Stamped == {w \in Writers : writer[w].st = "stamped"}

\* Service.Send, and ChannelRunner.run for a bubble: the message is built, and
\* CreatedAt is read from the clock, before the INSERT runs.
Stamp(w, c, k) ==
  /\ writer[w] = Idle
  /\ Len(log) + Cardinality(Stamped) < MaxMsgs
  /\ Cardinality({i \in InChannel(c) : log[i].sec = clock})
       + Cardinality({v \in Stamped : writer[v].ch = c /\ writer[v].sec = clock})
     < PerSecond
  /\ writer' = [writer EXCEPT ![w] = [st |-> "stamped", ch |-> c, kind |-> k, sec |-> clock]]
  /\ UNCHANGED <<clock, log, subscribed, box>>

\* Repo.Insert: a bubble starts as an empty placeholder, still generating.
Insert(w) ==
  /\ writer[w].st = "stamped"
  /\ log' = Append(log, [ch |-> writer[w].ch, kind |-> writer[w].kind, sec |-> writer[w].sec,
                         gen |-> IF writer[w].kind = "bot" THEN "generating" ELSE "",
                         deleted |-> FALSE])
  /\ writer' = [writer EXCEPT ![w] = [st |-> "inserted", id |-> Len(log) + 1]]
  /\ UNCHANGED <<clock, subscribed, box>>

\* The INSERT fails and the handler returns: nothing was written.
InsertFails(w) ==
  /\ writer[w].st = "stamped"
  /\ writer' = [writer EXCEPT ![w] = Idle]
  /\ UNCHANGED <<clock, log, subscribed, box>>

\* The broadcast that follows the insert, and the one that follows a flush. A
\* bubble's goroutine goes on to generate, a send handler is done.
Announce(w) ==
  /\ writer[w].st \in {"inserted", "flushed"}
  /\ LET i == writer[w].id IN
       /\ writer' = [writer EXCEPT ![w] =
                       IF writer[w].st = "inserted" /\ log[i].kind = "bot"
                       THEN [st |-> "generating", id |-> i] ELSE Idle]
       /\ Broadcast(log[i].ch)
  /\ UNCHANGED <<clock, log, subscribed>>

\* A ~100ms flush while the model streams: the body grows, the status stays.
FlushPartial(w) ==
  /\ writer[w].st = "generating"
  /\ Broadcast(log[writer[w].id].ch)
  /\ UNCHANGED <<clock, log, writer, subscribed>>

\* The last flush, with a terminal status. UpdateBotBody may fail (its 5 s
\* context, a locked database): the error is logged, the row keeps
\* gen_status = generating, and the broadcast follows all the same.
FlushFinal(w) ==
  /\ writer[w].st = "generating"
  /\ LET i == writer[w].id IN
       /\ log' \in {log, [log EXCEPT ![i].gen = "final"]}
       /\ writer' = [writer EXCEPT ![w] = [st |-> "flushed", id |-> i]]
  /\ UNCHANGED <<clock, subscribed, box>>

\* A moderator or the author deletes a message, and the channel is announced. One
\* step: the announcement of a deletion has nothing to deliver.
SoftDelete(i) ==
  /\ i \in Ids
  /\ ~log[i].deleted
  /\ Cardinality({j \in Ids : log[j].deleted}) < MaxDeletes
  /\ log' = [log EXCEPT ![i].deleted = TRUE]
  /\ Broadcast(log[i].ch)
  /\ UNCHANGED <<clock, writer, subscribed>>

\* Channel CRUD and system notices broadcast "".
Structural ==
  /\ Broadcast(AnyChannel)
  /\ UNCHANGED <<clock, log, writer, subscribed>>

\* The process dies and boots again: goroutines, subscriptions and buffers are
\* gone, and the boot sweep marks the bubbles left generating as interrupted.
Reboot ==
  /\ writer' = [w \in Writers |-> Idle]
  /\ log' = [i \in Ids |->
               [log[i] EXCEPT !.gen = IF @ = "generating" THEN "final" ELSE @]]
  /\ subscribed' = {}
  /\ box' = [s \in Subscribers |-> <<>>]
  /\ UNCHANGED clock

ChatStep ==
  \/ Tick
  \/ Structural
  \/ \E i \in Ids : SoftDelete(i)
  \/ \E w \in Writers :
       \/ \E c \in Channels, k \in Kinds : Stamp(w, c, k)
       \/ Insert(w) \/ InsertFails(w) \/ Announce(w)
       \/ FlushPartial(w) \/ FlushFinal(w)
=============================================================================
