----------------------------- MODULE ChatLogProofs -----------------------------
(***************************************************************************)
(* What every step of the chat log preserves, for the proofs about the     *)
(* streams that read it.                                                   *)
(***************************************************************************)
EXTENDS ChatLog, FiniteSetTheorems, SequenceTheorems, TLAPS

\* A stamped message has a place in the log.
StampsFit == Len(log) + Cardinality(Stamped) <= MaxMsgs

ChatInv == ChatTypeOK /\ StampsFit

LEMMA ChatInitInv == ChatInit => ChatInv
<1> SUFFICES ASSUME ChatInit PROVE ChatInv
  OBVIOUS
<1> USE ChatConstants DEF ChatInit
<1>1. Stamped = {}
  BY DEF Stamped, Idle
<1>2. Cardinality({}) = 0
  BY FS_EmptySet
<1>3. StampsFit
  BY <1>1, <1>2 DEF StampsFit
<1>4. box \in [Subscribers -> Seq(Ping)] /\ \A s \in Subscribers : Len(box[s]) <= QLen
  OBVIOUS
<1>5. writer \in [Writers -> Writer]
  BY DEF Writer, Idle
<1>6. \A w \in Writers : writer[w].st = "idle"
  BY DEF Idle
<1>7. clock \in Second /\ log \in Seq(Row) /\ Len(log) <= MaxMsgs
  BY DEF Second
<1> QED
  BY <1>3, <1>4, <1>5, <1>6, <1>7 DEF ChatInv, ChatTypeOK

\* The buffers keep their type and their capacity.
BoxType(b) == b \in [Subscribers -> Seq(Ping)] /\ \A s \in Subscribers : Len(b[s]) <= QLen

LEMMA BroadcastType ==
  ASSUME BoxType(box), NEW p \in Ping, Broadcast(p)
  PROVE  BoxType(box')
<1>1. \A s \in Subscribers :
        /\ box[s] \in Seq(Ping) /\ Len(box[s]) \in Nat /\ Len(box[s]) <= QLen
        /\ Append(box[s], p) \in Seq(Ping) /\ Len(Append(box[s], p)) = Len(box[s]) + 1
  BY DEF BoxType
<1>2. QLen \in Nat
  BY ChatConstants
<1> QED
  BY <1>1, <1>2 DEF BoxType, Broadcast

LEMMA BoxReset ==
  ASSUME BoxType(box), NEW s \in Subscribers, box' = [box EXCEPT ![s] = <<>>]
  PROVE  BoxType(box')
<1>1. <<>> \in Seq(Ping) /\ Len(<<>>) = 0 /\ QLen \in Nat
  BY EmptySeq, ChatConstants
<1>2. box' \in [Subscribers -> Seq(Ping)]
  BY <1>1 DEF BoxType
<1>3. ASSUME NEW x \in Subscribers PROVE Len(box'[x]) <= QLen
  BY <1>1 DEF BoxType
<1> QED
  BY <1>2, <1>3 DEF BoxType

LEMMA BoxTail ==
  ASSUME BoxType(box), NEW s \in Subscribers, box[s] # <<>>, box' = [box EXCEPT ![s] = Tail(@)]
  PROVE  BoxType(box')
<1>1. \A x \in Subscribers : box[x] \in Seq(Ping) /\ Len(box[x]) \in Nat /\ Len(box[x]) <= QLen
  BY DEF BoxType
<1>2. Tail(box[s]) \in Seq(Ping) /\ Len(Tail(box[s])) = Len(box[s]) - 1 /\ QLen \in Nat
  BY <1>1, HeadTailProperties, ChatConstants
<1>3. box' \in [Subscribers -> Seq(Ping)] /\ \A x \in Subscribers : x # s => box'[x] = box[x]
  BY <1>1, <1>2 DEF BoxType
<1>4. box'[s] = Tail(box[s])
  BY DEF BoxType
<1>5. ASSUME NEW x \in Subscribers PROVE Len(box'[x]) <= QLen
  BY <1>1, <1>2, <1>3, <1>4
<1> QED
  BY <1>3, <1>5 DEF BoxType

\* The stamps that wait.
LEMMA StampedFinite == IsFiniteSet(Stamped) /\ Cardinality(Stamped) \in Nat
  BY ChatConstants, FS_Subset, FS_CardinalityType DEF Stamped

\* A message, once inserted, keeps its channel, kind and second; it is not
\* undeleted and does not start generating again.
LogMoves ==
  /\ Len(log') \in Nat /\ Len(log) <= Len(log')
  /\ \A i \in Ids :
       /\ log'[i].ch = log[i].ch /\ log'[i].kind = log[i].kind /\ log'[i].sec = log[i].sec
       /\ log[i].deleted => log'[i].deleted
       /\ log'[i].gen = "generating" => log[i].gen = "generating"

LEMMA SameLog ==
  ASSUME ChatInv, UNCHANGED log
  PROVE  LogMoves
  BY DEF LogMoves, ChatInv, ChatTypeOK

LEMMA RowOf ==
  ASSUME ChatInv
  PROVE  /\ Len(log) \in Nat /\ log \in Seq(Row)
         /\ \A i \in Ids : log[i] \in Row
  BY DEF ChatInv, ChatTypeOK, Ids

LEMMA FiniteIds ==
  ASSUME ChatInv, NEW S \in SUBSET Ids
  PROVE  /\ IsFiniteSet(S) /\ Cardinality(S) \in Nat
         /\ \A T \in SUBSET S : Cardinality(T) \in Nat /\ Cardinality(T) <= Cardinality(S)
<1>1. IsFiniteSet(Ids)
  <2>1. Len(log) \in Int /\ 1 \in Int
    BY RowOf
  <2>2. IsFiniteSet(1 .. Len(log))
    BY <2>1, FS_Interval
  <2> QED
    BY <2>2 DEF Ids
<1>2. IsFiniteSet(S)
  BY <1>1, FS_Subset
<1> QED
  BY <1>2, FS_Subset, FS_CardinalityType

\* What a writer's record holds in each of its states.
LEMMA WriterShape ==
  ASSUME NEW x \in Writer
  PROVE  /\ x.st \in {"idle", "stamped", "inserted", "generating", "flushed"}
         /\ x.st = "stamped" => x \in [st : {"stamped"}, ch : Channels, kind : Kinds, sec : Second]
         /\ x.st \in {"inserted", "generating", "flushed"} =>
              x \in [st : {"inserted", "generating", "flushed"}, id : 1 .. MaxMsgs]
<1>1. CASE x = Idle
  BY <1>1 DEF Idle
<1>2. CASE x \in [st : {"stamped"}, ch : Channels, kind : Kinds, sec : Second]
  BY <1>2
<1>3. CASE x \in [st : {"inserted", "generating", "flushed"}, id : 1 .. MaxMsgs]
  BY <1>3
<1> QED
  BY <1>1, <1>2, <1>3 DEF Writer

LEMMA InsertMoves ==
  ASSUME ChatInv, NEW w \in Writers, Insert(w)
  PROVE  ChatInv' /\ LogMoves
<1> USE ChatConstants
<1> DEFINE n == Len(log) + 1
           new == [ch |-> writer[w].ch, kind |-> writer[w].kind, sec |-> writer[w].sec,
                   gen |-> IF writer[w].kind = "bot" THEN "generating" ELSE "",
                   deleted |-> FALSE]
<1>0. /\ writer \in [Writers -> Writer] /\ log \in Seq(Row) /\ Len(log) \in Nat
      /\ MaxMsgs \in Nat /\ writer[w].st = "stamped"
      /\ log' = Append(log, new)
      /\ writer' = [writer EXCEPT ![w] = [st |-> "inserted", id |-> n]]
  BY RowOf DEF Insert, ChatInv, ChatTypeOK
<1>1. new \in Row
  <2>1. writer[w] \in [st : {"stamped"}, ch : Channels, kind : Kinds, sec : Second]
    BY <1>0, WriterShape
  <2> QED
    BY <2>1 DEF Row
<1>2. /\ log' \in Seq(Row) /\ Len(log') = n
      /\ \A i \in Ids : log'[i] = log[i]
  <2> HIDE DEF new
  <2> QED
    BY <1>0, <1>1 DEF Ids
<1>3. w \in Stamped /\ Stamped' = Stamped \ {w}
  BY DEF Insert, Stamped, ChatInv, ChatTypeOK
<1>4. Cardinality(Stamped') = Cardinality(Stamped) - 1
  BY <1>3, StampedFinite, FS_RemoveElement
<1>5. StampsFit' /\ n <= MaxMsgs /\ n \in Nat
  <2>1. Cardinality(Stamped) >= 1
    BY <1>3, StampedFinite, FS_EmptySet
  <2> QED
    BY <1>2, <1>4, <2>1, StampedFinite, RowOf DEF StampsFit, ChatInv
<1>6. /\ writer \in [Writers -> Writer] /\ n \in 1 .. MaxMsgs
      /\ writer'[w] = [st |-> "inserted", id |-> n]
      /\ \A v \in Writers : v # w => writer'[v] = writer[v]
  <2> HIDE DEF new
  <2> QED
    BY <1>0, <1>5
<1>w. writer' \in [Writers -> Writer]
  <2>1. [st |-> "inserted", id |-> n] \in Writer
    BY <1>6 DEF Writer
  <2> QED
    BY <1>6, <2>1 DEF Insert
<1>7. ASSUME NEW v \in Writers, writer'[v].st \in {"inserted", "generating", "flushed"}
      PROVE  writer'[v].id \in 1 .. Len(log')
  <2>1. CASE v = w
    BY <1>2, <1>6, <2>1, RowOf
  <2>2. CASE v # w
    <3>1. writer[v].id \in 1 .. Len(log)
      BY <1>6, <1>7, <2>2 DEF ChatInv, ChatTypeOK
    <3> QED
      BY <1>2, <1>6, <2>2, <3>1, RowOf
  <2> QED
    BY <2>1, <2>2
<1>8. LogMoves
  BY <1>2, <1>5, RowOf DEF LogMoves
<1> QED
  BY <1>2, <1>5, <1>w, <1>7, <1>8 DEF ChatInv, ChatTypeOK, Insert

\* A row changed in place, without its channel, kind and second, not undeleted
\* and not set generating.
LEMMA RowUpdate ==
  ASSUME ChatInv, NEW i \in Ids, NEW r \in Row, log' = [log EXCEPT ![i] = r],
         r.ch = log[i].ch, r.kind = log[i].kind, r.sec = log[i].sec,
         log[i].deleted => r.deleted, r.gen = "generating" => log[i].gen = "generating"
  PROVE  log' \in Seq(Row) /\ Len(log') = Len(log) /\ LogMoves
<1>1. i \in 1 .. Len(log)
  BY DEF Ids
<1>2. /\ log' \in Seq(Row) /\ Len(log') = Len(log)
      /\ \A j \in Ids : log'[j] = IF j = i THEN r ELSE log[j]
  BY <1>1, RowOf, ExceptSeq DEF Ids
<1> QED
  BY <1>2, RowOf DEF LogMoves

\* A writer moves on without touching its stamp or the rows.
LEMMA WriterMoves ==
  ASSUME ChatInv, NEW w \in Writers, writer[w].st # "stamped", NEW x \in Writer,
         x.st # "stamped", writer' = [writer EXCEPT ![w] = x],
         x.st \in {"inserted", "generating", "flushed"} => x.id \in 1 .. Len(log),
         Len(log') = Len(log)
  PROVE  /\ StampsFit' /\ writer' \in [Writers -> Writer]
         /\ \A v \in Writers : writer'[v].st \in {"inserted", "generating", "flushed"}
                                 => writer'[v].id \in 1 .. Len(log')
<1>1. writer \in [Writers -> Writer]
      /\ \A v \in Writers : writer[v].st \in {"inserted", "generating", "flushed"}
                              => writer[v].id \in 1 .. Len(log)
  BY DEF ChatInv, ChatTypeOK
<1>2. Stamped' = Stamped
  BY <1>1 DEF Stamped
<1>3. StampsFit'
  BY <1>2 DEF StampsFit, ChatInv
<1> QED
  BY <1>1, <1>3

LEMMA StampMoves ==
  ASSUME ChatInv, NEW w \in Writers, NEW c \in Channels, NEW k \in Kinds, Stamp(w, c, k)
  PROVE  ChatInv' /\ LogMoves
<1> DEFINE new == [st |-> "stamped", ch |-> c, kind |-> k, sec |-> clock]
<1>1. new \in Writer
  BY DEF Writer, ChatInv, ChatTypeOK
<1>2. /\ writer \in [Writers -> Writer] /\ writer[w] = Idle
      /\ writer' = [writer EXCEPT ![w] = new]
  BY DEF Stamp, ChatInv, ChatTypeOK
<1>3. Stamped' = Stamped \cup {w} /\ w \notin Stamped
  BY <1>2 DEF Stamped, Idle
<1>4. Cardinality(Stamped') = Cardinality(Stamped) + 1
  BY <1>3, StampedFinite, FS_AddElement
<1>5. StampsFit'
  <2>1. Len(log) + Cardinality(Stamped) < MaxMsgs /\ UNCHANGED log
    BY DEF Stamp
  <2> QED
    BY <1>4, <2>1, StampedFinite, RowOf, ChatConstants DEF StampsFit
<1>6. writer' \in [Writers -> Writer]
  BY <1>1, <1>2
<1>7. \A v \in Writers : writer'[v].st \in {"inserted", "generating", "flushed"}
                           => v # w /\ writer'[v] = writer[v]
  BY <1>2
<1>8. LogMoves
  BY SameLog DEF Stamp
<1> QED
  BY <1>5, <1>6, <1>7, <1>8 DEF ChatInv, ChatTypeOK, Stamp

LEMMA InsertFailsMoves ==
  ASSUME ChatInv, NEW w \in Writers, InsertFails(w)
  PROVE  ChatInv' /\ LogMoves
<1>1. /\ writer \in [Writers -> Writer] /\ writer' = [writer EXCEPT ![w] = Idle]
      /\ Idle \in Writer
  BY DEF InsertFails, ChatInv, ChatTypeOK, Writer
<1>2. w \in Stamped /\ Stamped' = Stamped \ {w}
  BY <1>1 DEF InsertFails, Stamped, Idle
<1>3. Cardinality(Stamped') = Cardinality(Stamped) - 1
  BY <1>2, StampedFinite, FS_RemoveElement
<1>4. StampsFit'
  BY <1>3, StampedFinite, RowOf, ChatConstants DEF StampsFit, InsertFails, ChatInv
<1>5. \A v \in Writers : writer'[v].st \in {"inserted", "generating", "flushed"}
                           => v # w /\ writer'[v] = writer[v]
  BY <1>1 DEF Idle
<1>6. writer' \in [Writers -> Writer]
  BY <1>1
<1>7. LogMoves
  BY SameLog DEF InsertFails
<1> QED
  BY <1>4, <1>5, <1>6, <1>7 DEF ChatInv, ChatTypeOK, InsertFails

LEMMA AnnounceMoves ==
  ASSUME ChatInv, NEW w \in Writers, Announce(w) \/ FlushPartial(w)
  PROVE  ChatInv' /\ LogMoves
<1> DEFINE i == writer[w].id
<1>1. i \in Ids /\ i \in 1 .. MaxMsgs /\ writer[w].st # "stamped"
  <2>1. writer[w] \in Writer /\ writer[w].st \in {"inserted", "generating", "flushed"}
    BY DEF Announce, FlushPartial, ChatInv, ChatTypeOK
  <2>2. i \in 1 .. MaxMsgs
    BY <2>1, WriterShape
  <2> QED
    BY <2>1, <2>2 DEF ChatInv, ChatTypeOK, Ids
<1>2. BoxType(box')
  <2>1. log[i].ch \in Ping
    BY <1>1, RowOf DEF Row, Ping
  <2>2. BoxType(box)
    BY DEF BoxType, ChatInv, ChatTypeOK
  <2> QED
    BY <2>1, <2>2, BroadcastType DEF Announce, FlushPartial
<1>3. UNCHANGED <<clock, log, subscribed>> /\ LogMoves
  BY SameLog DEF Announce, FlushPartial
<1>4. /\ StampsFit' /\ writer' \in [Writers -> Writer]
      /\ \A v \in Writers : writer'[v].st \in {"inserted", "generating", "flushed"}
                              => writer'[v].id \in 1 .. Len(log')
  <2>1. CASE FlushPartial(w)
    BY <2>1, <1>3 DEF FlushPartial, ChatInv, ChatTypeOK, StampsFit, Stamped
  <2>2. ASSUME writer' = [writer EXCEPT ![w] = [st |-> "generating", id |-> i]]
        PROVE  <1>4!:
    <3>1. [st |-> "generating", id |-> i] \in Writer
      BY <1>1 DEF Writer
    <3> QED
      BY <1>1, <1>3, <2>2, <3>1, WriterMoves DEF Ids
  <2>3. ASSUME writer' = [writer EXCEPT ![w] = Idle]
        PROVE  <1>4!:
    <3>1. Idle \in Writer /\ Idle.st = "idle"
      BY DEF Writer, Idle
    <3> QED
      BY <1>1, <1>3, <2>3, <3>1, WriterMoves
  <2> QED
    BY <2>1, <2>2, <2>3 DEF Announce
<1> QED
  BY <1>2, <1>3, <1>4 DEF ChatInv, ChatTypeOK, BoxType

LEMMA FlushFinalMoves ==
  ASSUME ChatInv, NEW w \in Writers, FlushFinal(w)
  PROVE  ChatInv' /\ LogMoves
<1> DEFINE i == writer[w].id
<1>1. i \in Ids /\ i \in 1 .. MaxMsgs /\ writer[w].st = "generating"
  <2>1. writer[w] \in Writer /\ writer[w].st = "generating"
    BY DEF FlushFinal, ChatInv, ChatTypeOK
  <2>2. i \in 1 .. MaxMsgs
    BY <2>1, WriterShape
  <2> QED
    BY <2>1, <2>2 DEF ChatInv, ChatTypeOK, Ids
<1>2. log' \in Seq(Row) /\ Len(log') = Len(log) /\ LogMoves
  <2>1. CASE UNCHANGED log
    BY <2>1, SameLog, RowOf
  <2>2. CASE log' = [log EXCEPT ![i].gen = "final"]
    <3> DEFINE r == [log[i] EXCEPT !.gen = "final"]
    <3>1. /\ r \in Row /\ r.ch = log[i].ch /\ r.kind = log[i].kind /\ r.sec = log[i].sec
          /\ r.deleted = log[i].deleted /\ r.gen = "final"
      BY <1>1, RowOf DEF Row
    <3>2. log' = [log EXCEPT ![i] = r]
      BY <2>2
    <3> HIDE DEF r
    <3> QED
      BY <1>1, <3>1, <3>2, RowUpdate
  <2> QED
    BY <2>1, <2>2 DEF FlushFinal
<1>3. /\ StampsFit' /\ writer' \in [Writers -> Writer]
      /\ \A v \in Writers : writer'[v].st \in {"inserted", "generating", "flushed"}
                              => writer'[v].id \in 1 .. Len(log')
  <2>1. [st |-> "flushed", id |-> i] \in Writer
    BY <1>1 DEF Writer
  <2>2. writer' = [writer EXCEPT ![w] = [st |-> "flushed", id |-> i]]
    BY DEF FlushFinal
  <2> QED
    BY <1>1, <1>2, <2>1, <2>2, WriterMoves DEF Ids
<1> QED
  BY <1>2, <1>3 DEF ChatInv, ChatTypeOK, FlushFinal

LEMMA SoftDeleteMoves ==
  ASSUME ChatInv, NEW i \in Ids, SoftDelete(i)
  PROVE  ChatInv' /\ LogMoves
<1> DEFINE r == [log[i] EXCEPT !.deleted = TRUE]
<1>1. /\ r \in Row /\ r.ch = log[i].ch /\ r.kind = log[i].kind /\ r.sec = log[i].sec
      /\ r.deleted /\ r.gen = log[i].gen
  BY RowOf DEF Row
<1>2. log' = [log EXCEPT ![i] = r]
  BY DEF SoftDelete
<1>3. log' \in Seq(Row) /\ Len(log') = Len(log) /\ LogMoves
  <2> HIDE DEF r
  <2> QED
    BY <1>1, <1>2, RowUpdate
<1>4. BoxType(box')
  <2>1. log[i].ch \in Ping
    BY RowOf DEF Row, Ping
  <2>2. BoxType(box)
    BY DEF BoxType, ChatInv, ChatTypeOK
  <2> QED
    BY <2>1, <2>2, BroadcastType DEF SoftDelete
<1> QED
  BY <1>3, <1>4 DEF SoftDelete, ChatInv, ChatTypeOK, BoxType, StampsFit, Stamped

\* Every step of the chat half.
LEMMA ChatStepMoves ==
  ASSUME ChatInv, ChatStep
  PROVE  ChatInv' /\ LogMoves
<1>1. CASE Tick
  <2>1. clock' \in Second
    BY <1>1, ChatConstants DEF Tick, Second, ChatInv, ChatTypeOK
  <2> QED
    BY <1>1, <2>1, SameLog DEF Tick, ChatInv, ChatTypeOK, StampsFit, Stamped
<1>2. CASE Structural
  <2>1. BoxType(box')
    BY <1>2, BroadcastType DEF Structural, BoxType, ChatInv, ChatTypeOK, Ping
  <2> QED
    BY <1>2, <2>1, SameLog DEF Structural, ChatInv, ChatTypeOK, BoxType, StampsFit, Stamped
<1> QED
  BY <1>1, <1>2, SoftDeleteMoves, StampMoves, InsertMoves, InsertFailsMoves, AnnounceMoves,
     FlushFinalMoves DEF ChatStep

\* A crash loses the goroutines, the subscriptions and the buffers, and keeps
\* the rows.
LEMMA RebootMoves ==
  ASSUME ChatInv, Reboot
  PROVE  ChatInv' /\ LogMoves
<1>1. /\ log' \in Seq(Row) /\ Len(log') = Len(log)
      /\ \A i \in Ids : log'[i] = [log[i] EXCEPT !.gen = IF @ = "generating" THEN "final" ELSE @]
  <2> DEFINE r(i) == [log[i] EXCEPT !.gen = IF @ = "generating" THEN "final" ELSE @]
  <2>1. \A i \in Ids : r(i) \in Row
    BY RowOf DEF Row
  <2>2. log' = [i \in 1 .. Len(log) |-> r(i)]
    BY DEF Reboot, Ids
  <2> HIDE DEF r
  <2>3. log' \in [1 .. Len(log) -> Row]
    BY <2>1, <2>2 DEF Ids
  <2>4. log' \in Seq(Row) /\ Len(log') = Len(log)
    BY <2>3, RowOf
  <2> QED
    BY <2>2, <2>4 DEF Ids, r
<1>2. LogMoves
  <2>1. ASSUME NEW i \in Ids
        PROVE  /\ log'[i].ch = log[i].ch /\ log'[i].kind = log[i].kind
               /\ log'[i].sec = log[i].sec /\ log'[i].deleted = log[i].deleted
               /\ log'[i].gen # "generating"
    <3>1. log[i] \in Row
      BY RowOf
    <3>2. log'[i] = [log[i] EXCEPT !.gen = IF log[i].gen = "generating" THEN "final" ELSE log[i].gen]
      BY <1>1
    <3> QED
      BY <3>1, <3>2 DEF Row
  <2> QED
    BY <1>1, <2>1, RowOf DEF LogMoves
<1>3. \A w \in Writers : writer'[w].st = "idle"
  BY DEF Reboot, Idle
<1>4. Stamped' = {}
  BY <1>3 DEF Stamped
<1>5. StampsFit'
  <2>1. Cardinality({}) = 0
    BY FS_EmptySet
  <2> QED
    BY <1>1, <1>4, <2>1, RowOf DEF StampsFit, ChatInv, ChatTypeOK
<1>6. BoxType(box') /\ writer' \in [Writers -> Writer]
  BY ChatConstants DEF Reboot, BoxType, Writer
<1> QED
  BY <1>1, <1>2, <1>3, <1>5, <1>6 DEF ChatInv, ChatTypeOK, BoxType, Reboot

-----------------------------------------------------------------------------
(* Seconds.                                                                *)

\* The rows of a channel and second, and the stamps that wait for their insert.
RowsOf(c, t)   == {i \in InChannel(c) : log[i].sec = t}
StampsOf(c, t) == {w \in Stamped : writer[w].ch = c /\ writer[w].sec = t}

SecondsFit ==
  \A c \in Channels, t \in Second :
    Cardinality(RowsOf(c, t)) + Cardinality(StampsOf(c, t)) <= PerSecond

\* Neither the clock nor a message's place changes, and no stamp is added.
Undated ==
  /\ clock' = clock /\ Len(log') = Len(log)
  /\ \A i \in Ids : log'[i].ch = log[i].ch /\ log'[i].sec = log[i].sec
  /\ Stamped' \subseteq Stamped /\ \A w \in Stamped' : writer'[w] = writer[w]

LEMMA SameLength ==
  ASSUME ChatInv, ChatInv', DOMAIN log' = DOMAIN log
  PROVE  Len(log') = Len(log)
<1>1. /\ Len(log) \in Nat /\ Len(log') \in Nat
      /\ DOMAIN log = 1 .. Len(log) /\ DOMAIN log' = 1 .. Len(log')
  BY DEF ChatInv, ChatTypeOK
<1> QED
  BY <1>1

LEMMA DatedSteps ==
  ASSUME ChatInv, ChatStep \/ Reboot \/ UNCHANGED <<clock, log, writer>>
  PROVE  \/ Tick \/ Undated
         \/ \E w \in Writers : Insert(w) \/ \E c \in Channels, k \in Kinds : Stamp(w, c, k)
<1>1. ASSUME Len(log') = Len(log), clock' = clock, LogMoves,
             Stamped' \subseteq Stamped, \A w \in Stamped' : writer'[w] = writer[w]
      PROVE  Undated
  BY <1>1 DEF LogMoves, Undated
<1>2. CASE UNCHANGED <<clock, log, writer>> \/ Structural
  BY <1>1, <1>2, SameLog DEF Structural, Stamped
<1>3. CASE Reboot
  <2>1. Len(log') = Len(log)
    <3>1. DOMAIN log' = Ids /\ Ids = DOMAIN log
      BY <1>3, RowOf DEF Reboot, Ids
    <3> QED
      BY <1>3, <3>1, RebootMoves, SameLength
  <2>2. Stamped' = {}
    BY <1>3 DEF Reboot, Stamped, Idle
  <2> QED
    BY <1>1, <1>3, <2>1, <2>2, RebootMoves DEF Reboot
<1>4. ASSUME NEW i \in Ids, SoftDelete(i)
      PROVE  Undated
  <2>1. LogMoves /\ Len(log') = Len(log) /\ UNCHANGED <<clock, writer>>
    <3>1. DOMAIN log' = DOMAIN log
      BY <1>4 DEF SoftDelete
    <3> QED
      BY <1>4, <3>1, SoftDeleteMoves, SameLength DEF SoftDelete
  <2> QED
    BY <1>1, <2>1 DEF Stamped
<1>5. ASSUME NEW w \in Writers, InsertFails(w) \/ Announce(w) \/ FlushPartial(w) \/ FlushFinal(w)
      PROVE  Undated
  <2>1. /\ writer \in [Writers -> Writer]
        /\ \/ writer' = writer
           \/ \E x : writer' = [writer EXCEPT ![w] = x] /\ x.st # "stamped"
    BY <1>5 DEF InsertFails, Announce, FlushPartial, FlushFinal, Idle, ChatInv, ChatTypeOK
  <2>2. Stamped' \subseteq Stamped /\ \A v \in Stamped' : writer'[v] = writer[v]
    BY <2>1 DEF Stamped
  <2>3. LogMoves /\ Len(log') = Len(log) /\ UNCHANGED clock
    <3>1. DOMAIN log' = DOMAIN log /\ UNCHANGED clock
      BY <1>5 DEF InsertFails, Announce, FlushPartial, FlushFinal
    <3> QED
      BY <1>5, <3>1, InsertFailsMoves, AnnounceMoves, FlushFinalMoves, SameLength
  <2> QED
    BY <1>1, <2>2, <2>3
<1> QED
  BY <1>2, <1>3, <1>4, <1>5 DEF ChatStep

\* An insert turns a stamp into the last row.
LEMMA InsertShape ==
  ASSUME ChatInv, NEW w \in Writers, Insert(w)
  PROVE  /\ w \in Stamped /\ Stamped' = Stamped \ {w} /\ UNCHANGED clock
         /\ writer[w].sec \in Second /\ writer[w].ch \in Channels
         /\ \A v \in Stamped' : writer'[v] = writer[v]
         /\ Len(log) + 1 \notin Ids /\ Ids' = Ids \cup {Len(log) + 1}
         /\ log'[Len(log) + 1].ch = writer[w].ch /\ log'[Len(log) + 1].sec = writer[w].sec
         /\ \A i \in Ids : log'[i] = log[i]
<1> DEFINE new == [ch |-> writer[w].ch, kind |-> writer[w].kind, sec |-> writer[w].sec,
                   gen |-> IF writer[w].kind = "bot" THEN "generating" ELSE "",
                   deleted |-> FALSE]
<1>1. /\ writer \in [Writers -> Writer] /\ log \in Seq(Row) /\ Len(log) \in Nat
      /\ w \in Stamped /\ UNCHANGED clock
      /\ log' = Append(log, new)
      /\ writer' = [writer EXCEPT ![w] = [st |-> "inserted", id |-> Len(log) + 1]]
  BY RowOf DEF Insert, Stamped, ChatInv, ChatTypeOK
<1>2. writer[w].sec \in Second /\ writer[w].ch \in Channels
  <2>1. writer[w] \in [st : {"stamped"}, ch : Channels, kind : Kinds, sec : Second]
    BY <1>1, WriterShape DEF Stamped
  <2> QED
    BY <2>1
<1>3. Stamped' = Stamped \ {w} /\ \A v \in Stamped' : writer'[v] = writer[v]
  BY <1>1 DEF Stamped
<1>4. new.ch = writer[w].ch /\ new.sec = writer[w].sec
  OBVIOUS
<1>5. Len(log') = Len(log) + 1 /\ log'[Len(log) + 1] = new /\ \A i \in Ids : log'[i] = log[i]
  <2> HIDE DEF new
  <2> QED
    BY <1>1 DEF Ids
<1>6. Len(log) + 1 \notin Ids /\ Ids' = Ids \cup {Len(log) + 1}
  <2>1. \A n \in Nat : n + 1 \notin 1 .. n /\ 1 .. n + 1 = (1 .. n) \cup {n + 1}
    OBVIOUS
  <2> QED
    BY <1>1, <1>5, <2>1 DEF Ids
<1> HIDE DEF new
<1> QED
  BY <1>1, <1>2, <1>3, <1>4, <1>5, <1>6

LEMMA StampShape ==
  ASSUME ChatInv, NEW w \in Writers, NEW c \in Channels, NEW k \in Kinds, Stamp(w, c, k)
  PROVE  /\ w \notin Stamped /\ Stamped' = Stamped \cup {w} /\ UNCHANGED <<clock, log>>
         /\ writer'[w].ch = c /\ writer'[w].sec = clock
         /\ \A v \in Stamped : writer'[v] = writer[v]
         /\ Cardinality(RowsOf(c, clock)) + Cardinality(StampsOf(c, clock)) < PerSecond
<1>1. /\ writer \in [Writers -> Writer] /\ writer[w] = Idle /\ UNCHANGED <<clock, log>>
      /\ writer' = [writer EXCEPT ![w] = [st |-> "stamped", ch |-> c, kind |-> k, sec |-> clock]]
  BY DEF Stamp, ChatInv, ChatTypeOK
<1>2. Cardinality(RowsOf(c, clock)) + Cardinality(StampsOf(c, clock)) < PerSecond
  BY DEF Stamp, RowsOf, StampsOf
<1> QED
  BY <1>1, <1>2 DEF Stamped, Idle

LEMMA SecondsFinite ==
  ASSUME ChatInv, NEW c, NEW t
  PROVE  /\ IsFiniteSet(RowsOf(c, t)) /\ Cardinality(RowsOf(c, t)) \in Nat
         /\ IsFiniteSet(StampsOf(c, t)) /\ Cardinality(StampsOf(c, t)) \in Nat
<1>1. RowsOf(c, t) \in SUBSET Ids /\ StampsOf(c, t) \subseteq Stamped
  BY DEF RowsOf, InChannel, StampsOf
<1> QED
  BY <1>1, FiniteIds, StampedFinite, FS_Subset, FS_CardinalityType

\* A stamp reserves a place in its second, which the insert takes.
LEMMA SecondsStep ==
  ASSUME ChatInv, SecondsFit, ChatStep \/ Reboot \/ UNCHANGED <<clock, log, writer>>
  PROVE  SecondsFit'
<1> SUFFICES ASSUME NEW c \in Channels, NEW t \in Second
             PROVE  Cardinality(RowsOf(c, t)') + Cardinality(StampsOf(c, t)') <= PerSecond
  BY DEF SecondsFit
<1>0. /\ IsFiniteSet(RowsOf(c, t)) /\ Cardinality(RowsOf(c, t)) \in Nat
      /\ IsFiniteSet(StampsOf(c, t)) /\ Cardinality(StampsOf(c, t)) \in Nat
      /\ Cardinality(RowsOf(c, t)) + Cardinality(StampsOf(c, t)) <= PerSecond
      /\ PerSecond \in Nat
  BY SecondsFinite, ChatConstants DEF SecondsFit
<1>1. CASE Tick
  <2>1. RowsOf(c, t)' = RowsOf(c, t) /\ StampsOf(c, t)' = StampsOf(c, t)
    BY <1>1 DEF Tick, RowsOf, InChannel, Ids, StampsOf, Stamped
  <2> QED
    BY <1>0, <2>1
<1>2. CASE Undated
  <2>1. RowsOf(c, t)' = RowsOf(c, t) /\ StampsOf(c, t)' \subseteq StampsOf(c, t)
    <3>1. Ids' = Ids
      BY <1>2 DEF Undated, Ids
    <3>2. RowsOf(c, t)' = RowsOf(c, t)
      BY <1>2, <3>1 DEF Undated, RowsOf, InChannel
    <3>3. StampsOf(c, t)' \subseteq StampsOf(c, t)
      BY <1>2 DEF Undated, StampsOf
    <3> QED
      BY <3>2, <3>3
  <2>2. Cardinality(StampsOf(c, t)') \in Nat
        /\ Cardinality(StampsOf(c, t)') <= Cardinality(StampsOf(c, t))
    BY <1>0, <2>1, FS_Subset, FS_CardinalityType
  <2> QED
    BY <1>0, <2>1, <2>2
<1>3. ASSUME NEW w \in Writers, NEW d \in Channels, NEW k \in Kinds, Stamp(w, d, k)
      PROVE  Cardinality(RowsOf(c, t)') + Cardinality(StampsOf(c, t)') <= PerSecond
  <2>1. RowsOf(c, t)' = RowsOf(c, t)
    BY <1>3 DEF Stamp, RowsOf, InChannel, Ids
  <2>2. StampsOf(c, t)' = IF c = d /\ t = clock THEN StampsOf(c, t) \cup {w} ELSE StampsOf(c, t)
    BY <1>3, StampShape DEF StampsOf
  <2>3. w \notin StampsOf(c, t)
    BY <1>3, StampShape DEF StampsOf
  <2>4. CASE c = d /\ t = clock
    <3>1. Cardinality(StampsOf(c, t)') = Cardinality(StampsOf(c, t)) + 1
      BY <1>0, <2>2, <2>3, <2>4, FS_AddElement
    <3>2. Cardinality(RowsOf(c, t)) + Cardinality(StampsOf(c, t)) < PerSecond
      BY <1>3, <2>4, StampShape
    <3> QED
      BY <1>0, <2>1, <3>1, <3>2
  <2> QED
    BY <1>0, <2>1, <2>2, <2>4
<1>4. ASSUME NEW w \in Writers, Insert(w)
      PROVE  Cardinality(RowsOf(c, t)') + Cardinality(StampsOf(c, t)') <= PerSecond
  <2>1. CASE writer[w].ch = c /\ writer[w].sec = t
    <3>1. RowsOf(c, t)' = RowsOf(c, t) \cup {Len(log) + 1} /\ Len(log) + 1 \notin RowsOf(c, t)
      BY <1>4, <2>1, InsertShape DEF RowsOf, InChannel
    <3>2. StampsOf(c, t)' = StampsOf(c, t) \ {w} /\ w \in StampsOf(c, t)
      BY <1>4, <2>1, InsertShape DEF StampsOf
    <3>3. Cardinality(RowsOf(c, t)') = Cardinality(RowsOf(c, t)) + 1
      BY <1>0, <3>1, FS_AddElement
    <3>4. Cardinality(StampsOf(c, t)') = Cardinality(StampsOf(c, t)) - 1
      BY <1>0, <3>2, FS_RemoveElement
    <3> QED
      BY <1>0, <3>3, <3>4
  <2>2. CASE ~(writer[w].ch = c /\ writer[w].sec = t)
    <3>1. RowsOf(c, t)' = RowsOf(c, t)
      BY <1>4, <2>2, InsertShape DEF RowsOf, InChannel
    <3>2. StampsOf(c, t)' = StampsOf(c, t)
      BY <1>4, <2>2, InsertShape DEF StampsOf
    <3> QED
      BY <1>0, <3>1, <3>2
  <2> QED
    BY <2>1, <2>2
<1> QED
  BY <1>1, <1>2, <1>3, <1>4, DatedSteps
=============================================================================
