------------------------- MODULE ConnectorStreamProofs -------------------------
(***************************************************************************)
(* Theorems about ConnectorStream, for any number of channels, writers and *)
(* streams and any values of the bounds.                                   *)
(***************************************************************************)
EXTENDS ConnectorStream, ChatLogProofs, WellFoundedInduction

-----------------------------------------------------------------------------
(* The operators.                                                          *)

\* A bounded, non-empty set of naturals has a maximum.
LEMMA MaxOfBounded ==
  ASSUME NEW S \in SUBSET Nat, NEW n \in Nat, S # {}, \A s \in S : s <= n
  PROVE  Max(S) \in S /\ \A y \in S : Max(S) >= y
<1> DEFINE T == {n - s : s \in S}
           R == OpToRel(<, Nat)
<1>1. IsWellFoundedOn(R, Nat)
  BY NatLessThanWellFounded
<1>2. T \subseteq Nat /\ T # {}
  <2>1. \A s \in S : n - s \in Nat
    OBVIOUS
  <2> QED
    BY <2>1
<1>3. PICK x \in T : \A y \in T : ~(<<y, x>> \in R)
  <2> HIDE DEF R, T
  <2> QED BY <1>1, <1>2, WFMin
<1>4. \A y \in T : ~(y < x)
  BY <1>2, <1>3 DEF OpToRel
<1>5. PICK m \in S : x = n - m
  OBVIOUS
<1>6. ASSUME NEW y \in S PROVE m >= y
  <2>1. n - y \in T
    OBVIOUS
  <2>2. ~(n - y < n - m)
    BY <1>4, <1>5, <2>1
  <2>3. m \in Nat /\ y \in Nat
    OBVIOUS
  <2> HIDE DEF T
  <2> QED
    BY <2>2, <2>3
<1>7. \E z \in S : \A y \in S : z >= y
  BY <1>6
<1> QED
  BY <1>7 DEF Max

-----------------------------------------------------------------------------
(* The inductive invariant.                                                *)

WmBounded == \A s \in Streams, c \in Channels : wm[s][c] <= Horizon

ClosedIsReset ==
  \A s \in Streams : phase[s] = "closed" => times[s] = Never /\ todo[s] = {}

\* The rows a drain reads before row i when the watermark is i's second.
Ahead(i) ==
  {j \in Ids : /\ log[j].ch = log[i].ch /\ log[j].sec = log[i].sec
               /\ ~log[j].deleted /\ j < i}

\* Row i is on the first page of its second, and no bubble holds it back. Later
\* inserts come behind it, so this is stable.
InReach(i) ==
  /\ Cardinality(Ahead(i)) < Limit
  /\ \A j \in Ahead(i) \cup {i} : ~Generating(j)

\* What a session sent lies behind its watermark, or in the watermark's second
\* and then in the seen set, where every later page of that second shows it.
SentIsSeen ==
  \A s \in Streams, i \in MsgId : times[s][i] > 0 =>
    /\ i \in Ids
    /\ times[s][i] = 1
    /\ log[i].sec <= wm[s][log[i].ch]
    /\ (log[i].sec = wm[s][log[i].ch] /\ ~log[i].deleted) =>
          i \in seen[s][log[i].ch] /\ InReach(i)

IInv == TypeOK /\ StampsFit /\ WmBounded /\ ClosedIsReset /\ SentIsSeen

-----------------------------------------------------------------------------
(* Pages and settled prefixes.                                             *)

LEMMA ChatPart ==
  ASSUME TypeOK, StampsFit
  PROVE  ChatInv
  BY DEF TypeOK, ChatInv

LEMMA RowFields ==
  ASSUME ChatInv, NEW i \in Ids
  PROVE  /\ i \in Nat /\ log[i].ch \in Channels
         /\ log[i].sec \in 0 .. Horizon /\ log[i].sec \in Nat
<1>1. log[i] \in Row /\ Len(log) \in Nat
  BY RowOf
<1>2. Start \in Nat /\ Horizon \in Nat
  BY ChatConstants
<1>3. log[i].ch \in Channels /\ log[i].sec \in Second
  BY <1>1 DEF Row
<1>4. log[i].sec \in 0 .. Horizon /\ log[i].sec \in Nat
  BY <1>2, <1>3 DEF Second
<1>5. i \in Nat
  BY <1>1 DEF Ids
<1> QED
  BY <1>3, <1>4, <1>5

\* Before is a strict order on rows.
LEMMA BeforeOrder ==
  ASSUME ChatInv, NEW i \in Ids, NEW j \in Ids, NEW k \in Ids
  PROVE  /\ ~Before(i, i)
         /\ Before(i, j) => ~Before(j, i)
         /\ Before(i, j) /\ Before(j, k) => Before(i, k)
         /\ i # j => Before(i, j) \/ Before(j, i)
<1>1. \A x \in Ids : log[x].sec \in Nat /\ x \in Nat
  BY RowFields
<1> QED
  BY <1>1 DEF Before

LEMMA SettledIsInReach ==
  ASSUME ChatInv, NEW c \in Channels, NEW t \in Nat, NEW i \in Settled(Page(c, t))
  PROVE  i \in Visible(c, t) /\ InReach(i)
<1> DEFINE Front(x) == {j \in Visible(c, t) : Before(j, x)}
<1>1. i \in Visible(c, t) /\ Cardinality(Front(i)) < Limit
  BY DEF Settled, Page
<1>2. i \in Ids /\ log[i].ch = c /\ log[i].sec >= t
  BY <1>1 DEF Visible, InChannel
<1>3. Ahead(i) \subseteq Front(i)
  BY <1>2 DEF Ahead, Visible, InChannel, Before
<1>4. \A x \in Ids : Front(x) \in SUBSET Ids
  BY DEF Visible, InChannel
<1>5. Cardinality(Ahead(i)) < Limit
  BY <1>1, <1>2, <1>3, <1>4, FiniteIds, StreamConstants
<1>6. ASSUME NEW j \in Ahead(i)
      PROVE  ~Generating(j)
  <2>1. j \in Front(i) /\ j \in Ids
    BY <1>3, <1>6 DEF Ahead
  <2>2. Front(j) \subseteq Front(i)
    BY <1>2, <2>1, BeforeOrder DEF Visible, InChannel
  <2>3. Cardinality(Front(j)) < Limit
    BY <1>1, <1>2, <1>4, <2>1, <2>2, FiniteIds, StreamConstants
  <2>4. j \in Page(c, t)
    BY <2>1, <2>3 DEF Page
  <2>5. ~Before(i, j)
    BY <1>2, <2>1, BeforeOrder
  <2> QED
    BY <2>4, <2>5 DEF Settled
<1>7. ~Generating(i)
  <2>1. ~Before(i, i)
    BY <1>2, BeforeOrder
  <2> QED
    BY <2>1 DEF Settled
<1> QED
  BY <1>1, <1>5, <1>6, <1>7 DEF InReach

LEMMA InReachIsSettled ==
  ASSUME ChatInv, NEW i \in Ids, ~log[i].deleted, InReach(i)
  PROVE  i \in Settled(Page(log[i].ch, log[i].sec))
<1> DEFINE c == log[i].ch
           t == log[i].sec
<1>1. \A x \in Ids : log[x].sec \in Nat /\ x \in Nat
  BY RowFields
<1>2. i \in Visible(c, t)
  BY <1>1 DEF Visible, InChannel
<1>3. {j \in Visible(c, t) : Before(j, i)} = Ahead(i)
  BY <1>1 DEF Visible, InChannel, Before, Ahead
<1>4. i \in Page(c, t)
  BY <1>2, <1>3 DEF Page, InReach
<1>5. ASSUME NEW j \in Page(c, t), Generating(j)
      PROVE  Before(i, j)
  <2>1. j \in Visible(c, t) /\ j \in Ids
    BY DEF Page, Visible, InChannel
  <2>2. j \notin Ahead(i) /\ j # i
    BY <1>5 DEF InReach
  <2>3. ~Before(j, i)
    BY <1>3, <2>1, <2>2
  <2> QED
    BY <2>1, <2>2, <2>3, BeforeOrder
<1> QED
  BY <1>4, <1>5 DEF Settled

\* The chat half cannot push a row out of reach.
LEMMA InReachIsStable ==
  ASSUME ChatInv, LogMoves, NEW i \in Ids, InReach(i)
  PROVE  InReach(i)'
<1>1. i \in Int /\ Len(log) \in Nat /\ Len(log') \in Nat
  BY RowOf DEF Ids, LogMoves
<1>2. Ahead(i)' \subseteq Ahead(i)
  <2>1. ASSUME NEW j \in Ids', j < i PROVE j \in Ids
    BY <1>1, <2>1 DEF Ids
  <2> QED
    BY <2>1 DEF Ahead, LogMoves
<1>3. Cardinality(Ahead(i)') < Limit
  <2>1. Ahead(i) \in SUBSET Ids
    BY DEF Ahead
  <2> QED
    BY <1>2, <2>1, FiniteIds, StreamConstants DEF InReach
<1>4. \A j \in Ids : Generating(j)' => Generating(j)
  BY DEF Generating, LogMoves
<1>5. \A j \in Ahead(i)' \cup {i} : ~Generating(j)'
  BY <1>2, <1>4 DEF InReach, Ahead
<1> QED
  BY <1>3, <1>5 DEF InReach

-----------------------------------------------------------------------------
(* Positions stay within the clock's range.                                *)

LEMMA ResumeType ==
  ASSUME IInv, NEW q \in Query
  PROVE  ResumeFrom(q) \in 0 .. Horizon /\ ResumeFrom(q) \in Nat
<1> USE ChatConstants, StreamConstants
<1>1. clock \in Int /\ clock >= Start /\ clock <= Horizon
  BY DEF IInv, TypeOK, ChatTypeOK, Second
<1>2. WindowStart \in Int /\ WindowStart >= 0 /\ WindowStart <= clock
  BY <1>1 DEF WindowStart
<1>3. ASSUME NEW t \in Int
      PROVE  Clamp(t) \in 0 .. Horizon /\ Clamp(t) \in Nat
  BY <1>1, <1>2 DEF Clamp
<1>4. cursor \in Int /\ q.at \in Int
  BY DEF IInv, TypeOK, NoCursor, Query, Second
<1>5. clock \in 0 .. Horizon /\ clock \in Nat
  BY <1>1
<1>6. CASE q.mode = "since"
  BY <1>3, <1>4, <1>6 DEF ResumeFrom
<1>7. CASE q.mode # "since" /\ UsesCursor(q)
  BY <1>3, <1>4, <1>7 DEF ResumeFrom
<1>8. CASE q.mode # "since" /\ ~UsesCursor(q)
  BY <1>5, <1>8 DEF ResumeFrom
<1> QED
  BY <1>6, <1>7, <1>8

LEMMA LatestProps ==
  ASSUME ChatInv, NEW t \in Nat, t <= Horizon, NEW S \in SUBSET Ids
  PROVE  /\ Latest(t, S) \in Nat /\ t <= Latest(t, S) /\ Latest(t, S) <= Horizon
         /\ \A i \in S : log[i].sec <= Latest(t, S)
<1> DEFINE M == {t} \cup {log[i].sec : i \in S}
<1>1. Horizon \in Nat
  BY ChatConstants
<1>2. \A i \in S : log[i].sec \in Nat /\ log[i].sec <= Horizon
  BY <1>1, RowFields
<1>3. M \in SUBSET Nat /\ M # {} /\ \A x \in M : x <= Horizon
  BY <1>2
<1>4. Max(M) \in M /\ \A y \in M : Max(M) >= y
  <2> HIDE DEF M
  <2> QED
    BY <1>1, <1>3, MaxOfBounded
<1>5. t \in M /\ \A i \in S : log[i].sec \in M
  OBVIOUS
<1>6. Latest(t, S) = Max(M)
  BY DEF Latest
<1> HIDE DEF M
<1> QED
  BY <1>1, <1>2, <1>3, <1>4, <1>5, <1>6

LEMMA FurthestType ==
  ASSUME IInv, NEW s \in Streams
  PROVE  Furthest(s) \in Nat
<1> DEFINE M == {wm[s][c] : c \in Subscribed}
<1>1. Subscribed # {} /\ Subscribed \subseteq Channels /\ Horizon \in Nat
  BY ChatConstants, StreamConstants DEF Subscribed
<1>2. M \in SUBSET Nat /\ M # {} /\ \A x \in M : x <= Horizon
  BY <1>1 DEF IInv, TypeOK, WmBounded
<1>3. Max(M) \in M
  <2> HIDE DEF M
  <2> QED
    BY <1>1, <1>2, MaxOfBounded
<1> QED
  BY <1>2, <1>3 DEF Furthest

LEMMA InitInv == Init => IInv
<1> SUFFICES ASSUME Init PROVE IInv
  OBVIOUS
<1> USE ChatConstants, StreamConstants DEF Init
<1>1. ChatTypeOK /\ StampsFit
  BY ChatInitInv DEF ChatInv
<1>2. /\ wm \in [Streams -> [Channels -> Nat]]
      /\ seen \in [Streams -> [Channels -> SUBSET Ids]]
      /\ times \in [Streams -> [MsgId -> Nat]]
      /\ cursor \in Nat \cup {NoCursor}
  BY DEF NoSecond, NoIds, Never
<1>3. TypeOK
  BY <1>1, <1>2 DEF TypeOK
<1>4. WmBounded
  BY DEF WmBounded, NoSecond
<1>5. ClosedIsReset
  BY DEF ClosedIsReset
<1>6. SentIsSeen
  BY DEF SentIsSeen, Never
<1> QED
  BY <1>1, <1>3, <1>4, <1>5, <1>6 DEF IInv

-----------------------------------------------------------------------------
(* The steps.                                                              *)

LEMMA IdsGrow ==
  ASSUME ChatInv, LogMoves
  PROVE  Ids \subseteq Ids'
  BY RowOf DEF Ids, LogMoves

\* A step that neither drains nor moves a watermark.
LEMMA SentStays ==
  ASSUME IInv, LogMoves, UNCHANGED <<wm, seen, times>>
  PROVE  SentIsSeen'
<1> SUFFICES ASSUME NEW s \in Streams, NEW i \in MsgId, times[s][i] > 0
             PROVE  /\ i \in Ids'
                    /\ times[s][i] = 1
                    /\ log'[i].sec <= wm[s][log'[i].ch]
                    /\ (log'[i].sec = wm[s][log'[i].ch] /\ ~log'[i].deleted) =>
                          i \in seen[s][log'[i].ch] /\ InReach(i)'
  BY DEF SentIsSeen
<1>1. ChatInv
  BY ChatPart DEF IInv
<1>2. /\ i \in Ids /\ times[s][i] = 1 /\ log[i].sec <= wm[s][log[i].ch]
      /\ (log[i].sec = wm[s][log[i].ch] /\ ~log[i].deleted) =>
            i \in seen[s][log[i].ch] /\ InReach(i)
  BY DEF IInv, SentIsSeen
<1>3. /\ log'[i].ch = log[i].ch /\ log'[i].sec = log[i].sec
      /\ log[i].deleted => log'[i].deleted
  BY <1>2 DEF LogMoves
<1>4. i \in Ids'
  BY <1>1, <1>2, IdsGrow
<1> QED
  BY <1>1, <1>2, <1>3, <1>4, InReachIsStable

LEMMA ChatPreserves ==
  ASSUME IInv, Chat
  PROVE  IInv'
<1>1. ChatInv /\ ChatStep
  BY ChatPart DEF IInv, Chat
<1>2. ChatTypeOK' /\ StampsFit' /\ LogMoves
  BY <1>1, ChatStepMoves DEF ChatInv
<1>3. Ids \subseteq Ids'
  BY <1>1, <1>2, IdsGrow
<1>4. UNCHANGED <<phase, wm, seen, todo, from, times, prior, missed, connects, cursor, got>>
  BY DEF Chat, sessionVars
<1>5. TypeOK'
  BY <1>2, <1>3, <1>4 DEF IInv, TypeOK
<1>6. SentIsSeen'
  BY <1>2, <1>4, SentStays
<1> QED
  BY <1>2, <1>4, <1>5, <1>6 DEF IInv, WmBounded, ClosedIsReset

LEMMA ResetPreserves ==
  ASSUME IInv, PostResetCursor
  PROVE  IInv'
<1>1. /\ UNCHANGED <<clock, log, writer, subscribed, box>>
      /\ UNCHANGED <<phase, wm, seen, todo, from, times, prior, missed, connects, got>>
      /\ cursor' = 0
  BY DEF PostResetCursor, chatVars, sessionVars
<1>2. TypeOK'
  BY <1>1 DEF IInv, TypeOK, ChatTypeOK, Ids
<1>3. SentIsSeen'
  BY <1>1, SentStays, SameLog, ChatPart DEF IInv
<1> QED
  BY <1>1, <1>2, <1>3 DEF IInv, WmBounded, ClosedIsReset, StampsFit, Stamped

\* The session leaves no trace in the invariant.
LEMMA EndPreserves ==
  ASSUME IInv, LogMoves, NEW S \in SUBSET Streams, EndSessions(S),
         ChatTypeOK', StampsFit', connects' = connects,
         cursor' \in Nat \cup {NoCursor}, got' \subseteq Ids'
  PROVE  IInv'
<1>1. ChatInv /\ Ids \subseteq Ids'
  BY ChatPart, IdsGrow DEF IInv
<1>2. /\ phase' = [s \in Streams |-> IF s \in S THEN "closed" ELSE phase[s]]
      /\ wm' = [s \in Streams |-> IF s \in S THEN NoSecond ELSE wm[s]]
      /\ seen' = [s \in Streams |-> IF s \in S THEN NoIds ELSE seen[s]]
      /\ todo' = [s \in Streams |-> IF s \in S THEN {} ELSE todo[s]]
      /\ from' = [s \in Streams |-> IF s \in S THEN 0 ELSE from[s]]
      /\ times' = [s \in Streams |-> IF s \in S THEN Never ELSE times[s]]
      /\ prior' = [s \in Streams |-> IF s \in S THEN {} ELSE prior[s]]
      /\ missed' = [s \in Streams |-> IF s \in S THEN {} ELSE missed[s]]
  BY DEF EndSessions
<1>3. /\ NoSecond \in [Channels -> Nat] /\ NoIds \in [Channels -> SUBSET Ids']
      /\ Never \in [MsgId -> Nat]
  BY DEF NoSecond, NoIds, Never
<1>4. seen' \in [Streams -> [Channels -> SUBSET Ids']] /\ prior' \in [Streams -> SUBSET Ids']
  <2>1. seen \in [Streams -> [Channels -> SUBSET Ids']] /\ prior \in [Streams -> SUBSET Ids']
    BY <1>1 DEF IInv, TypeOK
  <2> QED
    BY <1>2, <1>3, <2>1
<1>5. /\ phase' \in [Streams -> {"closed", "catchup", "live"}]
      /\ wm' \in [Streams -> [Channels -> Nat]]
      /\ todo' \in [Streams -> SUBSET Subscribed]
      /\ from' \in [Streams -> Nat] /\ times' \in [Streams -> [MsgId -> Nat]]
      /\ missed' \in [Streams -> SUBSET Channels]
  BY <1>2, <1>3 DEF IInv, TypeOK
<1>6. TypeOK'
  BY <1>4, <1>5 DEF IInv, TypeOK
<1>7. WmBounded'
  BY <1>2, ChatConstants DEF IInv, WmBounded, NoSecond
<1>8. ClosedIsReset'
  BY <1>2 DEF IInv, ClosedIsReset
<1>9. SentIsSeen'
  <2> SUFFICES ASSUME NEW s \in Streams, NEW i \in MsgId, times'[s][i] > 0
               PROVE  /\ i \in Ids'
                      /\ times'[s][i] = 1
                      /\ log'[i].sec <= wm'[s][log'[i].ch]
                      /\ (log'[i].sec = wm'[s][log'[i].ch] /\ ~log'[i].deleted) =>
                            i \in seen'[s][log'[i].ch] /\ InReach(i)'
    BY DEF SentIsSeen
  <2>1. s \notin S
    BY <1>2 DEF Never
  <2>2. times'[s] = times[s] /\ wm'[s] = wm[s] /\ seen'[s] = seen[s]
    BY <1>2, <2>1
  <2>3. /\ i \in Ids /\ times[s][i] = 1 /\ log[i].sec <= wm[s][log[i].ch]
        /\ (log[i].sec = wm[s][log[i].ch] /\ ~log[i].deleted) =>
              i \in seen[s][log[i].ch] /\ InReach(i)
    BY <2>2 DEF IInv, SentIsSeen
  <2>4. /\ log'[i].ch = log[i].ch /\ log'[i].sec = log[i].sec
        /\ log[i].deleted => log'[i].deleted
    BY <2>3 DEF LogMoves
  <2> QED
    BY <1>1, <2>2, <2>3, <2>4, InReachIsStable
<1> QED
  BY <1>6, <1>7, <1>8, <1>9 DEF IInv

LEMMA ClosePreserves ==
  ASSUME IInv, NEW s \in Streams, CloseStream(s), got' \subseteq Ids
  PROVE  IInv'
<1>1. UNCHANGED <<clock, log, writer, connects>> /\ EndSessions({s})
  BY DEF CloseStream
<1>2. cursor' \in Nat \cup {NoCursor}
  BY FurthestType DEF CloseStream, IInv, TypeOK
<1>3. ChatTypeOK'
  <2>1. box' = [box EXCEPT ![s] = <<>>] /\ subscribed' = subscribed \ {s}
    BY DEF CloseStream, Unsubscribe
  <2>2. BoxType(box')
    BY <2>1, BoxReset DEF IInv, TypeOK, ChatTypeOK, BoxType, Streams
  <2> QED
    BY <1>1, <2>1, <2>2 DEF IInv, TypeOK, ChatTypeOK, BoxType
<1>4. StampsFit' /\ LogMoves
  BY <1>1, SameLog, ChatPart DEF IInv, StampsFit, Stamped
<1>5. got' \subseteq Ids'
  BY <1>1 DEF IInv, TypeOK, Ids
<1> QED
  BY <1>1, <1>2, <1>3, <1>4, <1>5, EndPreserves

LEMMA CrashPreserves ==
  ASSUME IInv, Crash
  PROVE  IInv'
<1>1. ChatInv /\ Reboot /\ EndSessions(Streams) /\ UNCHANGED <<connects, cursor, got>>
  BY ChatPart DEF IInv, Crash
<1>2. ChatTypeOK' /\ StampsFit' /\ LogMoves
  BY <1>1, RebootMoves DEF ChatInv
<1>3. Ids \subseteq Ids'
  BY <1>1, <1>2, IdsGrow
<1> QED
  BY <1>1, <1>2, <1>3, EndPreserves DEF IInv, TypeOK

LEMMA ConnectPreserves ==
  ASSUME IInv, NEW s \in Streams, NEW q \in Query, Connect(s, q)
  PROVE  IInv'
<1> DEFINE t == ResumeFrom(q)
<1>0. t \in 0 .. Horizon /\ t \in Nat
  BY ResumeType
<1>1. /\ UNCHANGED <<clock, log, writer, subscribed, box>>
      /\ UNCHANGED <<cursor, times, got, missed>>
      /\ phase[s] = "closed" /\ times[s] = Never
      /\ phase' = [phase EXCEPT ![s] = "catchup"]
      /\ connects < MaxConnects /\ connects' = connects + 1
  BY DEF Connect, chatVars, IInv, ClosedIsReset
<1>2. PICK unread \in SUBSET Subscribed :
        LET seeded == IF SeedBoundary(q) THEN Subscribed \ unread ELSE {}
        IN /\ wm' = [wm EXCEPT ![s] = [c \in Channels |-> t]]
           /\ seen' = [seen EXCEPT ![s] =
                         [c \in Channels |-> IF c \in seeded THEN Seed(c, t) ELSE {}]]
           /\ from' = [from EXCEPT ![s] = t]
           /\ prior' = [prior EXCEPT ![s] =
                        IF q.mode = "bare" /\ cursor > 0 /\ unread = {} THEN got ELSE {}]
  BY DEF Connect
<1>3. todo' \in [Streams -> SUBSET Subscribed]
  BY DEF Connect, IInv, TypeOK
<1>4. Ids' = Ids /\ LogMoves
  BY <1>1, SameLog, ChatPart DEF IInv, Ids
<1>5. wm' \in [Streams -> [Channels -> Nat]] /\ from' \in [Streams -> Nat]
  BY <1>0, <1>2 DEF IInv, TypeOK
<1>p. prior' \in [Streams -> SUBSET Ids]
  BY <1>2 DEF IInv, TypeOK
<1>6. seen' \in [Streams -> [Channels -> SUBSET Ids]]
  <2>1. \A c \in Channels : Seed(c, t) \in SUBSET Ids
    BY DEF Seed, Page, Visible, InChannel
  <2> HIDE DEF t
  <2> DEFINE seeds == [c \in Channels |->
                         IF c \in (IF SeedBoundary(q) THEN Subscribed \ unread ELSE {})
                         THEN Seed(c, t) ELSE {}]
  <2>2. seeds \in [Channels -> SUBSET Ids]
    BY <2>1
  <2>3. seen' = [seen EXCEPT ![s] = seeds]
    BY <1>2
  <2> HIDE DEF seeds
  <2> QED
    BY <2>2, <2>3 DEF IInv, TypeOK
<1>7. connects' \in 0 .. MaxConnects
  BY <1>1, StreamConstants DEF IInv, TypeOK
<1>9. TypeOK'
  <2>1. phase' \in [Streams -> {"closed", "catchup", "live"}]
    BY <1>1 DEF IInv, TypeOK
  <2> QED
    BY <1>1, <1>3, <1>4, <1>5, <1>p, <1>6, <1>7, <2>1 DEF IInv, TypeOK, ChatTypeOK
<1>10. \A x \in Streams : x # s => wm'[x] = wm[x] /\ seen'[x] = seen[x]
  BY <1>2 DEF IInv, TypeOK
<1>11. WmBounded'
  <2>1. \A c \in Channels : wm'[s][c] = t
    BY <1>2 DEF IInv, TypeOK
  <2>2. t <= Horizon
    BY <1>0, ChatConstants
  <2> QED
    BY <1>10, <2>1, <2>2 DEF IInv, WmBounded
<1>12. ClosedIsReset'
  <2>1. phase'[s] # "closed" /\ \A x \in Streams : x # s => phase'[x] = phase[x]
    BY <1>1 DEF IInv, TypeOK
  <2>2. \A x \in Streams : x # s => todo'[x] = todo[x]
    BY DEF Connect, IInv, TypeOK
  <2> QED
    BY <1>1, <2>1, <2>2 DEF IInv, ClosedIsReset
<1>13. SentIsSeen'
  <2>1. \A i \in MsgId : ~(times[s][i] > 0)
    BY <1>1 DEF Never
  <2>2. \A i \in Ids : InReach(i)' <=> InReach(i)
    BY <1>1 DEF InReach, Ahead, Ids, Generating
  <2> QED
    BY <1>1, <1>4, <1>10, <2>1, <2>2 DEF IInv, SentIsSeen
<1> QED
  BY <1>1, <1>9, <1>11, <1>12, <1>13 DEF IInv, StampsFit, Stamped

\* Steps of the select loop that send nothing.
LEMMA QuietPreserves ==
  ASSUME IInv, NEW s \in Streams,
         GoLive(s) \/ Receive(s) \/ \E c \in Channels : DrainFails(s, c)
  PROVE  IInv'
<1>1. UNCHANGED <<clock, log, writer, wm, seen, connects, cursor, from, times, prior, got>>
  BY DEF GoLive, Receive, DrainFails, chatVars
<1>2. /\ phase' \in [Streams -> {"closed", "catchup", "live"}]
      /\ \A x \in Streams : phase'[x] = "closed" => phase[x] = "closed"
  BY DEF GoLive, Receive, DrainFails, chatVars, IInv, TypeOK
<1>3. todo' \in [Streams -> SUBSET Subscribed] /\ missed' \in [Streams -> SUBSET Channels]
  <2>1. CASE GoLive(s)
    BY <2>1 DEF GoLive, IInv, TypeOK
  <2>2. CASE Receive(s)
    <3>1. \A p : Targets(p) \in SUBSET Subscribed
      BY DEF Targets
    <3> QED
      BY <2>2, <3>1 DEF Receive, IInv, TypeOK
  <2>3. ASSUME NEW c \in Channels, DrainFails(s, c)
        PROVE  <1>3!:
    BY <2>3 DEF DrainFails, IInv, TypeOK
  <2> QED
    BY <2>1, <2>2, <2>3
<1>4. subscribed' \subseteq Subscribers /\ BoxType(box')
  <2>1. BoxType(box) /\ subscribed \subseteq Subscribers
    BY DEF IInv, TypeOK, ChatTypeOK, BoxType
  <2>2. CASE GoLive(s)
    BY <2>1, <2>2, BoxReset DEF GoLive, Subscribe, Streams
  <2>3. CASE Receive(s)
    BY <2>1, <2>3, BoxTail DEF Receive, Streams
  <2>4. ASSUME NEW c \in Channels, DrainFails(s, c)
        PROVE  <1>4!:
    BY <2>1, <2>4 DEF DrainFails, chatVars
  <2> QED
    BY <2>2, <2>3, <2>4
<1>5. TypeOK'
  BY <1>1, <1>2, <1>3, <1>4 DEF IInv, TypeOK, ChatTypeOK, BoxType, Ids
<1>6. ClosedIsReset'
  <2>1. ASSUME NEW x \in Streams, phase'[x] = "closed"
        PROVE  times'[x] = Never /\ todo'[x] = {}
    <3>1. phase[x] = "closed" /\ times[x] = Never /\ todo[x] = {}
      BY <1>2, <2>1 DEF IInv, ClosedIsReset
    <3>2. CASE x # s
      BY <1>1, <3>1, <3>2 DEF GoLive, Receive, DrainFails, IInv, TypeOK
    <3>3. CASE x = s
      BY <1>1, <3>1, <3>3 DEF GoLive, Receive, DrainFails, IInv, TypeOK
    <3> QED
      BY <3>2, <3>3
  <2> QED
    BY <2>1 DEF ClosedIsReset
<1>7. SentIsSeen'
  BY <1>1, SentStays, SameLog, ChatPart DEF IInv
<1> QED
  BY <1>1, <1>5, <1>6, <1>7 DEF IInv, WmBounded, StampsFit, Stamped

\* One batch of a drain. What it sends was not sent before: a row the session
\* has sent is behind the watermark and off the page, or in the seen set. And
\* what it sends, or has sent, in the new watermark's second is in the new seen
\* set: such a row is on the page, and in its settled prefix.
LEMMA DrainPreserves ==
  ASSUME IInv, NEW s \in Streams, NEW c \in Channels, DrainBatch(s, c)
  PROVE  IInv'
<1> DEFINE page  == Page(c, wm[s][c])
           batch == Settled(page)
           fresh == batch \ seen[s][c]
           sent  == {i \in fresh : Deliverable(i)}
           t     == Latest(wm[s][c], batch)
<1>1. /\ UNCHANGED <<clock, log, writer, subscribed, box>>
      /\ UNCHANGED <<phase, connects, cursor, from, prior, missed>>
      /\ c \in todo[s]
      /\ times' = [times EXCEPT ![s] = [i \in MsgId |-> times[s][i] + (IF i \in sent THEN 1 ELSE 0)]]
      /\ got' = got \cup sent
      /\ todo' = [todo EXCEPT ![s] = @ \ {c}] \/ todo' = todo
      /\ IF page = {} THEN UNCHANGED <<wm, seen>>
         ELSE /\ wm' = [wm EXCEPT ![s][c] = t]
              /\ seen' = [seen EXCEPT ![s][c] = Boundary(batch, t)]
  BY DEF DrainBatch, Count, chatVars
<1>2. /\ ChatInv /\ Ids' = Ids /\ LogMoves
      /\ wm \in [Streams -> [Channels -> Nat]] /\ wm[s][c] \in Nat /\ wm[s][c] <= Horizon
      /\ seen \in [Streams -> [Channels -> SUBSET Ids]]
      /\ times \in [Streams -> [MsgId -> Nat]]
  BY <1>1, SameLog, ChatPart DEF IInv, TypeOK, WmBounded, Ids
<1>w. wm[s][c] \in Nat
  BY <1>2
<1>3. page \subseteq Ids /\ batch \subseteq page
  BY DEF Page, Visible, InChannel, Settled
<1>4. sent \subseteq Ids /\ sent \subseteq batch /\ Boundary(batch, t) \subseteq Ids
  BY <1>3 DEF Boundary
<1>5. ASSUME NEW i \in batch
      PROVE  /\ i \in Ids /\ log[i].ch = c /\ log[i].sec >= wm[s][c] /\ ~log[i].deleted
             /\ InReach(i) /\ page # {}
  <2>1. i \in Visible(c, wm[s][c]) /\ InReach(i)
    BY <1>2, SettledIsInReach
  <2> QED
    BY <1>3, <2>1 DEF Visible, InChannel
<1>6. /\ t \in Nat /\ wm[s][c] <= t /\ t <= Horizon
      /\ \A i \in batch : log[i].sec <= t
  BY <1>2, <1>3, LatestProps
<1> HIDE DEF page, batch, fresh, sent, t
<1>7. /\ wm' \in [Streams -> [Channels -> Nat]]
      /\ seen' \in [Streams -> [Channels -> SUBSET Ids]]
      /\ \A x \in Streams, d \in Channels :
           (x # s \/ d # c) => wm'[x][d] = wm[x][d] /\ seen'[x][d] = seen[x][d]
      /\ IF page = {} THEN wm'[s][c] = wm[s][c] /\ seen'[s][c] = seen[s][c]
         ELSE wm'[s][c] = t /\ seen'[s][c] = Boundary(batch, t)
  <2>1. CASE page = {}
    BY <1>1, <1>2, <2>1
  <2>2. CASE page # {}
    <3>1. wm' = [wm EXCEPT ![s][c] = t] /\ seen' = [seen EXCEPT ![s][c] = Boundary(batch, t)]
      BY <1>1, <2>2
    <3> QED
      BY <1>2, <1>4, <1>6, <2>2, <3>1
  <2> QED
    BY <2>1, <2>2
<1>8. /\ times' \in [Streams -> [MsgId -> Nat]]
      /\ \A x \in Streams : x # s => times'[x] = times[x]
      /\ \A i \in MsgId : times'[s][i] = times[s][i] + (IF i \in sent THEN 1 ELSE 0)
  BY <1>1, <1>2
<1>9. todo' \in [Streams -> SUBSET Subscribed]
  <2>1. todo \in [Streams -> SUBSET Subscribed]
    BY DEF IInv, TypeOK
  <2> QED
    BY <1>1, <2>1
<1>10. TypeOK'
  BY <1>1, <1>2, <1>4, <1>7, <1>8, <1>9 DEF IInv, TypeOK, ChatTypeOK
<1>11. WmBounded'
  BY <1>2, <1>6, <1>7 DEF IInv, WmBounded
<1>12. ClosedIsReset'
  <2>1. phase[s] # "closed"
    BY <1>1 DEF IInv, ClosedIsReset
  <2>2. \A x \in Streams : x # s => todo'[x] = todo[x] /\ times'[x] = times[x]
    BY <1>1, <1>8 DEF IInv, TypeOK
  <2> QED
    BY <1>1, <2>1, <2>2 DEF IInv, ClosedIsReset
<1>13. \A i \in Ids : InReach(i)' <=> InReach(i)
  BY <1>1 DEF InReach, Ahead, Ids, Generating
<1>14. SentIsSeen'
  <2> SUFFICES ASSUME NEW x \in Streams, NEW i \in MsgId, times'[x][i] > 0
               PROVE  /\ i \in Ids
                      /\ times'[x][i] = 1
                      /\ log[i].sec <= wm'[x][log[i].ch]
                      /\ (log[i].sec = wm'[x][log[i].ch] /\ ~log[i].deleted) =>
                            i \in seen'[x][log[i].ch] /\ InReach(i)
    BY <1>1, <1>2, <1>13 DEF SentIsSeen
  <2>1. ASSUME times[x][i] > 0
        PROVE  /\ i \in Ids /\ times[x][i] = 1 /\ log[i].sec <= wm[x][log[i].ch]
               /\ (log[i].sec = wm[x][log[i].ch] /\ ~log[i].deleted) =>
                     i \in seen[x][log[i].ch] /\ InReach(i)
               /\ log[i].ch \in Channels /\ log[i].sec \in Nat
    <3>1. /\ i \in Ids /\ times[x][i] = 1 /\ log[i].sec <= wm[x][log[i].ch]
          /\ (log[i].sec = wm[x][log[i].ch] /\ ~log[i].deleted) =>
                i \in seen[x][log[i].ch] /\ InReach(i)
      BY <2>1 DEF IInv, SentIsSeen
    <3> QED
      BY <1>2, <3>1, RowFields
  <2>2. CASE x # s
    BY <1>7, <1>8, <2>1, <2>2
  <2>3. CASE x = s /\ i \in sent
    <3>1. /\ i \in batch /\ i \notin seen[s][c] /\ i \in Ids /\ log[i].ch = c /\ page # {}
          /\ log[i].sec >= wm[s][c] /\ ~log[i].deleted /\ InReach(i) /\ log[i].sec \in Nat
      BY <1>2, <1>5, <2>3, RowFields DEF sent, fresh
    <3>2. ~(times[s][i] > 0)
      <4> SUFFICES ASSUME times[s][i] > 0 PROVE FALSE
        OBVIOUS
      <4>1. log[i].sec <= wm[s][c] /\ (log[i].sec = wm[s][c] => i \in seen[s][c])
        BY <2>1, <2>3, <3>1
      <4>2. log[i].sec = wm[s][c]
        <5>1. log[i].sec \in Nat /\ log[i].sec >= wm[s][c] /\ log[i].sec <= wm[s][c]
          BY <3>1, <4>1
        <5> QED
          BY <1>w, <5>1
      <4> QED
        BY <3>1, <4>1, <4>2
    <3>3. times'[s][i] = 1
      BY <1>2, <1>8, <2>3, <3>2
    <3>4. wm'[s][c] = t /\ seen'[s][c] = Boundary(batch, t) /\ log[i].sec <= t
      BY <1>6, <1>7, <3>1
    <3>5. log[i].sec = t => i \in Boundary(batch, t)
      BY <3>1 DEF Boundary
    <3> QED
      BY <2>3, <3>1, <3>3, <3>4, <3>5
  <2>4. CASE x = s /\ i \notin sent
    <3>1. times'[s][i] = times[s][i] /\ times[s][i] > 0
      BY <1>2, <1>8, <2>4
    <3>2. CASE log[i].ch # c \/ page = {}
      BY <1>7, <2>1, <2>4, <3>1, <3>2
    <3>3. CASE log[i].ch = c /\ page # {}
      <4>1. wm'[s][c] = t /\ seen'[s][c] = Boundary(batch, t) /\ log[i].sec <= t
        BY <1>2, <1>6, <1>7, <2>1, <2>4, <3>1, <3>3
      <4>2. ASSUME log[i].sec = t, ~log[i].deleted
            PROVE  i \in Boundary(batch, t) /\ InReach(i)
        <5>0. /\ log[i].sec <= wm[s][c] /\ log[i].sec \in Nat /\ i \in Ids
              /\ log[i].sec = wm[s][c] => InReach(i)
          BY <2>1, <2>4, <3>1, <3>3, <4>2
        <5>1. log[i].sec = wm[s][c] /\ InReach(i)
          <6>1. log[i].sec \in Nat /\ log[i].sec <= wm[s][c] /\ wm[s][c] <= log[i].sec
            BY <1>6, <4>2, <5>0
          <6>2. log[i].sec = wm[s][c]
            BY <1>w, <6>1
          <6> QED
            BY <5>0, <6>2
        <5>2. i \in batch
          BY <1>2, <3>3, <4>2, <5>0, <5>1, InReachIsSettled DEF batch, page
        <5> QED
          BY <4>2, <5>1, <5>2 DEF Boundary
      <4> QED
        BY <2>1, <2>4, <3>1, <3>3, <4>1, <4>2
    <3> QED
      BY <3>2, <3>3
  <2> QED
    BY <2>2, <2>3, <2>4
<1> QED
  BY <1>1, <1>10, <1>11, <1>12, <1>14 DEF IInv, StampsFit, Stamped

\* A broken or finished session.
LEMMA EndingPreserves ==
  ASSUME IInv, NEW s \in Streams,
         Disconnect(s) \/ \E c \in Channels : DrainBreaks(s, c)
  PROVE  IInv'
<1>1. CloseStream(s)
  BY DEF Disconnect, DrainBreaks
<1>2. got' \subseteq Ids
  <2>1. CASE Disconnect(s)
    BY <2>1 DEF Disconnect, IInv, TypeOK
  <2>2. ASSUME NEW c \in Channels, DrainBreaks(s, c)
        PROVE  got' \subseteq Ids
    <3>1. Settled(Page(c, wm[s][c])) \subseteq Ids
      BY DEF Settled, Page, Visible, InChannel
    <3> QED
      BY <2>2, <3>1 DEF DrainBreaks, IInv, TypeOK
  <2> QED
    BY <2>1, <2>2
<1> QED
  BY <1>1, <1>2, ClosePreserves

-----------------------------------------------------------------------------
(* The theorems.                                                           *)

LEMMA InvariantStep ==
  ASSUME IInv, [Next]_vars
  PROVE  IInv'
<1>1. CASE UNCHANGED vars
  <2>1. UNCHANGED <<clock, log, writer, subscribed, box, phase, wm, seen, todo, from, times,
                    prior, missed, connects, cursor, got>>
    BY <1>1 DEF vars, chatVars, sessionVars
  <2>2. TypeOK' /\ StampsFit'
    BY <2>1 DEF IInv, TypeOK, ChatTypeOK, StampsFit, Stamped, Ids
  <2>3. SentIsSeen'
    BY <2>1, SentStays, SameLog, ChatPart DEF IInv
  <2> QED
    BY <2>1, <2>2, <2>3 DEF IInv, WmBounded, ClosedIsReset
<1> QED
  BY <1>1, ChatPreserves, CrashPreserves, ResetPreserves, ConnectPreserves, QuietPreserves,
     DrainPreserves, EndingPreserves DEF Next

\* The invariant holds in every reachable state: it holds at the start
\* (InitInv), and each step preserves it (the lemmas above).
THEOREM Invariance == Spec => []IInv
  BY InvariantStep, InitInv, PTL DEF Spec

LEMMA IdsAreMsgIds ==
  ASSUME IInv
  PROVE  Ids \subseteq MsgId
<1>1. Len(log) \in Nat /\ Len(log) <= MaxMsgs /\ MaxMsgs \in Nat
  BY RowOf, ChatPart, ChatConstants DEF IInv, TypeOK, ChatTypeOK
<1> QED
  BY <1>1 DEF MsgId, Ids

\* Log, bus and sessions keep their types, and no bound is exceeded.
THEOREM TypeCorrect == Spec => []TypeOK
<1>1. IInv => TypeOK
  BY DEF IInv
<1> QED
  BY <1>1, Invariance, PTL

\* One session delivers no message twice (drainChannel's watermark and seen
\* set), for any interleaving of late inserts, deletions, flushes and pings, and
\* any page size.
THEOREM NoDuplicatesHolds == Spec => []NoDuplicates
<1>1. IInv => NoDuplicates
  <2> SUFFICES ASSUME IInv, NEW s \in Open, NEW i \in Ids
               PROVE  times[s][i] <= 1
    BY DEF NoDuplicates
  <2>2. i \in MsgId /\ s \in Streams
    BY IdsAreMsgIds DEF Open
  <2>3. times[s][i] \in Nat
    BY <2>2 DEF IInv, TypeOK
  <2>4. times[s][i] > 0 => times[s][i] = 1
    BY <2>2 DEF IInv, SentIsSeen
  <2> QED
    BY <2>3, <2>4
<1> QED
  BY <1>1, Invariance, PTL

\* Only a drain sends, and only from the settled prefix of a page, what is
\* not in the seen set.
LEMMA SendStep ==
  ASSUME IInv, [Next]_vars, NEW s \in Streams, NEW i \in MsgId
  PROVE  /\ LogMoves
         /\ times'[s][i] > times[s][i] =>
              UNCHANGED log /\ \E c \in Channels : i \in Settled(Page(c, wm[s][c])) \ seen[s][c]
<1> DEFINE Goal == /\ LogMoves
                   /\ times'[s][i] > times[s][i] =>
                        UNCHANGED log /\ \E c \in Channels : i \in Settled(Page(c, wm[s][c])) \ seen[s][c]
<1>1. /\ ChatInv /\ times \in [Streams -> [MsgId -> Nat]] /\ times[s][i] \in Nat
      /\ ~(times[s][i] > times[s][i]) /\ ~(Never[i] > times[s][i])
  BY ChatPart DEF IInv, TypeOK, Never
<1>2. CASE UNCHANGED <<log, times>>
  BY <1>1, <1>2, SameLog
<1>3. CASE Chat
  <2>1. LogMoves
    BY <1>1, <1>3, ChatStepMoves DEF Chat
  <2> QED
    BY <1>1, <1>3, <2>1 DEF Chat, sessionVars
<1>4. ASSUME NEW S \in SUBSET Streams, EndSessions(S)
      PROVE  ~(times'[s][i] > times[s][i])
  <2>1. times'[s] = IF s \in S THEN Never ELSE times[s]
    BY <1>4 DEF EndSessions
  <2> QED
    BY <1>1, <2>1
<1>5. CASE Crash
  <2>1. LogMoves
    BY <1>1, <1>5, RebootMoves DEF Crash
  <2> QED
    BY <1>4, <1>5, <2>1 DEF Crash
<1>6. ASSUME NEW x \in Streams, CloseStream(x)
      PROVE  Goal
  BY <1>1, <1>4, <1>6, SameLog DEF CloseStream
<1>7. ASSUME NEW x \in Streams, NEW c \in Channels, DrainBatch(x, c)
      PROVE  Goal
  <2> DEFINE sent == {k \in Settled(Page(c, wm[x][c])) \ seen[x][c] : Deliverable(k)}
  <2>1. UNCHANGED log
        /\ times' = [times EXCEPT ![x] = [k \in MsgId |-> times[x][k] + (IF k \in sent THEN 1 ELSE 0)]]
    BY <1>7 DEF DrainBatch, Count, chatVars
  <2>2. times'[s][i] > times[s][i] => x = s /\ i \in sent
    <3> HIDE DEF sent
    <3>1. x # s => times'[s][i] = times[s][i]
      BY <1>1, <2>1
    <3>2. x = s => times'[s][i] = times[s][i] + (IF i \in sent THEN 1 ELSE 0)
      BY <1>1, <2>1
    <3> QED
      BY <1>1, <3>1, <3>2
  <2> QED
    BY <1>1, <2>1, <2>2, SameLog
<1> QED
  BY <1>2, <1>3, <1>5, <1>6, <1>7 DEF Next, vars, chatVars, sessionVars, PostResetCursor, Connect,
     GoLive, Receive, Disconnect, DrainFails, DrainBreaks

\* No placeholder is delivered: the bubbles of agents go out once their text is
\* final (the hold in drainChannel), and do not change back.
THEOREM DeliveredIsSettledHolds == Spec => []DeliveredIsSettled
<1> DEFINE SentIsSettled ==
      \A s \in Streams, i \in MsgId : times[s][i] > 0 => ~Generating(i)
<1>1. Init => SentIsSettled
  BY DEF Init, Never
<1>2. IInv /\ SentIsSettled /\ [Next]_vars => SentIsSettled'
  <2> SUFFICES ASSUME IInv, SentIsSettled, [Next]_vars, NEW s \in Streams, NEW i \in MsgId,
                      times'[s][i] > 0
               PROVE  ~Generating(i)'
    OBVIOUS
  <2>1. ChatInv /\ LogMoves /\ times[s][i] \in Nat
    BY SendStep, ChatPart DEF IInv, TypeOK
  <2>2. IInv'
    BY InvariantStep
  <2>3. CASE times[s][i] > 0
    <3>1. i \in Ids /\ ~Generating(i)
      BY <2>3 DEF IInv, SentIsSeen
    <3> QED
      BY <2>1, <3>1 DEF Generating, LogMoves
  <2>4. CASE ~(times[s][i] > 0)
    <3>1. times'[s][i] > times[s][i]
      BY <2>1, <2>2, <2>4 DEF IInv, TypeOK
    <3>2. UNCHANGED log /\ \E c \in Channels : i \in Settled(Page(c, wm[s][c]))
      BY <3>1, SendStep
    <3>3. ~Generating(i)
      BY <2>1, <3>2, SettledIsInReach DEF InReach, IInv, TypeOK
    <3> QED
      BY <3>2, <3>3 DEF Generating
  <2> QED
    BY <2>3, <2>4
<1>3. IInv /\ SentIsSettled => DeliveredIsSettled
  <2> SUFFICES ASSUME IInv, SentIsSettled, NEW s \in Open, NEW i \in Ids, times[s][i] > 0
               PROVE  ~Generating(i)
    BY DEF DeliveredIsSettled
  <2>1. i \in MsgId /\ s \in Streams
    BY IdsAreMsgIds DEF Open
  <2> QED
    BY <2>1
<1> QED
  BY <1>1, <1>2, <1>3, Invariance, PTL DEF Spec

\* A session sends each channel in the order of the seconds: what it has sent is
\* behind its watermark, what it sends is not.
THEOREM InOrderHolds == Spec => InOrder
<1> DEFINE Step == \A s \in Open, c \in Channels : \A i \in Delivered(s, c), j \in Ids :
       (log[j].ch = c /\ times'[s][j] > times[s][j]) => log[i].sec <= log[j].sec
<1>1. IInv /\ [Next]_vars => [Step]_vars
  <2> SUFFICES ASSUME IInv, [Next]_vars, NEW s \in Open, NEW c \in Channels,
                      NEW i \in Delivered(s, c), NEW j \in Ids,
                      log[j].ch = c, times'[s][j] > times[s][j]
               PROVE  log[i].sec <= log[j].sec
    OBVIOUS
  <2>1. s \in Streams /\ i \in Ids /\ log[i].ch = c /\ times[s][i] > 0
    BY DEF Open, Delivered, InChannel
  <2>2. i \in MsgId /\ j \in MsgId
    BY <2>1, IdsAreMsgIds
  <2>3. log[i].sec <= wm[s][c]
    BY <2>1, <2>2 DEF IInv, SentIsSeen
  <2>4. PICK d \in Channels : j \in Settled(Page(d, wm[s][d]))
    BY <2>1, <2>2, SendStep
  <2>5. log[j].sec >= wm[s][c]
    BY <2>4 DEF Settled, Page, Visible, InChannel
  <2>6. log[i].sec \in Nat /\ log[j].sec \in Nat /\ wm[s][c] \in Nat
    BY <2>1, RowFields, ChatPart DEF IInv, TypeOK
  <2> QED
    BY <2>3, <2>5, <2>6
<1> QED
  BY <1>1, Invariance, PTL DEF Spec, InOrder

-----------------------------------------------------------------------------
(* What a step does to the sessions.                                       *)

Batch(s, c)  == Settled(Page(c, wm[s][c]))
NextWm(s, c) == Latest(wm[s][c], Batch(s, c))

LEMMA BatchRows ==
  ASSUME IInv, NEW s \in Streams, NEW c \in Channels, NEW i \in Batch(s, c)
  PROVE  /\ i \in Ids /\ log[i].ch = c /\ log[i].sec >= wm[s][c] /\ ~log[i].deleted
         /\ InReach(i) /\ Page(c, wm[s][c]) # {} /\ i \in Page(c, wm[s][c])
<1>1. i \in Visible(c, wm[s][c]) /\ InReach(i)
  BY SettledIsInReach, ChatPart DEF Batch, IInv, TypeOK
<1> QED
  BY <1>1 DEF Visible, InChannel, Batch, Settled

\* The watermark moves forward, to the second of a row of the batch.
LEMMA NextWmProps ==
  ASSUME IInv, NEW s \in Streams, NEW c \in Channels
  PROVE  /\ NextWm(s, c) \in Nat /\ wm[s][c] \in Nat /\ wm[s][c] <= NextWm(s, c)
         /\ \A i \in Batch(s, c) : log[i].sec <= NextWm(s, c)
         /\ NextWm(s, c) = wm[s][c] \/ \E i \in Batch(s, c) : log[i].sec = NextWm(s, c)
<1> DEFINE M == {wm[s][c]} \cup {log[i].sec : i \in Batch(s, c)}
<1>1. wm[s][c] \in Nat /\ wm[s][c] <= Horizon /\ Horizon \in Nat
  BY ChatConstants DEF IInv, TypeOK, WmBounded
<1>2. \A i \in Batch(s, c) : log[i].sec \in Nat /\ log[i].sec <= Horizon
  BY <1>1, BatchRows, RowFields, ChatPart DEF IInv
<1>3. M \in SUBSET Nat /\ M # {} /\ \A x \in M : x <= Horizon
  BY <1>1, <1>2
<1>4. Max(M) \in M /\ \A y \in M : Max(M) >= y
  <2> HIDE DEF M
  <2> QED
    BY <1>1, <1>3, MaxOfBounded
<1>5. NextWm(s, c) = Max(M)
  BY DEF NextWm, Latest
<1>6. PICK m \in M : m = Max(M)
  BY <1>4
<1>7. m \in Nat /\ \A y \in M : y <= m
  BY <1>3, <1>4, <1>6
<1> QED
  BY <1>1, <1>5, <1>6, <1>7

LEMMA DrainEffect ==
  ASSUME IInv, NEW s \in Streams, NEW c \in Channels, DrainBatch(s, c)
  PROVE  /\ UNCHANGED <<clock, log, writer, from, prior>> /\ c \in Subscribed
         /\ \A x \in Streams, d \in Channels :
              (x # s \/ d # c) => wm'[x][d] = wm[x][d] /\ seen'[x][d] = seen[x][d]
         /\ IF Page(c, wm[s][c]) = {} THEN wm'[s][c] = wm[s][c] /\ seen'[s][c] = seen[s][c]
            ELSE wm'[s][c] = NextWm(s, c) /\ seen'[s][c] = Boundary(Batch(s, c), NextWm(s, c))
         /\ \A x \in Streams, i \in MsgId :
              times'[x][i] = times[x][i]
                + (IF x = s /\ i \in Batch(s, c) \ seen[s][c] /\ Deliverable(i) THEN 1 ELSE 0)
         /\ got' \subseteq got \cup Batch(s, c)
<1> DEFINE sent == {i \in Batch(s, c) \ seen[s][c] : Deliverable(i)}
           page == Page(c, wm[s][c])
           b    == Boundary(Batch(s, c), NextWm(s, c))
           t    == NextWm(s, c)
<1>1. /\ UNCHANGED <<clock, log, writer, from, prior>> /\ c \in todo[s]
      /\ times' = [times EXCEPT ![s] = [i \in MsgId |-> times[s][i] + (IF i \in sent THEN 1 ELSE 0)]]
      /\ got' = got \cup sent
      /\ IF page = {} THEN UNCHANGED <<wm, seen>>
         ELSE wm' = [wm EXCEPT ![s][c] = t] /\ seen' = [seen EXCEPT ![s][c] = b]
  BY DEF DrainBatch, Count, chatVars, Batch, NextWm
<1>2. /\ wm \in [Streams -> [Channels -> Nat]] /\ seen \in [Streams -> [Channels -> SUBSET Ids]]
      /\ times \in [Streams -> [MsgId -> Nat]] /\ todo \in [Streams -> SUBSET Subscribed]
  BY DEF IInv, TypeOK
<1>3. c \in Subscribed
  BY <1>1, <1>2
<1>4. ASSUME NEW x \in Streams, NEW i \in MsgId
      PROVE  times'[x][i] = times[x][i] + (IF x = s /\ i \in sent THEN 1 ELSE 0)
  <2> HIDE DEF sent
  <2>1. times[x][i] \in Nat
    BY <1>2
  <2> QED
    BY <1>1, <1>2, <2>1
<1>5. got' \subseteq got \cup Batch(s, c)
  BY <1>1
<1>6. \A x \in Streams, d \in Channels :
        (x # s \/ d # c) => wm'[x][d] = wm[x][d] /\ seen'[x][d] = seen[x][d]
  <2> HIDE DEF page, b, t
  <2> QED
    BY <1>1, <1>2
<1>7. IF page = {} THEN wm'[s][c] = wm[s][c] /\ seen'[s][c] = seen[s][c]
      ELSE wm'[s][c] = t /\ seen'[s][c] = b
  <2> HIDE DEF page, b, t
  <2> QED
    BY <1>1, <1>2
<1> QED
  BY <1>1, <1>3, <1>4, <1>5, <1>6, <1>7

LEMMA ConnectEffect ==
  ASSUME IInv, NEW s \in Streams, NEW q \in Query, Connect(s, q)
  PROVE  /\ UNCHANGED <<clock, log, writer, times, got>> /\ times[s] = Never
         /\ \A x \in Streams : x # s => /\ wm'[x] = wm[x] /\ seen'[x] = seen[x]
                                        /\ from'[x] = from[x] /\ prior'[x] = prior[x]
         /\ from'[s] = ResumeFrom(q)
         /\ \A c \in Channels : wm'[s][c] = ResumeFrom(q)
         /\ \A c \in Channels : seen'[s][c] \subseteq Seed(c, ResumeFrom(q))
         /\ prior'[s] \subseteq got
         /\ prior'[s] # {} => \A c \in Subscribed : seen'[s][c] = Seed(c, ResumeFrom(q))
<1> DEFINE t == ResumeFrom(q)
           seeds(u) == [c \in Channels |->
                          IF c \in (IF SeedBoundary(q) THEN Subscribed \ u ELSE {})
                          THEN Seed(c, t) ELSE {}]
           known(u) == IF q.mode = "bare" /\ cursor > 0 /\ u = {} THEN got ELSE {}
<1>1. /\ UNCHANGED <<clock, log, writer, times, got>> /\ times[s] = Never
  BY DEF Connect, chatVars, IInv, ClosedIsReset
<1>2. PICK u \in SUBSET Subscribed :
        /\ wm' = [wm EXCEPT ![s] = [c \in Channels |-> t]]
        /\ seen' = [seen EXCEPT ![s] = seeds(u)]
        /\ from' = [from EXCEPT ![s] = t]
        /\ prior' = [prior EXCEPT ![s] = known(u)]
  BY DEF Connect
<1>3. /\ \A x \in Streams : x # s => /\ wm'[x] = wm[x] /\ seen'[x] = seen[x]
                                     /\ from'[x] = from[x] /\ prior'[x] = prior[x]
      /\ from'[s] = t /\ wm'[s] = [c \in Channels |-> t]
      /\ seen'[s] = seeds(u) /\ prior'[s] = known(u)
  <2> HIDE DEF seeds, known, t
  <2> QED
    BY <1>2 DEF IInv, TypeOK
<1>4. known(u) # {} => q.mode = "bare" /\ cursor > 0 /\ u = {}
  OBVIOUS
<1>5. q.mode = "bare" /\ cursor > 0 => SeedBoundary(q)
  <2>1. cursor > 0 => cursor # NoCursor
    BY DEF NoCursor
  <2> QED
    BY <2>1 DEF SeedBoundary, UsesCursor
<1>6. Subscribed \subseteq Channels
  BY StreamConstants DEF Subscribed
<1>7. known(u) # {} => \A c \in Subscribed : seeds(u)[c] = Seed(c, t)
  BY <1>4, <1>5, <1>6
<1> QED
  BY <1>1, <1>3, <1>7

\* Every step leaves the sessions alone, ends some, connects one, or drains a
\* channel of one.
SessionStep ==
  \/ UNCHANGED <<wm, seen, times, from, prior, got>>
  \/ \E S \in SUBSET Streams :
       /\ EndSessions(S)
       /\ got' \subseteq got \cup UNION {Batch(s, c) : s \in Streams, c \in Subscribed}
  \/ \E s \in Streams, q \in Query : Connect(s, q)
  \/ \E s \in Streams, c \in Channels : DrainBatch(s, c)

LEMMA SessionSteps ==
  ASSUME IInv, [Next]_vars
  PROVE  SessionStep
<1>1. CASE UNCHANGED vars
  BY <1>1 DEF vars, sessionVars, SessionStep
<1>2. CASE Chat \/ PostResetCursor
  BY <1>2 DEF Chat, PostResetCursor, sessionVars, SessionStep
<1>3. CASE Crash
  <2>1. EndSessions(Streams) /\ got' = got
    BY <1>3 DEF Crash
  <2> QED
    BY <2>1 DEF SessionStep
<1>4. ASSUME NEW s \in Streams, GoLive(s) \/ Receive(s) \/ \E c \in Channels : DrainFails(s, c)
      PROVE  SessionStep
  BY <1>4 DEF GoLive, Receive, DrainFails, SessionStep
<1>5. ASSUME NEW s \in Streams, Disconnect(s)
      PROVE  SessionStep
  <2>1. EndSessions({s}) /\ got' = got
    BY <1>5 DEF Disconnect, CloseStream
  <2> QED
    BY <2>1 DEF SessionStep
<1>6. ASSUME NEW s \in Streams, NEW c \in Channels, DrainBreaks(s, c)
      PROVE  SessionStep
  <2>1. EndSessions({s}) /\ c \in todo[s] /\ got' \subseteq got \cup Batch(s, c)
    BY <1>6 DEF DrainBreaks, CloseStream, Batch
  <2>2. c \in Subscribed
    BY <2>1 DEF IInv, TypeOK
  <2> QED
    BY <2>1, <2>2 DEF SessionStep
<1> QED
  BY <1>1, <1>2, <1>3, <1>4, <1>5, <1>6 DEF Next, SessionStep

LEMMA EndEffect ==
  ASSUME NEW S \in SUBSET Streams, EndSessions(S), NEW s \in Streams
  PROVE  \/ /\ s \notin S /\ wm'[s] = wm[s] /\ seen'[s] = seen[s] /\ times'[s] = times[s]
            /\ from'[s] = from[s] /\ prior'[s] = prior[s]
         \/ /\ s \in S /\ wm'[s] = NoSecond /\ seen'[s] = NoIds /\ times'[s] = Never
            /\ from'[s] = 0 /\ prior'[s] = {}
  BY DEF EndSessions

LEMMA LogStep ==
  ASSUME IInv, [Next]_vars
  PROVE  ChatStep \/ Reboot \/ UNCHANGED <<clock, log, writer>>
<1>1. CASE UNCHANGED vars \/ Chat \/ Crash \/ PostResetCursor
  BY <1>1 DEF vars, chatVars, Chat, Crash, PostResetCursor
<1>2. ASSUME NEW s \in Streams, \/ \E q \in Query : Connect(s, q)
                               \/ GoLive(s) \/ Receive(s) \/ Disconnect(s)
      PROVE  UNCHANGED <<clock, log, writer>>
  BY <1>2 DEF chatVars, Connect, GoLive, Receive, Disconnect, CloseStream
<1>3. ASSUME NEW s \in Streams, NEW c \in Channels,
             DrainBatch(s, c) \/ DrainFails(s, c) \/ DrainBreaks(s, c)
      PROVE  UNCHANGED <<clock, log, writer>>
  BY <1>3 DEF chatVars, DrainBatch, DrainFails, DrainBreaks, CloseStream
<1> QED
  BY <1>1, <1>2, <1>3 DEF Next

LEMMA LogStepMoves ==
  ASSUME IInv, [Next]_vars
  PROVE  LogMoves /\ Ids \subseteq Ids' /\ IInv'
<1>1. LogMoves
  BY LogStep, ChatStepMoves, RebootMoves, SameLog, ChatPart DEF IInv
<1> QED
  BY <1>1, IdsGrow, InvariantStep, ChatPart DEF IInv

-----------------------------------------------------------------------------
(* Resuming.                                                               *)

\* No watermark lies behind the second its session resumed at.
FromBehind == \A s \in Streams, c \in Channels : from[s] <= wm[s][c]

\* What some session has sent is within the first page of its second for good.
GotInReach ==
  \A i \in got : log[i].ch \in Subscribed /\ (log[i].deleted \/ InReach(i))

\* What was delivered before a session resumed is behind its watermark or, in
\* the resume second, in the seen set.
PriorIsSeen ==
  \A s \in Streams : \A i \in prior[s] :
    (log[i].sec <= from[s] /\ log[i].sec = wm[s][log[i].ch] /\ ~log[i].deleted) =>
       i \in seen[s][log[i].ch] /\ InReach(i)

ResumeInv == FromBehind /\ GotInReach /\ PriorIsSeen

LEMMA ResumeInit == Init => ResumeInv
  BY DEF Init, ResumeInv, FromBehind, GotInReach, PriorIsSeen, NoSecond

LEMMA FromStep ==
  ASSUME IInv, FromBehind, [Next]_vars
  PROVE  FromBehind'
<1> SUFFICES ASSUME NEW s \in Streams, NEW c \in Channels PROVE from'[s] <= wm'[s][c]
  BY DEF FromBehind
<1>1. from[s] <= wm[s][c] /\ from[s] \in Nat /\ wm[s][c] \in Nat
  BY DEF FromBehind, IInv, TypeOK
<1>2. CASE UNCHANGED <<wm, seen, times, from, prior, got>>
  BY <1>1, <1>2
<1>3. ASSUME NEW S \in SUBSET Streams, EndSessions(S)
      PROVE  from'[s] <= wm'[s][c]
  BY <1>1, <1>3, EndEffect DEF NoSecond
<1>4. ASSUME NEW x \in Streams, NEW q \in Query, Connect(x, q)
      PROVE  from'[s] <= wm'[s][c]
  <2>1. ResumeFrom(q) \in Nat
    BY ResumeType
  <2> QED
    BY <1>1, <1>4, <2>1, ConnectEffect
<1>5. ASSUME NEW x \in Streams, NEW d \in Channels, DrainBatch(x, d)
      PROVE  from'[s] <= wm'[s][c]
  <2>1. from'[s] = from[s] /\ (wm'[s][c] = wm[s][c] \/ (x = s /\ d = c /\ wm'[s][c] = NextWm(s, c)))
    BY <1>5, DrainEffect
  <2> QED
    BY <1>1, <2>1, NextWmProps
<1> QED
  BY <1>2, <1>3, <1>4, <1>5, SessionSteps DEF SessionStep

LEMMA GotStep ==
  ASSUME IInv, GotInReach, [Next]_vars
  PROVE  GotInReach'
<1>1. LogMoves /\ Ids \subseteq Ids' /\ ChatInv
  BY LogStepMoves, ChatPart DEF IInv
<1>2. ASSUME NEW i \in Ids, log[i].ch \in Subscribed, log[i].deleted \/ InReach(i)
      PROVE  log'[i].ch \in Subscribed /\ (log'[i].deleted \/ InReach(i)')
  BY <1>1, <1>2, InReachIsStable DEF LogMoves
<1>3. got' \subseteq got \cup UNION {Batch(s, c) : s \in Streams, c \in Subscribed}
  <2>1. ASSUME NEW s \in Streams, NEW c \in Channels, DrainBatch(s, c)
        PROVE  <1>3
    BY <2>1, DrainEffect
  <2> QED
    BY <2>1, SessionSteps, ConnectEffect DEF SessionStep
<1>4. Subscribed \subseteq Channels
  BY StreamConstants DEF Subscribed
<1>5. ASSUME NEW i \in got'
      PROVE  i \in Ids /\ log[i].ch \in Subscribed /\ (log[i].deleted \/ InReach(i))
  <2>1. CASE i \in got
    BY <2>1 DEF GotInReach, IInv, TypeOK
  <2>2. ASSUME NEW s \in Streams, NEW c \in Subscribed, i \in Batch(s, c)
        PROVE  <1>5!2
    BY <1>4, <2>2, BatchRows
  <2> QED
    BY <1>3, <1>5, <2>1, <2>2
<1> QED
  BY <1>2, <1>5 DEF GotInReach

\* The one step that could bring an old row back is the drain of the resume
\* second: the row is in the seen set, stays on the page and so goes into the
\* next seen set.
LEMMA PriorStep ==
  ASSUME IInv, ResumeInv, [Next]_vars
  PROVE  PriorIsSeen'
<1> SUFFICES ASSUME NEW s \in Streams, NEW i \in prior'[s], log'[i].sec <= from'[s],
                    log'[i].sec = wm'[s][log'[i].ch], ~log'[i].deleted
             PROVE  i \in seen'[s][log'[i].ch] /\ InReach(i)'
  BY DEF PriorIsSeen
<1>1. LogMoves /\ ChatInv
  BY LogStepMoves, ChatPart DEF IInv
<1>2. ASSUME i \in Ids, InReach(i)
      PROVE  InReach(i)'
  BY <1>1, <1>2, InReachIsStable
<1>3. ASSUME i \in Ids
      PROVE  /\ log'[i].ch = log[i].ch /\ log'[i].sec = log[i].sec /\ ~log[i].deleted
             /\ log[i].ch \in Channels /\ log[i].sec \in Nat
  BY <1>1, <1>3, RowFields DEF LogMoves
<1>4. prior[s] \subseteq Ids /\ got \subseteq Ids
  BY DEF IInv, TypeOK
<1>5. ASSUME i \in prior[s], from'[s] = from[s], wm'[s] = wm[s], seen'[s] = seen[s]
      PROVE  i \in seen'[s][log'[i].ch] /\ InReach(i)'
  BY <1>2, <1>3, <1>4, <1>5 DEF ResumeInv, PriorIsSeen
<1>6. ASSUME NEW S \in SUBSET Streams, EndSessions(S)
      PROVE  i \in seen'[s][log'[i].ch] /\ InReach(i)'
  BY <1>5, <1>6, EndEffect
<1>7. ASSUME NEW x \in Streams, NEW q \in Query, Connect(x, q)
      PROVE  i \in seen'[s][log'[i].ch] /\ InReach(i)'
  <2>1. CASE x # s
    BY <1>5, <1>7, <2>1, ConnectEffect
  <2>2. CASE x = s
    <3>1. /\ i \in got /\ wm'[s][log[i].ch] = ResumeFrom(q)
          /\ \A c \in Subscribed : seen'[s][c] = Seed(c, ResumeFrom(q))
      BY <1>3, <1>4, <1>7, <2>2, ConnectEffect
    <3>2. i \in Ids /\ log[i].ch \in Subscribed /\ InReach(i) /\ log[i].sec = ResumeFrom(q)
      BY <1>3, <1>4, <3>1 DEF ResumeInv, GotInReach
    <3>3. i \in Settled(Page(log[i].ch, log[i].sec))
      BY <1>1, <1>3, <3>2, InReachIsSettled
    <3>4. i \in Seed(log[i].ch, ResumeFrom(q))
      BY <3>2, <3>3 DEF Settled, Seed
    <3> QED
      BY <1>2, <1>3, <3>1, <3>2, <3>4
  <2> QED
    BY <2>1, <2>2
<1>8. ASSUME NEW x \in Streams, NEW c \in Channels, DrainBatch(x, c)
      PROVE  i \in seen'[s][log'[i].ch] /\ InReach(i)'
  <2>1. prior' = prior /\ from' = from
    BY <1>8, DrainEffect
  <2>2. /\ i \in prior[s] /\ i \in Ids /\ log[i].sec <= from[s] /\ log[i].ch \in Channels
        /\ ~log[i].deleted /\ log'[i].ch = log[i].ch /\ log[i].sec = wm'[s][log[i].ch]
    BY <1>3, <1>4, <2>1
  <2>3. CASE /\ wm'[s][log[i].ch] = wm[s][log[i].ch]
             /\ seen'[s][log[i].ch] = seen[s][log[i].ch]
    BY <1>2, <2>2, <2>3 DEF ResumeInv, PriorIsSeen
  <2>4. CASE /\ x = s /\ log[i].ch = c /\ wm'[s][c] = NextWm(s, c)
             /\ seen'[s][c] = Boundary(Batch(s, c), NextWm(s, c))
    <3>1. /\ from[s] <= wm[s][c] /\ wm[s][c] <= NextWm(s, c) /\ log[i].sec = NextWm(s, c)
          /\ from[s] \in Nat /\ wm[s][c] \in Nat /\ NextWm(s, c) \in Nat
      BY <2>2, <2>4, NextWmProps DEF ResumeInv, FromBehind, IInv, TypeOK
    <3>2. log[i].sec = wm[s][c]
      BY <2>2, <3>1
    <3>3. InReach(i)
      BY <2>2, <2>4, <3>2 DEF ResumeInv, PriorIsSeen
    <3>4. i \in Batch(s, c)
      BY <1>1, <2>2, <2>4, <3>2, <3>3, InReachIsSettled DEF Batch
    <3> QED
      BY <1>2, <2>2, <2>4, <3>1, <3>3, <3>4 DEF Boundary
  <2> QED
    BY <1>8, <2>2, <2>3, <2>4, DrainEffect
<1> QED
  BY <1>5, <1>6, <1>7, <1>8, SessionSteps DEF SessionStep

\* What the sessions of a connector had delivered when one of them resumed from
\* the stored cursor (GetStream's seed of the boundary second) is not sent
\* again by that session, whichever session stored the cursor, whatever the
\* other open sessions deliver and however often an admin resets it.
THEOREM NoRedeliveryHolds == Spec => NoRedeliveryOnResume
<1> DEFINE Step == \A s \in Open, i \in Ids :
       (times'[s][i] > times[s][i] /\ log[i].sec <= from[s]) => i \notin prior[s]
<1>1. IInv /\ ResumeInv /\ [Next]_vars => ResumeInv'
  BY FromStep, GotStep, PriorStep DEF ResumeInv
<1>2. IInv /\ ResumeInv /\ [Next]_vars => [Step]_vars
  <2> SUFFICES ASSUME IInv, ResumeInv, [Next]_vars, NEW s \in Open, NEW i \in Ids,
                      times'[s][i] > times[s][i], log[i].sec <= from[s], i \in prior[s]
               PROVE  FALSE
    OBVIOUS
  <2>1. s \in Streams /\ i \in MsgId
    BY IdsAreMsgIds DEF Open
  <2>2. PICK c \in Channels : i \in Settled(Page(c, wm[s][c])) \ seen[s][c]
    BY <2>1, SendStep
  <2>3. i \in Batch(s, c) /\ i \notin seen[s][c]
    BY <2>2 DEF Batch
  <2>4. log[i].ch = c /\ log[i].sec >= wm[s][c] /\ ~log[i].deleted
    BY <2>1, <2>3, BatchRows
  <2>5. from[s] <= wm[s][c] /\ from[s] \in Nat /\ wm[s][c] \in Nat /\ log[i].sec \in Nat
    BY <2>1, RowFields, ChatPart DEF ResumeInv, FromBehind, IInv, TypeOK
  <2>6. log[i].sec = wm[s][c]
    BY <2>4, <2>5
  <2> QED
    BY <2>1, <2>3, <2>4, <2>6 DEF ResumeInv, PriorIsSeen
<1> QED
  BY <1>1, <1>2, ResumeInit, Invariance, PTL DEF Spec, NoRedeliveryOnResume

-----------------------------------------------------------------------------
(* Passes.                                                                 *)

\* A page that is not full holds every visible row: of the rows off the page,
\* the first would have a full page before it.
LEMMA ShortPage ==
  ASSUME ChatInv, NEW c \in Channels, NEW t \in Nat, Cardinality(Page(c, t)) < Limit
  PROVE  Page(c, t) = Visible(c, t)
<1> DEFINE V        == Visible(c, t)
           Front(x) == {j \in V : Before(j, x)}
           Off      == V \ Page(c, t)
           Sizes    == {Cardinality(Front(x)) : x \in Off}
           R        == OpToRel(<, Nat)
<1>1. V \in SUBSET Ids /\ Page(c, t) \in SUBSET Ids /\ \A x : Front(x) \in SUBSET Ids
  BY DEF Visible, InChannel, Page
<1>2. \A x : Cardinality(Front(x)) \in Nat
  BY <1>1, FiniteIds
<1>3. SUFFICES ASSUME Off # {} PROVE FALSE
  BY DEF Page
<1>4. Sizes \subseteq Nat /\ Sizes # {}
  <2> HIDE DEF Front
  <2> QED
    BY <1>2, <1>3
<1>5. PICK n \in Sizes : \A m \in Sizes : ~(<<m, n>> \in R)
  <2> HIDE DEF R, Sizes
  <2> QED
    BY <1>4, NatLessThanWellFounded, WFMin DEF R
<1>6. n \in Nat /\ \A m \in Sizes : ~(m < n)
  BY <1>4, <1>5 DEF OpToRel
<1>7. PICK i \in Off : n = Cardinality(Front(i))
  BY <1>5
<1>8. i \in V /\ i \in Ids /\ ~(n < Limit)
  BY <1>1, <1>7 DEF Page
<1>9. ASSUME NEW j \in Front(i)
      PROVE  j \in Page(c, t)
  <2>1. j \in V /\ j \in Ids /\ Before(j, i)
    BY <1>1
  <2>2. Front(j) \subseteq Front(i) /\ j \notin Front(j)
    BY <1>1, <1>8, <2>1, BeforeOrder
  <2>3. Cardinality(Front(j)) < n
    <3>1. IsFiniteSet(Front(i)) /\ Front(j) \subseteq Front(i) /\ Front(j) # Front(i)
      BY <1>1, <1>9, <2>2, FiniteIds
    <3> HIDE DEF Front
    <3>2. Front(j) \in SUBSET Front(i)
      BY <3>1
    <3>3. /\ Cardinality(Front(j)) <= Cardinality(Front(i))
          /\ Cardinality(Front(i)) # Cardinality(Front(j))
      BY <3>1, <3>2, FS_Subset
    <3>4. Cardinality(Front(j)) \in Nat /\ Cardinality(Front(i)) \in Nat
      BY <1>2
    <3> QED
      BY <1>7, <3>3, <3>4
  <2>4. SUFFICES ASSUME j \notin Page(c, t) PROVE FALSE
    OBVIOUS
  <2>5. Cardinality(Front(j)) \in Sizes
    BY <2>1, <2>4
  <2> QED
    BY <1>6, <2>3, <2>5
<1>10. Cardinality(Front(i)) <= Cardinality(Page(c, t))
  <2>1. Front(i) \subseteq Page(c, t)
    BY <1>9
  <2> HIDE DEF Front
  <2> QED
    BY <1>1, <2>1, FiniteIds
<1>11. Cardinality(Page(c, t)) \in Nat /\ Limit \in Nat
  BY <1>1, FiniteIds, StreamConstants
<1> QED
  BY <1>6, <1>7, <1>8, <1>10, <1>11

\* The seen set holds rows of the watermark's second.
SeenIsBoundary ==
  \A s \in Streams, c \in Channels : \A i \in seen[s][c] :
    log[i].ch = c /\ log[i].sec = wm[s][c]

LEMMA SeenStep ==
  ASSUME IInv, SeenIsBoundary, [Next]_vars
  PROVE  SeenIsBoundary'
<1> SUFFICES ASSUME NEW s \in Streams, NEW c \in Channels, NEW i \in seen'[s][c]
             PROVE  log'[i].ch = c /\ log'[i].sec = wm'[s][c]
  BY DEF SeenIsBoundary
<1>1. LogMoves /\ ChatInv /\ seen[s][c] \subseteq Ids
  BY LogStepMoves, ChatPart DEF IInv, TypeOK
<1>2. CASE seen'[s][c] = seen[s][c] /\ wm'[s][c] = wm[s][c]
  BY <1>1, <1>2 DEF SeenIsBoundary, LogMoves
<1>3. ASSUME NEW S \in SUBSET Streams, EndSessions(S)
      PROVE  log'[i].ch = c /\ log'[i].sec = wm'[s][c]
  BY <1>2, <1>3, EndEffect DEF NoIds
<1>4. ASSUME NEW x \in Streams, NEW q \in Query, Connect(x, q)
      PROVE  log'[i].ch = c /\ log'[i].sec = wm'[s][c]
  <2>1. CASE x # s
    BY <1>2, <1>4, <2>1, ConnectEffect
  <2>2. CASE x = s
    <3>1. i \in Seed(c, ResumeFrom(q)) /\ UNCHANGED log /\ wm'[s][c] = ResumeFrom(q)
      BY <1>4, <2>2, ConnectEffect
    <3> QED
      BY <3>1 DEF Seed, Page, Visible, InChannel
  <2> QED
    BY <2>1, <2>2
<1>5. ASSUME NEW x \in Streams, NEW d \in Channels, DrainBatch(x, d)
      PROVE  log'[i].ch = c /\ log'[i].sec = wm'[s][c]
  <2>1. CASE /\ x = s /\ d = c /\ wm'[s][c] = NextWm(s, c)
             /\ seen'[s][c] = Boundary(Batch(s, c), NextWm(s, c))
    <3>1. i \in Batch(s, c) /\ log[i].sec = NextWm(s, c)
      BY <2>1 DEF Boundary
    <3> QED
      BY <1>5, <2>1, <3>1, BatchRows, DrainEffect
  <2> QED
    BY <1>2, <1>5, <2>1, DrainEffect
<1> QED
  BY <1>2, <1>3, <1>4, <1>5, SessionSteps DEF SessionStep

\* Between its old and its new watermark, a drain reads every row: what is not
\* held behind the row the watermark moved to is in the batch.
LEMMA BatchIsPrefix ==
  ASSUME IInv, NEW s \in Streams, NEW c \in Channels, NEW i \in Visible(c, wm[s][c]),
         NEW b \in Batch(s, c), Before(i, b)
  PROVE  i \in Batch(s, c)
<1> DEFINE V        == Visible(c, wm[s][c])
           Front(x) == {j \in V : Before(j, x)}
<1>1. ChatInv /\ wm[s][c] \in Nat
  BY ChatPart DEF IInv, TypeOK
<1>2. i \in Ids /\ b \in Ids /\ b \in Page(c, wm[s][c]) /\ \A x : Front(x) \in SUBSET Ids
  BY BatchRows DEF Visible, InChannel
<1>3. \A j \in Ids : Before(j, i) => Before(j, b)
  BY <1>1, <1>2, BeforeOrder
<1>4. Front(i) \subseteq Front(b)
  BY <1>2, <1>3
<1>5. Cardinality(Front(b)) < Limit
  BY <1>2 DEF Page
<1>6. Cardinality(Front(i)) < Limit
  <2> HIDE DEF Front
  <2> QED
    BY <1>1, <1>2, <1>4, <1>5, FiniteIds, StreamConstants
<1>7. i \in Page(c, wm[s][c])
  BY <1>6 DEF Page
<1>8. ASSUME NEW j \in Page(c, wm[s][c]), Generating(j)
      PROVE  Before(i, j)
  <2>1. j \in Ids /\ Before(b, j)
    BY <1>8 DEF Batch, Settled, Page, Visible, InChannel
  <2> QED
    BY <1>1, <1>2, <2>1, BeforeOrder
<1> QED
  BY <1>7, <1>8 DEF Batch, Settled

\* A row that no generating bubble holds back goes with the page it is on into
\* the seen set, when the watermark has reached its second.
LEMMA OnPageIsSeen ==
  ASSUME IInv, NEW s \in Streams, NEW c \in Channels, NEW i \in Page(c, wm[s][c]),
         i \in Settled(Visible(c, NextWm(s, c)))
  PROVE  i \in Boundary(Batch(s, c), NextWm(s, c))
<1>1. /\ NextWm(s, c) \in Nat /\ wm[s][c] \in Nat /\ wm[s][c] <= NextWm(s, c)
      /\ \A b \in Batch(s, c) : log[b].sec <= NextWm(s, c)
      /\ NextWm(s, c) = wm[s][c] \/ \E b \in Batch(s, c) : log[b].sec = NextWm(s, c)
  BY NextWmProps
<1>2. \A j \in Page(c, wm[s][c]) :
        j \in Ids /\ log[j].sec \in Nat /\ log[j].ch = c /\ ~log[j].deleted /\ log[j].sec >= wm[s][c]
  BY RowFields, ChatPart DEF Page, Visible, InChannel, IInv
<1>3. log[i].sec >= NextWm(s, c)
  BY DEF Settled, Visible
<1>4. ASSUME NEW j \in Page(c, wm[s][c]), Generating(j)
      PROVE  Before(i, j)
  <2>1. log[j].sec >= NextWm(s, c)
    <3>1. CASE NextWm(s, c) = wm[s][c]
      BY <1>2, <3>1
    <3>2. ASSUME NEW b \in Batch(s, c), log[b].sec = NextWm(s, c)
          PROVE  log[j].sec >= NextWm(s, c)
      <4>1. Before(b, j)
        BY <1>4 DEF Batch, Settled
      <4> QED
        BY <1>1, <1>2, <3>2, <4>1 DEF Before
    <3> QED
      BY <1>1, <3>1, <3>2
  <2>2. j \in Visible(c, NextWm(s, c))
    BY <1>2, <2>1 DEF Visible, InChannel
  <2> QED
    BY <1>4, <2>2 DEF Settled
<1>5. i \in Batch(s, c)
  BY <1>4 DEF Batch, Settled
<1>6. log[i].sec = NextWm(s, c)
  BY <1>1, <1>2, <1>3, <1>5
<1> QED
  BY <1>5, <1>6 DEF Boundary

\* A pass ends at a held bubble, which holds the rest of the channel back too,
\* at a short page, which is the whole channel, or at a full page with nothing
\* new, which takes a second that fills a page.
LEMMA PassEnds ==
  ASSUME PerSecond < Limit, IInv, SeenIsBoundary, SecondsFit,
         NEW s \in Streams, NEW c \in Subscribed, DrainBatch(s, c), c \notin todo'[s]
  PROVE  Settled(Visible(c, wm'[s][c])) \subseteq seen'[s][c]
<1> DEFINE page  == Page(c, wm[s][c])
           fresh == Batch(s, c) \ seen[s][c]
<1>1. c \in Channels /\ ChatInv /\ wm[s][c] \in Nat
  <2>1. c \in Channels
    BY StreamConstants DEF Subscribed
  <2> QED
    BY <2>1, ChatPart DEF IInv, TypeOK
<1>2. LastBatch(page, Batch(s, c), fresh)
  BY DEF DrainBatch, Batch
<1>3. page \in SUBSET Ids /\ IsFiniteSet(page) /\ Cardinality(page) \in Nat /\ Limit \in Nat \ {0}
  <2>1. page \in SUBSET Ids
    BY DEF Page, Visible, InChannel
  <2> HIDE DEF page
  <2> QED
    BY <1>1, <2>1, FiniteIds, StreamConstants
<1>4. CASE page = {}
  <2>1. Cardinality(page) = 0
    BY <1>4, FS_EmptySet
  <2>2. Visible(c, wm[s][c]) = {}
    BY <1>1, <1>3, <1>4, <2>1, ShortPage
  <2>3. wm'[s][c] = wm[s][c]
    BY <1>1, <1>4, DrainEffect
  <2> QED
    BY <2>2, <2>3 DEF Settled
<1>5. ASSUME page # {}, NEW i \in Settled(Visible(c, NextWm(s, c))), i \notin page
      PROVE  FALSE
  <2>1. /\ wm[s][c] <= NextWm(s, c) /\ NextWm(s, c) \in Nat
        /\ NextWm(s, c) = wm[s][c] \/ \E b \in Batch(s, c) : log[b].sec = NextWm(s, c)
    BY <1>1, NextWmProps
  <2>2. i \in Visible(c, wm[s][c]) /\ i \in Ids /\ log[i].sec \in Nat
        /\ log[i].sec >= NextWm(s, c)
    <3>1. i \in Ids /\ log[i].ch = c /\ ~log[i].deleted /\ log[i].sec >= NextWm(s, c)
      BY <1>5 DEF Settled, Visible, InChannel
    <3>2. log[i].sec \in Nat
      BY <1>1, <3>1, RowFields
    <3> QED
      BY <1>1, <2>1, <3>1, <3>2 DEF Visible, InChannel
  <2>3. CASE Cardinality(page) < Limit
    BY <1>1, <1>5, <2>2, <2>3, ShortPage
  <2>4. CASE Batch(s, c) # page
    <3>1. PICK x \in page, j \in page : Generating(j) /\ ~Before(x, j)
      BY <2>4 DEF Batch, Settled
    <3>2. /\ j \in Ids /\ log[j].ch = c /\ ~log[j].deleted /\ log[j].sec >= wm[s][c]
          /\ log[j].sec \in Nat
      BY <1>1, RowFields DEF Page, Visible, InChannel
    <3>3. log[j].sec >= NextWm(s, c)
      <4>1. ASSUME NEW b \in Batch(s, c), log[b].sec = NextWm(s, c)
            PROVE  log[j].sec >= NextWm(s, c)
        <5>1. Before(b, j)
          BY <3>1 DEF Batch, Settled
        <5> QED
          BY <2>1, <3>2, <4>1, <5>1 DEF Before
      <4> QED
        BY <2>1, <3>2, <4>1
    <3>4. Before(i, j)
      <4>1. j \in Visible(c, NextWm(s, c))
        BY <3>2, <3>3 DEF Visible, InChannel
      <4> QED
        BY <1>5, <3>1, <4>1 DEF Settled
    <3> DEFINE Front(y) == {k \in Visible(c, wm[s][c]) : Before(k, y)}
    <3>5. Front(i) \subseteq Front(j) /\ Front(j) \in SUBSET Ids
      <4>1. \A k \in Ids : Before(k, i) => Before(k, j)
        BY <1>1, <2>2, <3>2, <3>4, BeforeOrder
      <4> QED
        BY <4>1 DEF Visible, InChannel
    <3>6. Cardinality(Front(j)) < Limit
      BY DEF Page
    <3>7. Cardinality(Front(i)) < Limit
      <4> HIDE DEF Front
      <4>1. Front(i) \in SUBSET Front(j)
        BY <3>5
      <4>2. /\ Cardinality(Front(i)) \in Nat /\ Cardinality(Front(j)) \in Nat
            /\ Cardinality(Front(i)) <= Cardinality(Front(j))
        BY <1>1, <3>5, <4>1, FiniteIds
      <4> QED
        BY <1>3, <3>6, <4>2
    <3>8. i \in page
      BY <2>2, <3>7 DEF Page
    <3> QED
      BY <1>5, <3>8
  <2>5. CASE Batch(s, c) = page /\ fresh = {}
    <3>1. page \subseteq RowsOf(c, wm[s][c])
      <4>1. page \subseteq seen[s][c]
        BY <2>5
      <4> HIDE DEF page
      <4> QED
        BY <1>1, <1>3, <4>1 DEF SeenIsBoundary, RowsOf, InChannel
    <3>2. wm[s][c] \in Second
      <4>1. PICK j \in page : j \in Ids
        BY <1>3, <1>5
      <4>2. log[j].sec \in Second
        BY <1>1, <4>1, RowOf DEF Row
      <4>3. log[j].sec = wm[s][c]
        BY <3>1 DEF RowsOf
      <4> QED
        BY <4>2, <4>3
    <3>3. /\ IsFiniteSet(RowsOf(c, wm[s][c])) /\ Cardinality(RowsOf(c, wm[s][c])) \in Nat
          /\ Cardinality(StampsOf(c, wm[s][c])) \in Nat /\ PerSecond \in Nat
          /\ Cardinality(RowsOf(c, wm[s][c])) + Cardinality(StampsOf(c, wm[s][c])) <= PerSecond
      BY <1>1, <3>2, SecondsFinite, ChatConstants DEF SecondsFit
    <3>4. Cardinality(page) <= Cardinality(RowsOf(c, wm[s][c]))
      <4> HIDE DEF page
      <4> QED
        BY <3>1, <3>3, FS_Subset
    <3>5. Cardinality(page) < Limit
      <4> HIDE DEF page
      <4> QED
        BY <1>3, <3>3, <3>4
    <3> QED
      BY <2>3, <3>5
  <2> QED
    BY <1>2, <2>3, <2>4, <2>5 DEF LastBatch
<1>6. CASE page # {}
  <2>1. wm'[s][c] = NextWm(s, c) /\ seen'[s][c] = Boundary(Batch(s, c), NextWm(s, c))
    BY <1>1, <1>6, DrainEffect
  <2>2. ASSUME NEW i \in Settled(Visible(c, NextWm(s, c)))
        PROVE  i \in seen'[s][c]
    <3>1. i \in page
      BY <1>5, <1>6
    <3> QED
      BY <1>1, <2>1, <2>2, <3>1, OnPageIsSeen
  <2> QED
    BY <2>1, <2>2
<1> QED
  BY <1>4, <1>6

\* The second may hold no more rows than the bound on them.
LEMMA SecondsInit == Init => SecondsFit /\ SeenIsBoundary
<1> SUFFICES ASSUME Init PROVE SecondsFit /\ SeenIsBoundary
  OBVIOUS
<1>1. SeenIsBoundary
  BY DEF Init, SeenIsBoundary, NoIds
<1>2. \A c, t : RowsOf(c, t) = {} /\ StampsOf(c, t) = {}
  BY DEF Init, ChatInit, RowsOf, InChannel, Ids, StampsOf, Stamped, Idle
<1>3. Cardinality({}) = 0 /\ PerSecond \in Nat
  BY FS_EmptySet, ChatConstants
<1> QED
  BY <1>1, <1>2, <1>3 DEF SecondsFit

\* When no second of a channel fills a page (streamBatchLimit rows), the pass a
\* ping starts delivers everything it can: drainChannel ends a pass only when
\* what is left is held back by a generating bubble.
THEOREM PassCatchesUpHolds ==
  ASSUME PerSecond < Limit
  PROVE  Spec => PassCatchesUp
<1> DEFINE Step == \A s \in Open, c \in Subscribed :
       (DrainBatch(s, c) /\ c \notin todo'[s])
         => Settled(Visible(c, wm'[s][c])) \subseteq seen'[s][c]
<1>1. IInv /\ SecondsFit /\ SeenIsBoundary /\ [Next]_vars => (SecondsFit /\ SeenIsBoundary)'
  BY LogStep, SecondsStep, SeenStep, ChatPart DEF IInv
<1>2. IInv /\ SecondsFit /\ SeenIsBoundary /\ [Next]_vars => [Step]_vars
  BY PassEnds DEF Open
<1> QED
  BY <1>1, <1>2, SecondsInit, Invariance, PTL DEF Spec, PassCatchesUp

-----------------------------------------------------------------------------
(* What a watermark moves past.                                            *)

\* Beyond the resume second, the seen set holds what was sent.
SeenIsSent ==
  \A s \in Streams, c \in Channels : \A i \in seen[s][c] :
    (Deliverable(i) /\ from[s] < log[i].sec) => times[s][i] > 0

LEMMA SeenIsSentStep ==
  ASSUME IInv, SeenIsSent, [Next]_vars
  PROVE  SeenIsSent'
<1> SUFFICES ASSUME NEW s \in Streams, NEW c \in Channels, NEW i \in seen'[s][c],
                    Deliverable(i)', from'[s] < log'[i].sec
             PROVE  times'[s][i] > 0
  BY DEF SeenIsSent
<1>1. /\ LogMoves /\ ChatInv /\ seen[s][c] \subseteq Ids /\ Ids \subseteq MsgId
      /\ times \in [Streams -> [MsgId -> Nat]]
  BY LogStepMoves, ChatPart, IdsAreMsgIds DEF IInv, TypeOK
<1>2. ASSUME i \in Ids
      PROVE  /\ Deliverable(i) /\ log'[i].sec = log[i].sec
  BY <1>1, <1>2 DEF LogMoves, Deliverable
<1>3. CASE i \in seen[s][c] /\ from'[s] = from[s] /\ times'[s] = times[s]
  BY <1>1, <1>2, <1>3 DEF SeenIsSent
<1>4. ASSUME NEW S \in SUBSET Streams, EndSessions(S)
      PROVE  times'[s][i] > 0
  BY <1>3, <1>4, EndEffect DEF NoIds
<1>5. ASSUME NEW x \in Streams, NEW q \in Query, Connect(x, q)
      PROVE  times'[s][i] > 0
  <2>1. CASE x # s
    BY <1>3, <1>5, <2>1, ConnectEffect
  <2>2. CASE x = s
    <3>1. i \in Seed(c, ResumeFrom(q)) /\ UNCHANGED log /\ from'[s] = ResumeFrom(q)
      BY <1>5, <2>2, ConnectEffect
    <3> QED
      BY <3>1, ResumeType DEF Seed
  <2> QED
    BY <2>1, <2>2
<1>6. ASSUME NEW x \in Streams, NEW d \in Channels, DrainBatch(x, d)
      PROVE  times'[s][i] > 0
  <2>1. /\ i \in seen[s][c] \/ (x = s /\ d = c /\ i \in Batch(s, c))
        /\ from' = from /\ UNCHANGED log
    BY <1>6, DrainEffect DEF Boundary
  <2>2. i \in Ids /\ i \in MsgId /\ times[s][i] \in Nat
    BY <1>1, <2>1, BatchRows
  <2>3. times'[s][i] = times[s][i]
          + (IF x = s /\ i \in Batch(s, d) \ seen[s][d] /\ Deliverable(i) THEN 1 ELSE 0)
    BY <1>6, <2>2, DrainEffect
  <2>4. CASE i \in seen[s][c]
    <3>1. times[s][i] > 0
      BY <1>2, <2>1, <2>2, <2>4 DEF SeenIsSent
    <3> QED
      BY <2>2, <2>3, <3>1
  <2>5. CASE x = s /\ d = c /\ i \in Batch(s, c) /\ i \notin seen[s][c]
    BY <1>2, <2>2, <2>3, <2>5
  <2> QED
    BY <2>1, <2>4, <2>5
<1> QED
  BY <1>3, <1>4, <1>5, <1>6, SessionSteps DEF SessionStep

\* The watermark does not pass a row that is not in the batch.
LEMMA DrainSkipsNothing ==
  ASSUME IInv, SeenIsSent, NEW s \in Streams, NEW c \in Channels, DrainBatch(s, c),
         NEW i \in InChannel(c), Deliverable(i), ~log[i].deleted,
         from[s] < log[i].sec \/ i \notin seen[s][c],
         wm[s][c] <= log[i].sec, log[i].sec < wm'[s][c]
  PROVE  times'[s][i] > 0
<1>1. /\ i \in Ids /\ log[i].ch = c /\ log[i].sec \in Nat /\ i \in MsgId
      /\ wm[s][c] \in Nat /\ times[s][i] \in Nat
  <2>1. i \in Ids /\ log[i].ch = c
    BY DEF InChannel
  <2>2. log[i].sec \in Nat /\ i \in MsgId
    BY <2>1, RowFields, IdsAreMsgIds, ChatPart DEF IInv
  <2> QED
    BY <2>1, <2>2 DEF IInv, TypeOK
<1>2. /\ times'[s][i] = times[s][i]
           + (IF i \in Batch(s, c) \ seen[s][c] /\ Deliverable(i) THEN 1 ELSE 0)
      /\ wm'[s][c] = wm[s][c] \/ wm'[s][c] = NextWm(s, c)
  BY <1>1, DrainEffect
<1>3. log[i].sec < NextWm(s, c) /\ NextWm(s, c) # wm[s][c]
  BY <1>1, <1>2
<1>4. PICK b \in Batch(s, c) : log[b].sec = NextWm(s, c)
  BY <1>3, NextWmProps
<1>5. i \in Visible(c, wm[s][c]) /\ Before(i, b)
  BY <1>1, <1>3, <1>4 DEF Visible, InChannel, Before
<1>6. i \in Batch(s, c)
  BY <1>5, BatchIsPrefix
<1>7. i \in seen[s][c] => times[s][i] > 0
  BY DEF SeenIsSent
<1> QED
  BY <1>1, <1>2, <1>6, <1>7

LEMMA SeenIsSentInit == Init => SeenIsSent
  BY DEF Init, SeenIsSent, NoIds

\* A session skips nothing that is in the log when its watermark moves (drainChannel),
\* the rows seeded in the resume second apart: whatever the lag of an insert, a message
\* that is missed was inserted behind the watermark.
THEOREM WatermarkSkipsNothingHolds == Spec => WatermarkSkipsNothing
<1> DEFINE Step == \A s \in Open, c \in Subscribed : \A i \in InChannel(c) :
       (/\ wm[s][c] <= log[i].sec /\ log[i].sec < wm'[s][c]
        /\ from[s] < log[i].sec \/ i \notin seen[s][c]
        /\ Deliverable(i) /\ ~log[i].deleted) => times'[s][i] > 0
<1>1. IInv /\ SeenIsSent /\ [Next]_vars => SeenIsSent'
  BY SeenIsSentStep
<1>2. IInv /\ SeenIsSent /\ [Next]_vars => [Step]_vars
  <2> SUFFICES ASSUME IInv, SeenIsSent, [Next]_vars, NEW s \in Open, NEW c \in Subscribed,
                      NEW i \in InChannel(c), wm[s][c] <= log[i].sec,
                      from[s] < log[i].sec \/ i \notin seen[s][c],
                      log[i].sec < wm'[s][c], Deliverable(i), ~log[i].deleted
               PROVE  times'[s][i] > 0
    OBVIOUS
  <2>1. s \in Streams /\ c \in Channels /\ phase[s] # "closed"
    BY StreamConstants DEF Open, Subscribed
  <2>2. wm[s][c] \in Nat /\ log[i].sec \in Nat
    BY <2>1, RowFields, ChatPart DEF IInv, TypeOK, InChannel
  <2>3. CASE wm'[s][c] = wm[s][c]
    BY <2>2, <2>3
  <2>4. ASSUME NEW S \in SUBSET Streams, EndSessions(S)
        PROVE  times'[s][i] > 0
    <3>1. wm'[s] = wm[s] \/ wm'[s] = NoSecond
      BY <2>1, <2>4, EndEffect
    <3>2. wm'[s] = NoSecond => wm'[s][c] = 0
      BY <2>1 DEF NoSecond
    <3> QED
      BY <2>2, <2>3, <3>1, <3>2
  <2>5. ASSUME NEW x \in Streams, NEW q \in Query, Connect(x, q)
        PROVE  times'[s][i] > 0
    <3>1. x # s
      BY <2>1, <2>5 DEF Connect
    <3> QED
      BY <2>1, <2>3, <2>5, <3>1, ConnectEffect
  <2>6. ASSUME NEW x \in Streams, NEW d \in Channels, DrainBatch(x, d)
        PROVE  times'[s][i] > 0
    <3>1. CASE x = s /\ d = c
      BY <2>1, <2>6, <3>1, DrainSkipsNothing
    <3>2. CASE x # s \/ d # c
      BY <2>1, <2>3, <2>6, <3>2, DrainEffect
    <3> QED
      BY <3>1, <3>2
  <2> QED
    BY <2>3, <2>4, <2>5, <2>6, SessionSteps DEF SessionStep
<1> QED
  BY <1>1, <1>2, SeenIsSentInit, Invariance, PTL DEF Spec, WatermarkSkipsNothing

-----------------------------------------------------------------------------
(* The stream implements Feed.                                             *)

LEMMA PostsType ==
  ASSUME ChatInv
  PROVE  Posts \in Seq(F!Post) /\ Len(Posts) = Len(log)
<1>1. Len(log) \in Nat /\ Ids = 1 .. Len(log)
  BY RowOf DEF Ids
<1>2. \A i \in Ids : Posts[i] \in F!Post
  BY RowFields DEF Posts, F!Post
<1>3. Posts = [i \in 1 .. Len(log) |-> Posts[i]]
  BY <1>1 DEF Posts
<1> HIDE DEF F!Post
<1> QED
  BY <1>1, <1>2, <1>3

\* A change of the log is a change of what is posted.
LEMMA LogMovesIsGrow ==
  ASSUME ChatInv, ChatInv', LogMoves
  PROVE  F!Grow
<1>1. Posts' \in Seq(F!Post) /\ Len(Posts') = Len(log')
  <2>1. log' \in Seq(Row) /\ Len(log') \in Nat /\ Ids' = 1 .. Len(log')
    BY DEF ChatInv, ChatTypeOK, Ids
  <2>2. \A i \in Ids' : log'[i] \in Row
    BY <2>1
  <2>3. \A i \in Ids' : log'[i].ch \in Channels /\ log'[i].sec \in Nat
    <3>1. \A i \in Ids' : log'[i].ch \in Channels /\ log'[i].sec \in Second
      BY <2>2 DEF Row
    <3>2. Second \subseteq Nat
      BY ChatConstants DEF Second
    <3> QED
      BY <3>1, <3>2
  <2>4. \A i \in Ids' : Posts'[i] \in F!Post
    BY <2>3 DEF Posts, F!Post
  <2>5. Posts' = [i \in 1 .. Len(log') |-> Posts'[i]]
    BY <2>1 DEF Posts
  <2> HIDE DEF F!Post
  <2> QED
    BY <2>1, <2>4, <2>5
<1>2. Len(Posts) = Len(log) /\ Len(log) \in Nat /\ Len(log') \in Nat
  BY PostsType, RowOf DEF LogMoves
<1>3. Len(log') >= Len(log)
  BY DEF LogMoves
<1>4. ASSUME NEW i \in 1 .. Len(Posts)
      PROVE  Posts'[i].ch = Posts[i].ch /\ Posts'[i].sec = Posts[i].sec
  <2>1. i \in Ids /\ i \in Ids'
    BY <1>2, <1>3 DEF Ids
  <2>2. log'[i].ch = log[i].ch /\ log'[i].sec = log[i].sec
    BY <2>1 DEF LogMoves
  <2> QED
    BY <2>1, <2>2 DEF Posts
<1> QED
  BY <1>1, <1>2, <1>3, <1>4 DEF F!Grow

LEMMA FeedInit == Init => F!Init
<1> SUFFICES ASSUME Init PROVE F!Init
  OBVIOUS
<1>1. log = <<>> /\ Open = {}
  BY DEF Init, ChatInit, Open
<1>2. Ids = {}
  BY <1>1 DEF Ids
<1>3. Posts = <<>>
  BY <1>2 DEF Posts
<1>4. times = [s \in Streams |-> F!None]
  BY DEF Init, Never, F!None
<1> QED
  BY <1>1, <1>3, <1>4 DEF F!Init

\* Sessions that end are closed in the feed and forget what they sent.
LEMMA EndIsEnd ==
  ASSUME TypeOK, NEW S \in SUBSET Streams, EndSessions(S)
  PROVE  F!End(S)
<1>1. phase' = [s \in Streams |-> IF s \in S THEN "closed" ELSE phase[s]]
  BY DEF EndSessions
<1>2. times' = [s \in Streams |-> IF s \in S THEN Never ELSE times[s]]
  BY DEF EndSessions
<1>3. Open' = Open \ S
  BY <1>1 DEF Open
<1> QED
  BY <1>2, <1>3 DEF F!End, F!None, Never

LEMMA CloseIsDisconnect ==
  ASSUME IInv, NEW s \in Streams, s \in Open, CloseStream(s)
  PROVE  F!Disconnect(s)
<1>1. F!End({s})
  BY EndIsEnd DEF CloseStream, IInv
<1>2. UNCHANGED Posts
  BY DEF CloseStream, Posts, Ids, Generating, Deliverable
<1> QED
  BY <1>1, <1>2 DEF F!Disconnect

\* A batch sends messages the session has not sent, which are ready and not
\* older than what it has sent of the channel.
LEMMA DrainIsSend ==
  ASSUME IInv, NEW s \in Streams, NEW c \in Channels, DrainBatch(s, c)
  PROVE  F!Send(s, c)
<1> DEFINE batch == Settled(Page(c, wm[s][c]))
           sends == {i \in batch \ seen[s][c] : Deliverable(i)}
<1>1. /\ c \in todo[s] /\ UNCHANGED <<log, phase>>
      /\ times' = [times EXCEPT ![s] = [i \in MsgId |-> times[s][i] + (IF i \in sends THEN 1 ELSE 0)]]
  BY DEF DrainBatch, Count, chatVars
<1>2. ChatInv /\ wm[s][c] \in Nat /\ times[s] \in [MsgId -> Nat]
  BY ChatPart DEF IInv, TypeOK
<1>3. s \in Open
  <2>1. phase[s] # "closed"
    BY <1>1 DEF IInv, ClosedIsReset
  <2> QED
    BY <2>1 DEF Open
<1>4. ASSUME NEW i \in sends
      PROVE  i \in F!Sendable(s, c)
  <2>1. i \in Visible(c, wm[s][c]) /\ InReach(i) /\ Deliverable(i) /\ i \notin seen[s][c]
    BY <1>2, SettledIsInReach
  <2>2. /\ i \in Ids /\ log[i].ch = c /\ log[i].sec >= wm[s][c]
        /\ ~log[i].deleted /\ ~Generating(i)
    BY <2>1 DEF Visible, InChannel, InReach
  <2>3. /\ i \in 1 .. Len(Posts)
        /\ Posts[i] = [ch |-> c, sec |-> log[i].sec, ready |-> TRUE]
    BY <1>2, <2>1, <2>2, PostsType DEF Posts, Ids
  <2>4. times[s][i] = 0
    <3>1. i \in MsgId /\ times[s][i] \in Nat
      BY <1>2, <2>2, IdsAreMsgIds
    <3>2. log[i].sec \in Nat
      BY <1>2, <2>2, RowFields
    <3>3. times[s][i] > 0 => log[i].sec <= wm[s][c] /\ (log[i].sec = wm[s][c] => i \in seen[s][c])
      BY <2>2, <3>1 DEF IInv, SentIsSeen
    <3> QED
      BY <1>2, <2>1, <2>2, <3>1, <3>2, <3>3
  <2>5. ASSUME NEW j \in 1 .. Len(Posts), Posts[j].ch = c, times[s][j] > 0
        PROVE  Posts[j].sec <= Posts[i].sec
    <3>1. j \in Ids /\ Posts[j].sec = log[j].sec /\ log[j].ch = c
      BY <1>2, <2>5, PostsType DEF Posts, Ids
    <3>2. j \in MsgId /\ log[j].sec \in Nat /\ log[i].sec \in Nat
      BY <1>2, <2>2, <3>1, IdsAreMsgIds, RowFields
    <3>3. log[j].sec <= wm[s][c]
      BY <2>5, <3>1, <3>2 DEF IInv, SentIsSeen
    <3> QED
      BY <1>2, <2>2, <2>3, <3>1, <3>2, <3>3
  <2> QED
    BY <2>3, <2>4, <2>5 DEF F!Sendable
<1>5. sends \in SUBSET F!Sendable(s, c)
  BY <1>4
<1>6. UNCHANGED <<Posts, Open>>
  BY <1>1 DEF Posts, Open, Ids, Generating, Deliverable
<1> HIDE DEF sends
<1> QED
  BY <1>1, <1>3, <1>5, <1>6 DEF F!Send

LEMMA FeedStep ==
  ASSUME IInv, [Next]_vars
  PROVE  [F!Next]_F!vars
<1>1. ChatInv /\ ChatInv'
  <2>1. IInv'
    BY InvariantStep
  <2> QED
    BY <2>1 DEF IInv, TypeOK, ChatInv
<1>2. CASE UNCHANGED <<log, phase, times>>
  BY <1>2 DEF F!vars, Posts, Open, Ids, Generating, Deliverable
<1>3. CASE Chat
  <2>1. F!Grow
    BY <1>1, <1>3, ChatStepMoves, LogMovesIsGrow DEF Chat
  <2>2. UNCHANGED <<Open, times>>
    BY <1>3 DEF Chat, sessionVars, Open
  <2> QED
    BY <2>1, <2>2 DEF F!Next, F!Publish
<1>4. CASE Crash
  <2>1. F!Grow
    BY <1>1, <1>4, RebootMoves, LogMovesIsGrow DEF Crash
  <2>2. F!End(Streams)
    BY <1>4, EndIsEnd DEF Crash, IInv
  <2> QED
    BY <2>1, <2>2 DEF F!Next, F!Crash
<1>5. ASSUME NEW s \in Streams, NEW q \in Query, Connect(s, q)
      PROVE  F!Next
  <2>1. /\ phase[s] = "closed" /\ phase' = [phase EXCEPT ![s] = "catchup"]
        /\ UNCHANGED <<log, times>>
    BY <1>5 DEF Connect, chatVars
  <2>2. s \notin Open /\ Open' = Open \cup {s}
    BY <2>1 DEF Open, IInv, TypeOK
  <2>3. UNCHANGED Posts
    BY <2>1 DEF Posts, Ids, Generating, Deliverable
  <2> QED
    BY <2>1, <2>2, <2>3 DEF F!Next, F!Connect
<1>6. ASSUME NEW s \in Streams, Disconnect(s)
      PROVE  F!Next
  BY <1>6, CloseIsDisconnect DEF Disconnect, Open, F!Next
<1>7. ASSUME NEW s \in Streams, NEW c \in Channels, DrainBreaks(s, c)
      PROVE  F!Next
  <2>1. s \in Open /\ CloseStream(s)
    BY <1>7 DEF DrainBreaks, IInv, ClosedIsReset, Open
  <2> QED
    BY <2>1, CloseIsDisconnect DEF F!Next
<1>8. ASSUME NEW s \in Streams, NEW c \in Channels, DrainBatch(s, c)
      PROVE  F!Next
  BY <1>8, DrainIsSend DEF F!Next
<1>9. ASSUME NEW s \in Streams, GoLive(s)
      PROVE  UNCHANGED <<Posts, Open, times>>
  <2>1. /\ phase[s] = "catchup" /\ phase' = [phase EXCEPT ![s] = "live"]
        /\ UNCHANGED <<log, times>>
    BY <1>9 DEF GoLive
  <2> QED
    BY <2>1 DEF Posts, Open, Ids, Generating, Deliverable, IInv, TypeOK
<1> QED
  BY <1>2, <1>3, <1>4, <1>5, <1>6, <1>7, <1>8, <1>9 DEF Next, vars, chatVars, sessionVars, F!vars,
     PostResetCursor, Receive, DrainFails

\* Every behaviour of the server is, seen by the workers, a behaviour of Feed:
\* at most once, only settled messages, each channel in order, for any number
\* of channels, writers and streams, any page size and any interleaving.
THEOREM FeedImplemented == Spec => ImplementsFeed
<1>1. Spec => F!Spec
  BY FeedInit, FeedStep, Invariance, PTL DEF Spec, F!Spec
<1> QED
  BY <1>1 DEF ImplementsFeed
=============================================================================
