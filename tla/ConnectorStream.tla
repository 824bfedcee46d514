--------------------------- MODULE ConnectorStream ---------------------------
(***************************************************************************)
(* The read stream of a connector (internal/connectors/stream.go): where a *)
(* worker's SSE stream resumes, how it drains each subscribed channel from *)
(* an inclusive second-granular watermark with a set of ids already seen   *)
(* in the boundary second, and the one cursor it stores when it closes.    *)
(*                                                                         *)
(* It is composed with ChatLog: the handlers and agents that write the log *)
(* run concurrently with every stream of the connector.                    *)
(***************************************************************************)
EXTENDS ChatLog, FiniteSetsExt

CONSTANTS
  Allowed,   \* the connector's allowlist; empty means every channel
  Limit,     \* streamBatchLimit, the rows of one ListAfter (200)
  Window,    \* maxCatchupWindow in seconds (24 h)
  Modes,     \* the query forms workers connect with
  MaxConnects \* bound: how often a worker connects

\* A bare URL, ?live=1, a valid ?since=, a ?since= that does not parse.
QueryModes == {"bare", "live", "since", "badsince"}

ASSUME StreamConstants ==
  /\ Allowed \subseteq Channels
  /\ Limit \in Nat \ {0}
  /\ Window \in Nat /\ Window < Start
  /\ Channels # {}
  /\ Modes \subseteq QueryModes
  /\ MaxConnects \in Nat

VARIABLES
  phase,   \* of each stream's handler: closed, draining the backlog, or live
  wm,      \* per-channel watermark: the second ListAfter starts at
  seen,    \* per-channel ids already handled in the watermark's second
  todo,    \* channels the current drain pass still has to visit
  connects, \* sessions so far, against MaxConnects
  cursor,  \* connectors.cursor_at: NoCursor, 0 (Reset replay), or a second
  from,    \* history: the second the session resumed at
  times,   \* history: how often the session delivered each message
  got,     \* history: messages some session delivered
  prior,   \* history: what sessions had delivered when this one resumed from a
           \* stored position whose second it could seed
  missed   \* history: channels a session failed to load

sessionVars == <<phase, wm, seen, todo, from, times, prior, missed>>
vars == <<chatVars, sessionVars, connects, cursor, got>>

Streams    == Subscribers
NoCursor   == -1
MsgId      == 1 .. MaxMsgs
Subscribed == IF Allowed = {} THEN Channels ELSE Allowed
Open       == {s \in Streams : phase[s] # "closed"}

TypeOK ==
  /\ ChatTypeOK
  /\ phase \in [Streams -> {"closed", "catchup", "live"}]
  /\ wm \in [Streams -> [Channels -> Nat]]
  /\ seen \in [Streams -> [Channels -> SUBSET Ids]]
  /\ todo \in [Streams -> SUBSET Subscribed]
  /\ connects \in 0 .. MaxConnects
  /\ cursor \in Nat \cup {NoCursor}
  /\ from \in [Streams -> Nat]
  /\ times \in [Streams -> [MsgId -> Nat]]
  /\ got \subseteq Ids
  /\ prior \in [Streams -> SUBSET Ids]
  /\ missed \in [Streams -> SUBSET Channels]

NoIds    == [c \in Channels |-> {}]
NoSecond == [c \in Channels |-> 0]
Never    == [i \in MsgId |-> 0]

Init ==
  /\ ChatInit
  /\ phase = [s \in Streams |-> "closed"]
  /\ wm = [s \in Streams |-> NoSecond]
  /\ seen = [s \in Streams |-> NoIds]
  /\ todo = [s \in Streams |-> {}]
  /\ connects = 0
  /\ cursor = NoCursor
  /\ from = [s \in Streams |-> 0]
  /\ times = [s \in Streams |-> Never]
  /\ got = {}
  /\ prior = [s \in Streams |-> {}]
  /\ missed = [s \in Streams |-> {}]

-----------------------------------------------------------------------------
(* Reading the log.                                                        *)

\* ORDER BY created_at, rows of one second in insertion order.
Before(i, j) ==
  \/ log[i].sec < log[j].sec
  \/ log[i].sec = log[j].sec /\ i < j

\* The rows of a channel at or after second t that are not deleted.
Visible(c, t) == {i \in InChannel(c) : log[i].sec >= t /\ ~log[i].deleted}

\* Repo.ListAfter: the first Limit of them.
Page(c, t) ==
  {i \in Visible(c, t) : Cardinality({j \in Visible(c, t) : Before(j, i)}) < Limit}

Generating(i) == log[i].kind = "bot" /\ log[i].gen = "generating"

\* Mutant: bubbles are delivered as they are.
SettledNoHold(page) == page

\* Mutant: a bubble still generating is left out of the batch and holds nothing back.
SettledPassedOver(page) == {i \in page : ~Generating(i)}

\* The prefix of a page before its first bubble that is still generating.
Settled(page) ==
  {i \in page : \A j \in page : Generating(j) => Before(i, j)}

\* deliver: what the filter lets through.
Deliverable(i) == log[i].kind \in {"user", "bot"}

-----------------------------------------------------------------------------
(* Connecting.                                                             *)

WindowStart == clock - Window
Clamp(t) == IF t < WindowStart THEN WindowStart ELSE IF t > clock THEN clock ELSE t

UsesCursor(q) == q.mode \in {"bare", "badsince"} /\ cursor # NoCursor

\* resumeWatermark, truncated to the second. A bound not in the future always
\* lies before time.Now(), which has a fraction: there is a backlog to drain.
ResumeFrom(q) ==
  CASE q.mode = "since" -> Clamp(q.at)
    [] UsesCursor(q)    -> Clamp(cursor)
    [] OTHER            -> clock

CatchUp(q) ==
  \/ q.mode = "since" /\ q.at <= clock
  \/ UsesCursor(q) /\ cursor <= clock

\* Mutant: only a live connect seeds the boundary second.
SeedLiveOnly(q) == ~CatchUp(q)

\* The boundary second counts as delivered for a live connect and for a resume
\* from a stored position, not for a replay the worker or an admin asked for.
SeedBoundary(q) ==
  \/ ~CatchUp(q)
  \/ q.mode = "bare" /\ UsesCursor(q) /\ cursor > 0

Seed(c, t) == {i \in Page(c, t) : log[i].sec = t}

Query == [mode : Modes, at : Second]

\* GetStream up to the first drain. A ListAfter of the seed that fails is passed
\* over: the channel starts with an empty seen set.
Connect(s, q) ==
  /\ phase[s] = "closed"
  /\ connects < MaxConnects
  /\ connects' = connects + 1
  /\ \E unread \in SUBSET Subscribed :
       LET t == ResumeFrom(q)
           seeded == IF SeedBoundary(q) THEN Subscribed \ unread ELSE {}
       IN /\ wm' = [wm EXCEPT ![s] = [c \in Channels |-> t]]
          /\ seen' = [seen EXCEPT ![s] =
                        [c \in Channels |-> IF c \in seeded THEN Seed(c, t) ELSE {}]]
          /\ from' = [from EXCEPT ![s] = t]
          /\ prior' = [prior EXCEPT ![s] =
                         IF q.mode = "bare" /\ cursor > 0 /\ unread = {} THEN got ELSE {}]
  /\ phase' = [phase EXCEPT ![s] = "catchup"]
  /\ todo' = [todo EXCEPT ![s] = IF CatchUp(q) THEN Subscribed ELSE {}]
  /\ UNCHANGED <<chatVars, cursor, times, got, missed>>

-----------------------------------------------------------------------------
(* Draining a channel.                                                     *)

\* Mutant: the watermark never moves.
LatestStuck(t, S) == t

Latest(t, S) == Max({t} \cup {log[i].sec : i \in S})

\* Mutant: the comparison misses the watermark's own second.
BoundaryMissed(batch, t) == {i \in batch : log[i].sec > t}

\* The boundary second's ids after a batch that moved the watermark to t.
Boundary(batch, t) == {i \in batch : log[i].sec = t}

\* Mutant: one batch per pass.
LastBatchAlways(page, batch, fresh) == TRUE

\* The loop ends at a held bubble, a short page, or a page with nothing new.
LastBatch(page, batch, fresh) ==
  \/ batch # page
  \/ Cardinality(page) < Limit
  \/ fresh = {}

Count(s, sent) ==
  /\ times' = [times EXCEPT ![s] = [i \in MsgId |-> @[i] + (IF i \in sent THEN 1 ELSE 0)]]
  /\ got' = got \cup sent

\* One iteration of drainChannel's loop. The channels of a pass do not share
\* state, so the order the map yields them in is left open.
DrainBatch(s, c) ==
  /\ c \in todo[s]
  /\ LET page  == Page(c, wm[s][c])
         batch == Settled(page)
         fresh == batch \ seen[s][c]
         t     == Latest(wm[s][c], batch)
     IN /\ IF page = {}
           THEN UNCHANGED <<wm, seen>>
           ELSE /\ wm' = [wm EXCEPT ![s][c] = t]
                /\ seen' = [seen EXCEPT ![s][c] = Boundary(batch, t)]
        /\ Count(s, {i \in fresh : Deliverable(i)})
        /\ todo' = IF LastBatch(page, batch, fresh)
                   THEN [todo EXCEPT ![s] = @ \ {c}] ELSE todo
  /\ UNCHANGED <<chatVars, phase, connects, cursor, from, prior, missed>>

\* ListAfter fails: the stream stays open and waits for the next ping.
DrainFails(s, c) ==
  /\ c \in todo[s]
  /\ todo' = [todo EXCEPT ![s] = @ \ {c}]
  /\ missed' = [missed EXCEPT ![s] = @ \cup {c}]
  /\ UNCHANGED <<chatVars, phase, wm, seen, connects, cursor, from, times, prior, got>>

\* The handler's local state is gone.
EndSessions(S) ==
  LET End(f, v) == [s \in Streams |-> IF s \in S THEN v ELSE f[s]] IN
    /\ phase'   = End(phase, "closed")
    /\ wm'      = End(wm, NoSecond)
    /\ seen'    = End(seen, NoIds)
    /\ todo'    = End(todo, {})
    /\ from'    = End(from, 0)
    /\ times'   = End(times, Never)
    /\ prior'   = End(prior, {})
    /\ missed'  = End(missed, {})

\* The furthest second over all channels.
Furthest(s) == Max({wm[s][c] : c \in Subscribed})

\* The deferred calls of GetStream: store the cursor (the write may fail, which
\* is only logged) and leave the bus.
CloseStream(s) ==
  /\ cursor' \in {cursor, Furthest(s)}
  /\ Unsubscribe(s)
  /\ EndSessions({s})
  /\ UNCHANGED <<clock, log, writer, connects>>

\* The connection breaks in the middle of a batch: a prefix of it was written,
\* neither the watermark nor the seen set moved.
DrainBreaks(s, c) ==
  /\ c \in todo[s]
  /\ LET sends == {i \in Settled(Page(c, wm[s][c])) \ seen[s][c] : Deliverable(i)}
     IN \E last \in sends : got' = got \cup {i \in sends : Before(i, last)}
  /\ CloseStream(s)

\* The worker goes away, or a frame cannot be written.
Disconnect(s) ==
  /\ phase[s] # "closed"
  /\ CloseStream(s)
  /\ UNCHANGED got

\* The backlog is flushed and the live frame written: only now does the stream
\* subscribe to the bus.
GoLive(s) ==
  /\ phase[s] = "catchup"
  /\ todo[s] = {}
  /\ phase' = [phase EXCEPT ![s] = "live"]
  /\ Subscribe(s)
  /\ UNCHANGED <<clock, log, writer, wm, seen, todo, connects, cursor, from, times, prior,
                 got, missed>>

\* Mutant: the empty ping is looked up like a channel id.
TargetsById(p) == {p} \cap Subscribed

\* The subscribed channels a ping makes the stream drain.
Targets(p) == IF p = AnyChannel THEN Subscribed ELSE {p} \cap Subscribed

\* One turn of the select loop: a ping names the channels to drain.
Receive(s) ==
  /\ phase[s] = "live"
  /\ todo[s] = {}
  /\ box[s] # <<>>
  /\ todo' = [todo EXCEPT ![s] = Targets(Head(box[s]))]
  /\ box' = [box EXCEPT ![s] = Tail(@)]
  /\ UNCHANGED <<clock, log, writer, subscribed, phase, wm, seen, connects, cursor,
                 from, times, prior, got, missed>>

\* Admin "Reset replay".
PostResetCursor ==
  /\ cursor' = 0
  /\ UNCHANGED <<chatVars, sessionVars, connects, got>>

\* The chat half of the system moves.
Chat ==
  /\ ChatStep
  /\ UNCHANGED <<sessionVars, connects, cursor, got>>

\* A process crash: no deferred call runs, so the cursor stays where it was.
Crash ==
  /\ Reboot
  /\ EndSessions(Streams)
  /\ UNCHANGED <<connects, cursor, got>>

Next ==
  \/ Chat
  \/ Crash
  \/ PostResetCursor
  \/ \E s \in Streams :
       \/ \E q \in Query : Connect(s, q)
       \/ GoLive(s) \/ Receive(s) \/ Disconnect(s)
       \/ \E c \in Channels : DrainBatch(s, c) \/ DrainFails(s, c) \/ DrainBreaks(s, c)

Spec == Init /\ [][Next]_vars

-----------------------------------------------------------------------------
(* Correctness.                                                            *)

Delivered(s, c) == {i \in InChannel(c) : times[s][i] > 0}

\* One session delivers no message twice, whatever is inserted late, deleted or
\* flushed between two reads of the inclusive boundary second: the seen set of
\* drainChannel is exactly the dedupe the watermark needs.
NoDuplicates == \A s \in Open, i \in Ids : times[s][i] <= 1

\* No watermark moves past a message that is in the log, however late it came: the
\* session has sent it, or sends it in this step; only the rows seeded in the resume
\* second count as sent. What a live stream misses was inserted behind its watermark.
WatermarkSkipsNothing ==
  [][\A s \in Open, c \in Subscribed : \A i \in InChannel(c) :
       (/\ wm[s][c] <= log[i].sec /\ log[i].sec < wm'[s][c]
        /\ from[s] < log[i].sec \/ i \notin seen[s][c]
        /\ Deliverable(i) /\ ~log[i].deleted) => times'[s][i] > 0]_vars

\* A session sends a channel's messages in the order of their seconds: no drain
\* goes back behind what an earlier drain of the channel sent.
InOrder ==
  [][\A s \in Open, c \in Channels : \A i \in Delivered(s, c), j \in Ids :
       (log[j].ch = c /\ times'[s][j] > times[s][j]) => log[i].sec <= log[j].sec]_vars

\* No placeholder goes out: a delivered bubble has its final body. Its body is
\* never sent again, so an empty one would stay empty for the worker.
DeliveredIsSettled == \A s \in Open, i \in Ids : times[s][i] > 0 => ~Generating(i)

\* A worker that resumes from its stored position is not sent again what any
\* session of the connector had delivered by then, at or before the resume second.
NoRedeliveryOnResume ==
  [][\A s \in Open, i \in Ids :
       (times'[s][i] > times[s][i] /\ log[i].sec <= from[s]) => i \notin prior[s]]_vars

\* A finished pass over a channel leaves nothing to send in it, a bubble still
\* generating and what stands behind it apart.
PassCatchesUp ==
  [][\A s \in Open, c \in Subscribed :
       (DrainBatch(s, c) /\ c \notin todo'[s])
         => Settled(Visible(c, wm'[s][c])) \subseteq seen'[s][c]]_vars

-----------------------------------------------------------------------------
(* The stream implements Feed.                                             *)

\* The log as a worker could see it.
Posts == [i \in Ids |-> [ch |-> log[i].ch, sec |-> log[i].sec,
                         ready |-> Deliverable(i) /\ ~Generating(i) /\ ~log[i].deleted]]

F == INSTANCE Feed WITH
       Sessions <- Streams, Messages <- MsgId, posts <- Posts, open <- Open, sent <- times

\* Watermarks, pages, seen sets and pings are a way to do what Feed describes:
\* every step of the server is a step of the feed or none.
ImplementsFeed == F!Spec

-----------------------------------------------------------------------------
(* Progress.                                                               *)

\* An open stream reads its buffer and drains. Of the writers nothing is assumed: a
\* provider that fills a bubble has no deadline.
Fairness ==
  \A s \in Streams :
    /\ WF_vars(GoLive(s)) /\ WF_vars(Receive(s))
    /\ \A c \in Channels : WF_vars(DrainBatch(s, c))

FairSpec == Spec /\ Fairness

\* A ping that reached the buffer of a live stream, for message i.
Announced(s, i) ==
  /\ i \in Ids /\ phase[s] = "live"
  /\ \E c \in Subscribed :
       /\ \E k \in 1 .. Len(box[s]) : box[s][k] \in {c, AnyChannel}
       /\ i \in Settled(Visible(c, wm[s][c])) \ seen[s][c]
  /\ Deliverable(i)

\* An announced message that no generating bubble holds back is delivered,
\* unless it is deleted, the load fails, or the stream ends.
AnnouncedIsDelivered ==
  \A s \in Streams, i \in MsgId :
    Announced(s, i) ~> \/ times[s][i] > 0
                       \/ phase[s] # "live"
                       \/ i \in Ids /\ (log[i].deleted \/ log[i].ch \in missed[s])
=============================================================================
