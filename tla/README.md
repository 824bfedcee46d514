# TLA+ models of forumchat

forumchat is a single-binary community platform in Go: one SQLite database with a
single writer connection (WAL), in-process buses for realtime fan-out (with an
optional NATS bridge to other processes), server-sent-event streams for browsers and
for machine clients, and a handful of background loops. This directory holds
specifications of the parts of it whose correctness depends on the order in which
several goroutines, requests, crashes and failing statements come, the TLC
configurations that check them on small instances, and TLAPS proofs of what holds for
every value of the constants.

    cd tla
    tlc -workers 2 -config StreamSession.cfg MCConnectorStream.tla
    tlapm ConnectorStreamProofs.tla

`PROJECT.json` lists, machine-readably, the components, the runs, the source lines
behind every definition (`map`), the hazards of the code and the properties that are
aimed at them, for each property a plausible bug that breaks it (`mutants`: operators
whose comment starts with "Mutant"), and the disagreements between code and
documentation that the models exhibit (`findings`).

## 1. The system

Paths are below `src/internal` unless they say otherwise.

| part | state | operations | talks to |
|---|---|---|---|
| chat log and bus (`chat`) | `chat_messages`, channels, read marks; the `Bus` of 16-slot subscriber buffers | send, forward, edit, delete, promote; `ListAfter`, `listBefore` | every stream (bus), agents, webhooks, RAG triggers |
| chat agents (`chatagents`) | one run per (channel, agent); the bubble row | dispatch on mention, generate, flush every ~100 ms, boot sweep | chat, agent, limits |
| connectors (`connectors`) | connector row: secret, allowlist, capabilities, cursor; the open stream's watermarks and seen sets | signed SSE read stream, signed POSTs, admin CRUD, Reset replay | chat log and bus, uploads |
| data export (`dataexport`) | `community_exports`, `exports/*.zip` | request, claim, build, mark, sweep, download | community (cascade), uploads |
| RAG index (`rag`) | `embed_outbox` filled by triggers, the vector store | drain loop, reindex, query | every content table |
| rooms (`rooms`) | in-memory members, pending, admin, heartbeats; persisted admin, public flag, invites, chat | join, approve, leave, promote, sweep, reset | presence, signalling inboxes |
| agent runner (`agent`, `aiusage`) | one generation per thread; assistant row; usage ledger | start, stop, flush, meter | providers, SSE streams |
| limits (`agentlimit`, `sselimit`) | sliding windows per key; slots per user | check-and-record, acquire, release | chat, agents, streams |
| mailbox (`mailbox`) | UID cursor per folder, ingest rows | poll, match, insert, auto-issue | IMAP, projects |
| billing (`billing`) | claimed event ids, subscription status | webhook | Stripe, community |
| uploads, webhooks, push, private messages, forum, projects, todos, notes, pastes, lobbies, presence, time budget | rows; small in-memory maps | request-scoped CRUD, sweeps, relays | chat, bus |
| auth, invites, send tokens, community, moderation, provisioning, admin pages | rows | request-scoped CRUD, one-time tokens | everything |
| config, httpx, natsx, netguard, secretbox, storage, search, render, `cmd/app` | none of their own | wiring, conversion | |

What makes these parts hard, and where:

* **Two clocks of one log.** A message is ordered by a `created_at` of whole seconds
  that is read *before* its insert, while streams follow the log by an inclusive
  second watermark. Late inserts, many rows in one second, deletions and pages of
  bounded length meet in `drainChannel`.
* **A row that changes after it was inserted.** An agent's bubble is inserted empty and
  filled by another goroutine.
* **One cursor for many channels**, written only when a session closes.
* **Best-effort pings.** A full buffer drops them, and the subscription starts only
  after the backlog was read.
* **Statements that are not one transaction**: select-then-update claims, a file and
  its row, a live admin and its persisted copy, an event claim and its handling.
* **Goroutines that die with the process** while the rows they were working on stay.

Properties that make the parts correct, all of them checked here:

* a **stream** delivers each message once, in order, only when it is complete, moves no
  watermark past a message it has not sent, does not repeat itself on resume and answers an
  announced message; all of it together is what `Feed` says and the stream implements;
* an **export** is unique per community, built by one worker, downloadable only with its
  file, never goes back in its lifecycle and is picked up;
* a row the **vector index** has no job for is indexed as it is, whatever the worker's
  retries and crashes, and every job gets done;
* a **room** that has a user in it has an admin who is in it, leaves nothing of its people's
  settings, links and chat to the next ones, and is reset when everybody just closed the tab;
* a **mail** has one row and one issue, is not left behind by the cursor, keeps the community it
  was routed to, and is stored;
* an **agent** answers one question of a thread at a time, what it writes is settled by the
  generation that owns it, a stop is a stop, and every stream comes to show the thread;
* a **subscription** gives access only after that very one was reported paid or in good standing, each
  event is applied once, and, unless a save has put older columns back, the row is of the subscription
  linked last and says what the last event handled of that one says.

## 2. Modules

| module | models | extends |
|---|---|---|
| `ChatLog` | the log, its writers, the bus, process reboot | standard modules |
| `ConnectorStream` | the read streams of one connector, composed with the log | `ChatLog` |
| `Feed` | what such a stream promises: the abstract specification `ConnectorStream` implements | standard modules |
| `DataExport` | owner, drain loops, sweep, community deletion, crashes | standard modules |
| `RagOutbox` | content rows, their triggers, the outbox, the embedding worker, reindexing | standard modules |
| `Rooms` | a room's live state under its lock, its record, the janitor, the reset | standard modules |
| `Mailbox` | IMAP folders, the poll worker, the filter cache, the admins' filters and issues | standard modules |
| `Agent` | one thread: requests, the generation, stop, delete, streams, the boot sweep | standard modules |
| `Billing` | Stripe, the webhook goroutines, the settings pages, one community's row | standard modules |
| `...Proofs` (of all but `Feed`) | theorems | the above, TLAPS |
| `MC...` | constants, symmetry sets and a state constraint for TLC | the above |

The modules share no variable with each other except `ChatLog` and `ConnectorStream`; in
the code they meet in the database, whose statements are atomic and serialised by the single
writer connection, and in the buses.

### ChatLog

`log` is `chat_messages` in insertion order; an id is a position in it. A writer is a
goroutine between two of its statements: *stamped* (the message is built and
`time.Now()` read, `Service.Send`), *inserted*, *generating*, *flushed*. `Stamp`,
`Insert`, `Announce`, `FlushPartial`, `FlushFinal` follow the code's order, so anything
may come between a stamp and its insert, or an insert and its broadcast. `Broadcast`
drops a ping when a buffer holds `QLen` of them. `Reboot` is a process death followed by
the boot sweep of `cmd/app/main.go`, which the code runs only with AI enabled, the
configuration in which bubbles exist.

Kinds are abstracted to what the streams tell apart: `user` (anything deliverable that
is born complete, webhook rows too), `bot` (a bubble), `own` (what the filter skips: the
connector's own posts, system rows, no mention under mentions-only).

Abstractions: rows of one second are read in insertion order (SQLite returns them by
rowid when the sort key ties); a deletion and its broadcast are one step, because its
ping leads to no delivery; edits do not change what is delivered once and are left out;
the NATS bridge duplicates pings of the bus and adds no new kind of ping.

### ConnectorStream

A stream is *closed*, draining its backlog (*catchup*) or *live*. `Connect` is
`GetStream` up to the first drain: it computes the resume second (`ResumeFrom`, the
translation of `resumeWatermark` for a bare URL, `?live=1`, a valid and a malformed
`?since=`), seeds the boundary second unless its load fails, and lists the channels of
the backlog. `DrainBatch` is one iteration of `drainChannel`'s loop: a page, the settled
prefix of it, the frames, the new watermark and the new seen set. `GoLive` subscribes to
the bus, `Receive` takes one ping. `CloseStream` holds the deferred calls; `DrainBreaks`
is a connection that breaks inside a batch after a prefix of its frames;
`DrainFails` a failed load. `Crash` runs no deferred call. `PostResetCursor` is the
admin's "Reset replay".

`Connect`'s gates (signature, membership) decide whether a stream exists and are outside;
the allowlist is the constant `Allowed`. *Delivered* means that the frame was written.
The variables marked *history* are not read by any guard. `prior` is what all sessions of the
connector together had delivered when this one resumed from a stored position whose boundary
second it could seed; it is empty for any other connect, which promises nothing about the past.

### DataExport

`row`, `zip` and `part` are what survives a crash: the table and the directory.
`Select` and `Claim`/`ClaimRaced`/`ClaimLost` are the two statements of `NextPending` (the
`SELECT` and the `UPDATE`, and the `Get` after it that may fail), `Place` the build up to the
rename, `MarkReady`, `Fail` and their failures the end of `Build`. The sweep reads its
victims once, and then removes a file and marks its row in two steps. `DeleteCommunity`
cascades to the rows and leaves the directory alone; a community id may be used again
afterwards, which is harmless here. `Workers` are the drain loops of all processes that
share the database.

### RagOutbox

`row` is a content row of any kind, reduced to its version and to whether it is public;
`Content` is what `LoadDoc` and `chunk` make of it, gated by the project for the rows in
`Children`. Each write carries its trigger (`Enqueue` in the same step, since a trigger runs
in its statement's transaction); an upsert on the queue keeps the seq of a queued job and
overwrites its op. `Dequeue`, `Take`, `Load`, `Purge` or `Embed` and `Add`, and `Ack` are
the worker between two of its calls, so a write may come anywhere between them. `Embed` and
`Add` are the two halves of the store's `Upsert`, which deletes before it adds. `Abort` is
an error, a shutdown or a crash at any point: the batch is forgotten, the queue is not.
`Reindex` is the admin's `ReindexAll` or the command line's queue-only form, `EnqueueAll`
one of its statements, narrowed to a row; `ReindexFails` ends it early.

The map names the chat triggers for `Enqueue`, `Insert`, `Change` and `Remove`; the other
kinds have the same three, with their own condition for an insert. A shared assistant thread
queues each of its answers again, which is a `Change`. `lost` is a history variable: the rows
whose last change nothing will read. It collects three things the code does: a row changed
between its load and its acknowledgement, the rows of a project whose visibility changes, and
the rows a failed reindex did not reach.

### Feed

`Feed` knows posts, open sessions and what each session has sent, and nothing of
watermarks, pages, seen sets or the bus. Posts grow at the end and may become ready or be
withdrawn. A session sends any set of ready posts of a channel that it has not sent and that
are not older than one it has. The mapping in `ConnectorStream` takes `posts` from the log (ready is
a deliverable, settled, undeleted row), `open` from the streams that are not closed and `sent` from the
history `times`.

### Rooms

`admin`, `members`, `pending`, `before` (the order of `JoinedAt`) and `silent` are the
`liveRoom`; each step on them is one critical section of `State`. `owner`, `public`, `invites`
and `chat` are the record. A request is a goroutine (`job`) that goes from statement to
statement carrying what it has read: `JoinAuth` reads `is_public` before it takes the lock,
`SetAdmin` writes the admin after the lock is released, `TogglePublic` and `CreateInvite` check, read and
write, `Leave` and the janitor's `Sweep` reset an emptied room in four statements, each of which
may fail because the code drops their errors. `stray` is a history variable: what was written
into a room after it had emptied, or left by a failed statement or a crash.

### Mailbox

`box` and `validity` are the IMAP server, `folder` the cursors, `ingest` the stored mails with
their issues, `cache` the list of filters in memory. `w` is the worker between two of its calls:
a cycle reads the filters, scans a folder (`Scan` is the `UpsertFolder`, the comparison with the server and
the fetch of the envelopes), and goes mail by mail through match, insert, issue and link to the save of the
cursor. `job` are the admin requests: creating a filter backfills, deleting one releases its
rows (`ON DELETE SET NULL`), applying one to the past makes issues by the same check, create, link
as the worker. Faults are failing statements and IMAP calls, renumbered folders, rescans
and crashes. `failed` and `strayed` are history variables that name the exceptions the
code makes: a mail whose own match or insert failed, a mail whose issue was made by two at once or
was not linked.

### Agent

One thread with its assistant rows, `active` the entry of `Runner.active`, `runs` the generations,
`req` the request goroutines, `viewer` the SSE streams with their one-slot subscription.
`PostSend` and `PostRegenerate` look whether a generation runs, write the placeholder or
empty the last answer, and call `Start`, which looks again under the lock: two of them may both come as
far as `Start`, and one of them is refused after it has written. A generation alternates turns
and tools; `Outcomes` is the switch that looks at the context before the error. A row that a
failing statement leaves generating is in `orphaned` (history); nothing but the boot sweep
settles it, although the comment of `Runner.run` speaks of the caller's placeholder as always taken up.
Two answers of one second are ordered by insertion here, by random id in the code. The POST response
carries the same stream as `GetStream` and is not repeated; the NATS bridge adds wake-ups.

### Billing

`stripe` and `events` are what Stripe knows and has sent, at least once and in any order;
`hook` are the webhook goroutines between claim, lookup, apply and release, `row` the
community's settings. `Old` is a subscription from before the community id was stamped on
subscriptions, which is found by its customer. `Overlay` is what the platform pages change in the
row they have loaded; `Settings` loads and `SaveSettings` writes back *every* column. `lost`
(history) collects the events whose claim or 200 outlived a failure, `overwritten` that a save
has put older Stripe columns back and no checkout has rewritten them since. Statuses are reduced to
whether they grant access. The payment of a checkout session is a field of its own and is chosen freely:
a trial or a delayed payment completes its checkout without being `paid` while the subscription is in
good standing. What a request makes of the row it has loaded is chosen when it saves, for it reads
nothing in between.

## 3. Runs

Bounds are small because each property concerns one channel (or two, for the cursor),
one boundary second, one page, one room, one thread: what matters is that a limit is exceeded or that
actors meet.

| run | instance, and why it is enough | question | result |
|---|---|---|---|
| `stream_session` | two writers, three messages, two per second, a buffer of one, pages of two, inserts up to one second late | types, no duplicates, settled bodies, order, no watermark past an unsent message, and the refinement of `Feed` | holds |
| `stream_resume` | two sessions in sequence, three ways to connect, crash, Reset, deletion, failing seed load (sessions that overlap are covered by the theorem) | nothing delivered at or before the resume second comes again | holds |
| `stream_progress` | three messages, pages of two, then live; no late insert, one row per second | a pass catches up, under a fair stream an announced message is delivered | holds |
| `export` | two communities, exports and drain loops, a horizon beyond the expiry, one crash | safety, and that a queued export is claimed | holds |
| `rag` | two rows, one of them gated, a batch of one, so that a job waits behind another; two writes, so that a row changes in hand; one reindex or gate | a row without a job is indexed as it is, every job is done | holds |
| `rag_lost_update` | one row, two writes | comment: the index is eventually consistent, bounded by the interval | violated |
| `rooms` | two users and a guest for two places, two request goroutines and the janitor, one link, four requests | types, admin, empty room | holds |
| `rooms_progress` | the same, three requests, fair | an abandoned room is reset | holds |
| `mailbox` | one folder, two mails (one without Message-ID), an address and a domain filter, one admin, one fault | one row, cursor, one issue, routing, and that mail is stored | holds |
| `agent` | two requests, one stream, two answers, three generations, one fault | one generation, owned rows, stop, no late write, streams catch up | holds |
| `billing` | an old and a new subscription, four events, two webhook goroutines, one settings request, one fault | applied once, access was paid, shown state, the row is the last report, and that events are handled | holds |
| `billing_stale_save` | one webhook goroutine, one settings request, no fault | comment: the webhook is the sole authority on subscription state | violated |

`Window` is smaller than the clock's range so that the clamp cuts. Constraint `SessionAhead`
stops exploring the chat after the last session is over. One fault is enough to meet each
failing statement and each crash at every point; two would only combine exceptions the
history variables already name. Deadlock is checked for the streams, the exports and the mailbox, where
something can always happen again; it is off where the bounded requests, writes or events
run out.

### Where code and documentation disagree

Two disagreements are runs of their own. (1) `rag_lost_update`: `Ack` deletes a job by its seq, which a
later change of the row has been coalesced into, so that change is never indexed. (2)
`billing_stale_save`: a settings page that loaded the row before a webhook and saves it
after puts the Stripe columns back, and the event stays claimed.

Others were met on the way and show as the exceptions the properties name, or as bounds:

* A row inserted a second after its stamp lies behind the watermark of a stream that has read a
  newer row and is never sent to it (`WatermarkSkipsNothing` says that nothing else is missed). A bubble
  inserted that late can also hold back, in the next page, a message that was already announced:
  `AnnouncedIsDelivered` fails with `MaxLag = 1` and two writers, hence `MaxLag = 0` in `stream_progress`.
* A second with as many rows as a page holds stops its channel for the session
  (`PerSecond = 1` against `Limit = 2`; with three rows in a second, `AnnouncedIsDelivered` fails),
  although the comment at `connectors/stream.go:310` says that the next event re-drains it.
* The stored cursor is the furthest second over all channels, so a session that ends inside
  its catch-up makes the next bare reconnect skip what `docs/connectors.md:111` promises to replay.
* Nothing selects a `building` export again, and it blocks its community's further exports
  (`dataexport/service.go:50` calls `Build` "idempotent enough to retry").
* The ZIP of a deleted community stays on disk: the sweep finds files through rows that
  cascade (`00057_community_exports.sql:12` says it is swept on expiry).
* `rooms.admin_user_id` goes on naming an admin who left only guests behind
  (`rooms/types.go:20`: "empty when no admin / room idle").
* A filter list read before an invalidation and stored after it stays until the next one.
* A mail whose match or insert fails is passed by the cursor; a crash between a mail and its
  issue leaves it without one.
* A placeholder whose request fails after it, or is refused by `Start`, stays generating until
  the next boot.
* A checkout that is not `paid` writes an empty status over what a lifecycle event of its
  subscription has set, when it is handled after it: access stays off until the next lifecycle event. The comments at
  `billing.go:174-179` and `platform_ai.go:110-116` have the lifecycle event come second ("flips it to active
  once Stripe confirms payment"). `RowIsLastReport` describes it; `RowMirrorsStripe` has to exclude it.
* A claim whose release fails, a redelivery that meets a claim in use, and a failing customer
  lookup answered as "not ours" (`billing.go:204`, before the `return err` meant for it) lose an
  event.

### Fairness

`ConnectorStream!Fairness`: an open stream goes live, reads its buffer and drains. Nothing is
assumed of the writers (a provider that fills a bubble has no deadline), of connecting,
disconnecting, deletions or the clock. `AnnouncedIsDelivered` is about messages no
generating bubble holds back and allows for the stream ending, the load failing and the message being
deleted: these are the only ways out.

`DataExport!Fairness`: the two tickers tick, so `Select`, `Sweep` and the steps after
them come; a claim is strongly fair because its `UPDATE` may fail on a busy database any
number of times, but not for ever. `Crash` is bounded and never fair.

`RagOutbox!Fairness`: the ticker ticks; the steps of a job are strongly fair, for each of
them may fail any number of times (the embedder is down, the database is busy) but not for
ever. A row that fails every time is outside this assumption: it stays at the head of the
queue and blocks the rest, as the comment of `tick` says.

`Rooms!Fairness`: request goroutines run on and the janitor's ticker fires. Nobody has to join,
ping or leave. `Mailbox!FairSpec`: the poll ticker fires and the worker goes on,
with every folder of a cycle in its turn; the requests need not, faults are bounded, mail need not arrive. `Agent!FairSpec`: requests, streams, and the parts of a
generation that need nobody else are fair. A provider or a tool may hang, for the code gives them no deadline,
so a turn has to end only once it is stopped. `Billing!FairSpec`: Stripe delivers an event again
until it is answered with 200, and requests run on.

## 4. Proofs

All theorems assume only the named assumptions of the modules: constants are finite where the
code's sets are finite, bounds are natural numbers, the batch limit is positive, the
window does not reach before the first second.

Every safety and action property of a passing run is also a theorem of its specification.

`ConnectorStreamProofs` proves `TypeOK`, `NoDuplicates`, `DeliveredIsSettled`, `InOrder`,
`NoRedeliveryOnResume`, `WatermarkSkipsNothing` and `ImplementsFeed` for any number of channels, writers,
streams, sessions, any lag of an insert, any page size; `PassCatchesUp` under one
assumption (below). `NoDuplicates` is not inductive. What makes it so is `SentIsSeen`: a row the
session has sent lies before the watermark's second, or it lies in that second, is in the
seen set, and is *in reach*: on the first page of the inclusive query, before
the first generating bubble. Reach is what a later batch needs to put the row into the
rebuilt seen set again. It is stable because the log only grows at its end (later
inserts of the second sort behind), because deletions only move rows forward, and because a
bubble that was settled stays settled; a row that is deleted is never read again.
The lemmas `InReachIsStable` (the chat moves), `InReachIsSettled` and `SettledIsInReach` (a batch
is drained) are that argument; the order property follows because what lies before
the watermark's second is not read. `FeedImplemented` rests on the same invariant: a batch is a
`Send` of rows that are ready, unsent and not older than what was sent; every other step is a
`Publish`, an opening, an ending or a stutter.

* *Resuming* (`NoRedeliveryHolds`). What any session has ever sent is in reach, or deleted
  (`GotInReach`), so the seed of the boundary second contains it, and a later drain of that second
  keeps it in the seen set (`PriorIsSeen`); what lies before is not read (`FromBehind`). Where the
  cursor stands is not part of the argument: it does not matter which of several overlapping sessions
  stored it last, nor that an admin resets it.
* *Passes* (`PassCatchesUpHolds`, assuming `PerSecond < Limit`: no channel has a page of rows, 200
  in the code, within one second). A page that is not full is the whole channel
  (`ShortPage`: of the rows off the page, one with the fewest rows before it would have a full page before it);
  a page with a held bubble holds everything behind it back; a full page with nothing new lies
  within the seen set, which is one second of one channel (`SeenIsBoundary`), and `SecondsFit` bounds
  that second, stamps that wait for their insert included. Without the assumption the pass ends
  at such a second and the rest of the channel waits behind it: the batch limit of the code is an
  assumption about its load.
* *Gaps* (`WatermarkSkipsNothingHolds`, no assumption). Whatever the lag, no watermark moves
  past a message that is in the log unless the session has sent it: all that comes before a row of the
  batch is in the batch (`BatchIsPrefix`), and beyond the resume second the seen set holds what was sent
  (`SeenIsSent`); in the resume second it may also hold the seed, which the property excepts. What is missed
  was therefore inserted behind a watermark. That does happen, for a send stamps its message and then waits
  for the single writer connection: it is the hazard listed at `chat.go:1180`, and no theorem
  assumes it away.

`DataExportProofs` proves `TypeOK`, `OneActive`, `ClaimIsExclusive`, `ReadyHasFile` and
`StatusMovesOn`. The inductive invariant adds that active rows are unique (`ActiveIsUnique`),
that a worker that has placed its archive has a file (`PlacedHasZip`), and that what the sweep
holds has expired or is gone and cannot become ready again (`VictimsAreDead`); the last is
why removing a file before marking its row is safe.

`RagOutboxProofs` proves `TypeOK` and `IndexAgrees`. The bound of the batch is a fact about
`ORDER BY seq LIMIT n`: a set of jobs in which each has fewer than n before it has at most n members
(`OldestIsBounded`, from the greatest of them). An acknowledgement names its job by seq alone, so
the invariant first says that a seq names one job (`SeqIsUnique`) and that what the worker
holds is still queued under its seq, each row once (`HeldIsQueued`); then an `Ack` removes
the job of the row that was indexed and no other. `DeletedIsGone` is why a stale delete in a
batch is harmless: ids are not used again. `HeldIsCurrent` follows the content from the load
to the store, and `Agrees` allows for a drop whose row is still to be queued.

`RoomsProofs` proves `TypeOK`, `AdminOfRoom` and `EmptyIsDefault`. Their conjunction is
inductive: a step changes the live room with its lock held, or one part of the record. That an heir exists needs
the order of arrivals (the set of members is finite, `Heirs` of users is a choice among them).

`MailboxProofs` proves `TypeOK`, `OneRowPerMail`, `CursorCovers`, `RoutingSticks` and
`OneIssuePerMail`. The cursor needs
`ScanOK`: during a scan every mail up to the candidate cursor is stored or has failed, except the one in
hand, and the envelopes still to be visited are those beyond it without a gap; and `SeenOK`, the
table never runs ahead of the server's numbering, so what a renumbering makes obsolete is not mistaken
for the present. One issue per mail, for any number of administrators who apply filters at once,
needs to know who is at a row (`IssuesInv`): of the worker and the requests at most one has a row that
has not strayed, where it stands between the check and the link says whether the row's issue exists
already, and a row in no hand has none or a linked one, which is what the next check looks for.

`BillingProofs` proves `TypeOK`, `EventAppliedOnce`, `AccessWasPaid`, `AuthorizedIsActive` and
`RowIsLastReport`. Settings
pages carry copies of the row across other steps, so the invariant speaks of every copy as of the row itself
(`CopiesOK`): a status that grants access was reported paid for that subscription (`PaidFor`), and an
authorised row is shown active (`ShownActive`). What a save puts back was true once and, for
these two properties, once is enough. `RowIsLastReport` is about the columns as they are now, so it holds while
no save has put older ones back, for any order of deliveries, lost events included. `Followed` strengthens it: before
the first event the row is of no subscription, and once linked its customer is that of its
subscription. A checkout makes the row its own; a lifecycle event of the row's subscription
sets what it says, one of another changes nothing and is not the last of the row's. An event
acknowledged because its customer is not linked is one of the old subscription (`LookupOK`),
which has events only if it was linked from the start (`OldLinked`), so another one has replaced it.
`RowMirrorsStripe` draws the conclusion about Stripe itself: it names what deliveries must do for
the row to be right, namely that the newest checkout is the last checkout handled and the newest lifecycle event of its
subscription the last of its events, its checkout included (`StripeIsLatest`: that event says what Stripe says). Stripe promises
no order, so this is a condition and not a property of the code.

`AgentProofs` proves `TypeOK`, `OneGeneration`, `GeneratingIsOwned`, `StopIsObeyed` and `NoLateWrite`, for
any requests and streams. The generation in flight is the last one that was started (`ActiveIsLast`): only
`Start` appends, and it appends when there is none. One that has settled knows its outcome, and one that was
stopped in time settles as interrupted (`EndIsKnown`); until it has settled, the row it writes is
generating (`AtWork`), which is why a stop that comes in the middle contradicts nothing that is already
recorded. `BoundsOK` counts the requests that may yet add a row or a generation.

Only model-checked: liveness (`AnnouncedIsDelivered`, `PendingIsClaimed`, `JobIsDone`,
`AbandonedIsReset`, `MailIngested`, `StreamCatchesUp`, `EventIsHandled`), which is out of the
prover's reach here.

## 5. Not modelled

`PROJECT.json` lists every part with its status and reason. Most of the repository's lines are
generated page templates, the handlers that fill them, migrations, tests and wiring (`main.go` alone
has three thousand lines of it): a request there is one transaction followed by a page, and unit tests reach
it. What remains and would be worth a module:

1. `ChannelRunner`: which agent answers a channel message (dispatch, cooldown, the busy map),
   composed with `ChatLog`.
2. `Connector`: registry, rotation and membership, composed with `ConnectorStream`.
3. The upload sweep, which lists unreferenced files and deletes them one by one while a message
   may come to refer to one.

Theorems worth proving next: with those modules, that a channel's bubbles never outnumber its
dispatches, and that the union of what the sessions of one connector deliver is what its
allowlist allows at the time of each connect.
