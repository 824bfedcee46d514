------------------------------ MODULE RagOutbox ------------------------------
(***************************************************************************)
(* The semantic index (internal/rag): triggers put every changed content   *)
(* row into embed_outbox, one job per row, and one background worker loads, *)
(* embeds and stores the row and acknowledges its job. Rows, jobs and      *)
(* vectors survive a crash, the worker's batch does not.                   *)
(***************************************************************************)
EXTENDS Integers, FiniteSets

CONSTANTS
  Docs,       \* content rows; an id is never used again
  Children,   \* issues, comments, discussions, replies: gated by their project
  Batch,      \* jobs of one Dequeue (64)
  MaxWrites,  \* bound: rows inserted and updated
  MaxAdmin    \* bound: changes of the project's visibility and reindex requests

ASSUME RagConstants ==
  /\ IsFiniteSet(Docs) /\ Children \subseteq Docs
  /\ Batch \in Nat \ {0}
  /\ MaxWrites \in Nat /\ MaxAdmin \in Nat

VARIABLES
  row,     \* the content tables
  visible, \* the project is visible to the community
  job,     \* embed_outbox, by row: UNIQUE(kind, ref_id)
  nextSeq, \* AUTOINCREMENT
  index,   \* the vector store: the version whose chunks are stored, or None
  phase,   \* what the worker does next
  batch,   \* dequeued jobs it has not started
  item,    \* the job in hand
  doc,     \* the version LoadDoc returned for it
  left,    \* rows a running reindex has still to queue
  writes,  \* counts rows inserted and updated: the next version
  admin,   \* counts visibility changes and reindex requests
  lost     \* history: rows whose last change no coming load will see

contents == <<row, visible, writes>>
queue    == <<job, nextSeq>>
worker   == <<phase, batch, item, doc>>
vars     == <<contents, queue, index, worker, left, admin, lost>>

None   == 0
Ops    == {"upsert", "delete"}
NoJob  == [seq |-> 0, op |-> "none"]
Job    == [seq : Nat \ {0}, op : Ops]
NoItem == [seq |-> 0, ref |-> "none", op |-> "none"]
Item   == [seq : Nat \ {0}, ref : Docs, op : Ops]
Phases == {"idle", "fetched", "taken", "purge", "embed", "add", "ack"}
Busy   == Phases \ {"idle", "fetched"}

Shape ==
  /\ row \in [Docs -> [st : {"none", "hidden", "public", "gone"}, ver : 0 .. MaxWrites]]
  /\ visible \in BOOLEAN
  /\ job \in [Docs -> Job \cup {NoJob}]
  /\ nextSeq \in Nat \ {0}
  /\ index \in [Docs -> 0 .. MaxWrites]
  /\ phase \in Phases
  /\ batch \subseteq Item
  /\ item \in Item \cup {NoItem} /\ (phase \in Busy => item \in Item)
  /\ doc \in 0 .. MaxWrites
  /\ left \subseteq Docs /\ lost \subseteq Docs
  /\ writes \in 0 .. MaxWrites /\ admin \in 0 .. MaxAdmin

TypeOK == Shape /\ IsFiniteSet(batch) /\ Cardinality(batch) <= Batch

Init ==
  /\ row = [d \in Docs |-> [st |-> "none", ver |-> 0]]
  /\ visible = TRUE
  /\ job = [d \in Docs |-> NoJob] /\ nextSeq = 1
  /\ index = [d \in Docs |-> None]
  /\ phase = "idle" /\ batch = {} /\ item = NoItem /\ doc = None
  /\ left = {} /\ writes = 0 /\ admin = 0 /\ lost = {}

\* What LoadDoc and chunk make of a row: a version to embed, or nothing, because
\* the row is gone, has no text, or is not public to the community.
Content(d) ==
  IF row[d].st = "public" /\ (d \in Children => visible) THEN row[d].ver ELSE None

Queued(d) == job[d] # NoJob

\* The worker has read the row for the job in hand and will delete that job.
Loaded(d) == phase \in {"purge", "embed", "add", "ack"} /\ item.ref = d

\* INSERT ... ON CONFLICT(kind, ref_id) DO UPDATE: a row that is queued keeps its
\* place and its seq, and gets the new op.
Enqueue(d, op) ==
  /\ job' = [job EXCEPT ![d] = [seq |-> IF Queued(d) THEN @.seq ELSE nextSeq, op |-> op]]
  /\ nextSeq' = IF Queued(d) THEN nextSeq ELSE nextSeq + 1
  /\ lost' = IF Loaded(d) THEN lost \cup {d} ELSE lost

-----------------------------------------------------------------------------
(* The content tables; each trigger runs in its statement's transaction.   *)

\* A row gets a new content, and a state in which it is public or not.
Write(d, st) ==
  /\ writes < MaxWrites
  /\ writes' = writes + 1
  /\ row' = [row EXCEPT ![d] = [st |-> st, ver |-> writes']]

\* A row appears. The triggers queue the public ones, some the hidden ones too.
Insert(d, st) ==
  /\ row[d].st = "none"
  /\ Write(d, st)
  /\ \/ Enqueue(d, "upsert")
     \/ st = "hidden" /\ UNCHANGED <<queue, lost>>
  /\ UNCHANGED <<visible, index, worker, left, admin>>

\* An UPDATE: an edit, a soft delete, a bubble that is done, a paste that is posted,
\* an answer whose thread is shared.
Change(d, st) ==
  /\ row[d].st \in {"hidden", "public"}
  /\ Write(d, st)
  /\ Enqueue(d, "upsert")
  /\ UNCHANGED <<visible, index, worker, left, admin>>

\* A DELETE, by itself or in a cascade.
Remove(d) ==
  /\ row[d].st \in {"hidden", "public"}
  /\ row' = [row EXCEPT ![d].st = "gone"]
  /\ Enqueue(d, "delete")
  /\ UNCHANGED <<visible, writes, index, worker, left, admin>>

\* SetPerms on a project: its own row is queued, its issues, comments,
\* discussions and replies are not.
SetPerms ==
  /\ admin < MaxAdmin
  /\ admin' = admin + 1
  /\ visible' = ~visible
  /\ lost' = lost \cup Children
  /\ UNCHANGED <<row, writes, queue, index, worker, left>>

-----------------------------------------------------------------------------
(* The worker.                                                             *)

Jobs == {[seq |-> job[d].seq, ref |-> d, op |-> job[d].op] : d \in {e \in Docs : Queued(e)}}

\* Mutant: no LIMIT.
OldestAll(jobs) == jobs

\* ORDER BY seq LIMIT Batch.
Oldest(jobs) == {j \in jobs : Cardinality({k \in jobs : k.seq < j.seq}) < Batch}

Dequeue ==
  /\ phase = "idle" /\ Jobs # {}
  /\ batch' = Oldest(Jobs)
  /\ phase' = "fetched"
  /\ UNCHANGED <<contents, queue, index, item, doc, left, admin, lost>>

\* The next job of the batch; after the last one the loop dequeues again.
Take ==
  /\ phase = "fetched"
  /\ \/ /\ batch = {} /\ phase' = "idle"
        /\ UNCHANGED <<batch, item>>
     \/ \E j \in batch :
          /\ \A k \in batch : j.seq <= k.seq
          /\ batch' = batch \ {j} /\ item' = j
          /\ phase' = "taken"
  /\ UNCHANGED <<contents, queue, index, doc, left, admin, lost>>

\* Mutant: a row that does not qualify is skipped.
AfterLoadSkip(op, content) ==
  IF op = "delete" THEN "purge" ELSE IF content = None THEN "ack" ELSE "embed"

\* A delete, and a row that does not qualify any more, lose their vectors.
AfterLoad(op, content) ==
  IF op = "delete" \/ content = None THEN "purge" ELSE "embed"

\* process: LoadDoc reads the row. For a delete it is not called, and the row is gone.
Load ==
  /\ phase = "taken"
  /\ doc' = Content(item.ref)
  /\ phase' = AfterLoad(item.op, doc')
  /\ lost' = lost \ {item.ref}
  /\ UNCHANGED <<contents, queue, index, batch, item, left, admin>>

\* Store.DeleteByRef.
Purge ==
  /\ phase = "purge"
  /\ index' = [index EXCEPT ![item.ref] = None]
  /\ phase' = "ack"
  /\ UNCHANGED <<contents, queue, batch, item, doc, left, admin, lost>>

\* Store.Upsert, after the embedder has answered: the old chunks go first ...
Embed ==
  /\ phase = "embed"
  /\ index' = [index EXCEPT ![item.ref] = None]
  /\ phase' = "add"
  /\ UNCHANGED <<contents, queue, batch, item, doc, left, admin, lost>>

\* ... and the new ones are added.
Add ==
  /\ phase = "add"
  /\ index' = [index EXCEPT ![item.ref] = doc]
  /\ phase' = "ack"
  /\ UNCHANGED <<contents, queue, batch, item, doc, left, admin, lost>>

\* Mutant: delete jobs are not acknowledged.
AckedUpserts(d, seq) == job[d].seq = seq /\ job[d].op = "upsert"

\* DELETE FROM embed_outbox WHERE seq = ?
Acked(d, seq) == job[d].seq = seq

Ack ==
  /\ phase = "ack"
  /\ job' = [d \in Docs |-> IF Acked(d, item.seq) THEN NoJob ELSE job[d]]
  /\ phase' = "fetched" /\ item' = NoItem /\ doc' = None
  /\ UNCHANGED <<contents, nextSeq, index, batch, left, admin, lost>>

\* An error anywhere ends the tick with the job in the queue; so do a shutdown and
\* a crash.
Abort ==
  /\ phase # "idle"
  /\ phase' = "idle" /\ batch' = {} /\ item' = NoItem /\ doc' = None
  /\ UNCHANGED <<contents, queue, index, left, admin, lost>>

-----------------------------------------------------------------------------
(* Reindexing.                                                             *)

\* ReindexAll drops the index first; the command line queues only.
Reindex(drop) ==
  /\ admin < MaxAdmin
  /\ admin' = admin + 1
  /\ left' = Docs
  /\ index' = IF drop THEN [d \in Docs |-> None] ELSE index
  /\ UNCHANGED <<contents, queue, worker, lost>>

\* EnqueueAll: one statement per kind, each queues the rows that are public, those
\* without text (hidden here) too.
EnqueueAll(d) ==
  /\ d \in left
  /\ left' = left \ {d}
  /\ \/ (Content(d) # None \/ row[d].st = "hidden") /\ Enqueue(d, "upsert")
     \/ Content(d) = None /\ UNCHANGED <<queue, lost>>
  /\ UNCHANGED <<contents, index, worker, admin>>

\* A statement fails, or the request is cancelled: the rest is not queued.
ReindexFails ==
  /\ left # {}
  /\ left' = {}
  /\ lost' = lost \cup {d \in left : index[d] # Content(d)}
  /\ UNCHANGED <<contents, queue, index, worker, admin>>

Next ==
  \/ \E d \in Docs, st \in {"hidden", "public"} : Insert(d, st) \/ Change(d, st)
  \/ \E d \in Docs : Remove(d) \/ EnqueueAll(d)
  \/ SetPerms
  \/ Dequeue \/ Take \/ Load \/ Purge \/ Embed \/ Add \/ Ack \/ Abort
  \/ \E drop \in BOOLEAN : Reindex(drop)
  \/ ReindexFails

Spec == Init /\ [][Next]_vars

-----------------------------------------------------------------------------
(* Correctness.                                                            *)

\* A row without a job has exactly its public content in the index, whatever was
\* interrupted, half stored, retried, dropped or queued twice; the exceptions are
\* the rows in lost: changed after the worker had read them for the job it then
\* acknowledged, gated by a project that changed, or missed by a failed reindex.
IndexAgrees ==
  \A d \in Docs : (~Queued(d) /\ d \notin lost /\ d \notin left) => index[d] = Content(d)

-----------------------------------------------------------------------------
(* Progress and what the documentation promises.                           *)

\* The worker ticks, and an embedder or database that fails comes back: no step
\* fails for ever.
Fairness ==
  /\ WF_vars(Dequeue) /\ SF_vars(Take) /\ SF_vars(Load) /\ SF_vars(Purge)
  /\ SF_vars(Embed) /\ SF_vars(Add) /\ SF_vars(Ack)

FairSpec == Spec /\ Fairness

\* Every job is done in the end, whatever fails meanwhile.
JobIsDone == \A d \in Docs : Queued(d) ~> ~Queued(d)

\* worker.go: the index catches up and is "eventually-consistent". Changes are
\* bounded, so in the end each row is indexed as it is.
EventuallyConsistent == \A d \in Docs : []<>(index[d] = Content(d))
=============================================================================
