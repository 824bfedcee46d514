---------------------------- MODULE RagOutboxProofs ----------------------------
(***************************************************************************)
(* Theorems about RagOutbox, for any rows, batch size and bounds.          *)
(***************************************************************************)
EXTENDS RagOutbox, FiniteSetTheorems, WellFoundedInduction, TLAPS

(***************************************************************************)
(* The inductive invariant. An Ack names a job by its seq alone; that it   *)
(* removes the job of the row that was indexed, and no other, rests on the *)
(* first three parts.                                                      *)
(***************************************************************************)

\* A seq names one job.
SeqIsUnique ==
  \A d \in Docs : Queued(d) =>
    /\ job[d].seq < nextSeq
    /\ \A e \in Docs : Queued(e) /\ job[e].seq = job[d].seq => d = e

\* What the worker holds is still in the queue, each row once.
HeldIsQueued ==
  /\ \A j \in batch : Queued(j.ref) /\ job[j.ref].seq = j.seq
  /\ \A j, k \in batch : j.ref = k.ref => j = k
  /\ phase \in Busy =>
       /\ Queued(item.ref) /\ job[item.ref].seq = item.seq
       /\ \A j \in batch : j.ref # item.ref

\* A row whose job is a delete never comes back.
DeletedIsGone ==
  /\ \A d \in Docs : job[d].op = "delete" => row[d].st = "gone"
  /\ \A j \in batch : j.op = "delete" => row[j.ref].st = "gone"
  /\ (phase \in Busy /\ item.op = "delete") => row[item.ref].st = "gone"

\* The index agrees with the row, or was dropped and the row is still to be queued.
Agrees(d) == index[d] = Content(d) \/ (d \in left /\ index[d] = None)

\* Between the load and the Ack the worker holds what the row contains, unless
\* the row has changed since.
HeldIsCurrent ==
  (phase \in Busy /\ item.ref \notin lost) =>
    /\ phase = "purge" => Content(item.ref) = None
    /\ phase \in {"embed", "add"} => Content(item.ref) = doc
    /\ phase = "ack" => Agrees(item.ref)

UnqueuedAgrees == \A d \in Docs : (~Queued(d) /\ d \notin lost) => Agrees(d)

IInv ==
  /\ Shape
  /\ SeqIsUnique
  /\ HeldIsQueued
  /\ DeletedIsGone
  /\ HeldIsCurrent
  /\ UnqueuedAgrees

LEMMA InitInv == Init => IInv
  BY RagConstants DEF Init, IInv, Shape, SeqIsUnique, HeldIsQueued, DeletedIsGone, HeldIsCurrent,
     UnqueuedAgrees, Agrees, Content, Queued, Busy, Phases, NoJob, NoItem, None

-----------------------------------------------------------------------------
(* A job enters the queue.                                                 *)

\* The upsert on the queue touches one row's job and keeps the seq of a queued one.
LEMMA EnqueueEffect ==
  ASSUME Shape, SeqIsUnique, NEW d \in Docs, NEW op \in Ops, Enqueue(d, op)
  PROVE  /\ job' \in [Docs -> Job \cup {NoJob}] /\ nextSeq' \in Nat \ {0}
         /\ lost' \subseteq Docs /\ lost \subseteq lost'
         /\ job'[d].op = op /\ job'[d] # NoJob
         /\ \A e \in Docs : Queued(e) => job'[e] # NoJob /\ job'[e].seq = job[e].seq
         /\ \A e \in Docs \ {d} : job'[e] = job[e]
         /\ SeqIsUnique'
         /\ Loaded(d) => d \in lost'
<1>1. job'[d] = [seq |-> IF Queued(d) THEN job[d].seq ELSE nextSeq, op |-> op]
  BY DEF Shape, Enqueue
<1>2. \A e \in Docs \ {d} : job'[e] = job[e]
  BY DEF Shape, Enqueue
<1>3. \A e \in Docs : Queued(e) => job[e] \in Job /\ job[e].seq \in Nat \ {0}
  BY DEF Shape, Queued, Job
<1>4. job'[d] \in Job /\ job'[d].op = op /\ job'[d] # NoJob
  BY <1>1, <1>3 DEF Shape, Job, NoJob, Ops
<1>5. job' \in [Docs -> Job \cup {NoJob}]
  BY <1>4, <1>2 DEF Shape, Enqueue
<1>6. nextSeq' \in Nat \ {0} /\ nextSeq <= nextSeq'
  BY DEF Shape, Enqueue
<1>7. \A e \in Docs : Queued(e) => job'[e] # NoJob /\ job'[e].seq = job[e].seq
  BY <1>1, <1>2, <1>4 DEF Queued
<1>8. SeqIsUnique'
  <2>1. CASE Queued(d)
    BY <2>1, <1>1, <1>2, <1>3, <1>4, <1>6, <1>7 DEF SeqIsUnique, Queued, Shape, Enqueue
  <2>2. CASE ~Queued(d)
    <3>1. job'[d].seq = nextSeq /\ nextSeq' = nextSeq + 1
      BY <2>2, <1>1 DEF Enqueue
    <3> QED
      BY <2>2, <3>1, <1>2, <1>3 DEF SeqIsUnique, Queued, Shape
  <2> QED
    BY <2>1, <2>2
<1> QED
  BY <1>2, <1>4, <1>5, <1>6, <1>7, <1>8 DEF Enqueue, Shape

\* What the worker holds stays queued when a job enters the queue.
LEMMA EnqueueKeepsHeld ==
  ASSUME IInv, NEW d \in Docs, NEW op \in Ops, Enqueue(d, op), UNCHANGED worker
  PROVE  HeldIsQueued'
<1>1. \A e \in Docs : Queued(e) => Queued(e)' /\ job'[e].seq = job[e].seq
  BY EnqueueEffect DEF IInv, Queued
<1>2. \A j \in batch : j.ref \in Docs
  BY DEF IInv, Shape, Item
<1>3. phase \in Busy => item.ref \in Docs
  BY DEF IInv, Shape, Item
<1> QED
  BY <1>1, <1>2, <1>3 DEF IInv, HeldIsQueued, worker

\* A row that is rewritten or removed and queued in the same transaction.
LEMMA ChangeInv ==
  ASSUME IInv, NEW d \in Docs, NEW op \in Ops, Enqueue(d, op),
         UNCHANGED <<visible, index, worker, left, admin>>,
         row' \in [Docs -> [st : {"none", "hidden", "public", "gone"}, ver : 0 .. MaxWrites]],
         writes' \in 0 .. MaxWrites,
         \A e \in Docs \ {d} : row'[e] = row[e],
         row[d].st # "gone", op = "delete" => row'[d].st = "gone"
  PROVE  IInv'
<1>1. /\ \A e \in Docs \ {d} : job'[e] = job[e]
      /\ job'[d].op = op /\ Queued(d)'
      /\ lost \subseteq lost' /\ (Loaded(d) => d \in lost')
  BY EnqueueEffect DEF IInv, Queued
<1>2. Shape'
  BY EnqueueEffect DEF IInv, Shape, worker
<1>3. SeqIsUnique' /\ HeldIsQueued'
  BY EnqueueEffect, EnqueueKeepsHeld DEF IInv
<1>4. DeletedIsGone'
  <2>1. \A e \in Docs : row[e].st = "gone" => row'[e].st = "gone"
    OBVIOUS
  <2>2. \A e \in Docs : job'[e].op = "delete" => row'[e].st = "gone"
    BY <1>1, <2>1 DEF IInv, DeletedIsGone
  <2>3. \A j \in batch : j.ref \in Docs
    BY DEF IInv, Shape, Item
  <2>4. phase \in Busy => item.ref \in Docs
    BY DEF IInv, Shape, Item
  <2> QED
    BY <2>1, <2>2, <2>3, <2>4 DEF IInv, DeletedIsGone, worker
<1>5. \A e \in Docs \ {d} : Content(e)' = Content(e) /\ (Agrees(e) => Agrees(e)')
  BY DEF Content, Agrees
<1>6. HeldIsCurrent'
  <2>1. CASE phase \in Busy /\ item.ref = d
    BY <2>1, <1>1 DEF HeldIsCurrent, Loaded, worker, Busy, Phases
  <2>2. CASE phase \in Busy /\ item.ref # d
    <3>1. item.ref \in Docs \ {d}
      BY <2>2 DEF IInv, Shape, Item
    <3> QED
      BY <2>2, <3>1, <1>1, <1>5 DEF IInv, HeldIsCurrent, worker
  <2>3. CASE phase \notin Busy
    BY <2>3 DEF HeldIsCurrent, worker
  <2> QED
    BY <2>1, <2>2, <2>3
<1>7. UnqueuedAgrees'
  BY <1>1, <1>5 DEF IInv, UnqueuedAgrees, Queued
<1> QED
  BY <1>2, <1>3, <1>4, <1>6, <1>7 DEF IInv

-----------------------------------------------------------------------------
(* One step per action.                                                    *)

LEMMA StepInv ==
  ASSUME IInv, [Next]_vars
  PROVE  IInv'
<1> USE RagConstants
<1>a. \A j \in batch : j \in Item /\ j.ref \in Docs /\ j.seq \in Nat \ {0} /\ j.op \in Ops
  BY DEF IInv, Shape, Item
<1>b. phase \in Busy => item \in Item /\ item.ref \in Docs /\ item.seq \in Nat \ {0}
  BY DEF IInv, Shape, Item
<1>0. CASE UNCHANGED vars
  BY <1>0 DEF vars, contents, queue, worker, IInv, Shape, SeqIsUnique, HeldIsQueued, DeletedIsGone,
     HeldIsCurrent, UnqueuedAgrees, Agrees, Content, Queued
<1>1. ASSUME NEW d \in Docs, NEW st \in {"hidden", "public"}, Insert(d, st) PROVE IInv'
  <2>1. /\ row' \in [Docs -> [st : {"none", "hidden", "public", "gone"}, ver : 0 .. MaxWrites]]
        /\ writes' \in 0 .. MaxWrites /\ row[d].st = "none"
        /\ row'[d].st = st /\ \A e \in Docs \ {d} : row'[e] = row[e]
    BY <1>1 DEF Insert, Write, IInv, Shape
  <2>2. CASE Enqueue(d, "upsert")
    BY <1>1, <2>1, <2>2, ChangeInv DEF Insert, Ops
  <2>3. CASE st = "hidden" /\ UNCHANGED <<queue, lost>>
    <3>1. UNCHANGED <<job, nextSeq, lost, visible, index, phase, batch, item, doc, left, admin>>
      BY <1>1, <2>3 DEF Insert, queue, worker
    <3>2. \A e \in Docs : Content(e)' = Content(e) /\ (row[e].st = "gone" => row'[e].st = "gone")
      BY <2>1, <2>3, <3>1 DEF Content
    <3>3. Shape' /\ SeqIsUnique' /\ HeldIsQueued'
      BY <2>1, <3>1 DEF IInv, Shape, SeqIsUnique, HeldIsQueued, Queued
    <3>4. DeletedIsGone'
      BY <3>1, <3>2, <1>a, <1>b DEF IInv, DeletedIsGone
    <3>5. HeldIsCurrent' /\ UnqueuedAgrees'
      BY <3>1, <3>2, <1>b DEF IInv, HeldIsCurrent, UnqueuedAgrees, Agrees, Queued
    <3> QED
      BY <3>3, <3>4, <3>5 DEF IInv
  <2> QED
    BY <1>1, <2>2, <2>3 DEF Insert
<1>2. ASSUME NEW d \in Docs, NEW st \in {"hidden", "public"}, Change(d, st) PROVE IInv'
  <2>1. /\ row' \in [Docs -> [st : {"none", "hidden", "public", "gone"}, ver : 0 .. MaxWrites]]
        /\ writes' \in 0 .. MaxWrites /\ row[d].st # "gone"
        /\ \A e \in Docs \ {d} : row'[e] = row[e]
    BY <1>2 DEF Change, Write, IInv, Shape
  <2> QED
    BY <1>2, <2>1, ChangeInv DEF Change, Ops
<1>3. ASSUME NEW d \in Docs, Remove(d) PROVE IInv'
  <2>1. /\ row' \in [Docs -> [st : {"none", "hidden", "public", "gone"}, ver : 0 .. MaxWrites]]
        /\ writes' \in 0 .. MaxWrites /\ row[d].st # "gone" /\ row'[d].st = "gone"
        /\ \A e \in Docs \ {d} : row'[e] = row[e]
    BY <1>3 DEF Remove, IInv, Shape
  <2> QED
    BY <1>3, <2>1, ChangeInv DEF Remove, Ops
<1>4. CASE SetPerms
  <2>1. UNCHANGED <<row, writes, job, nextSeq, index, phase, batch, item, doc, left>>
    BY <1>4 DEF SetPerms, queue, worker
  <2>2. lost' = lost \cup Children /\ lost' \subseteq Docs
    BY <1>4 DEF SetPerms, IInv, Shape
  <2>3. \A e \in Docs : e \notin lost' => e \notin lost /\ Content(e)' = Content(e)
    BY <2>1, <2>2 DEF Content
  <2>4. Shape' /\ SeqIsUnique' /\ HeldIsQueued' /\ DeletedIsGone'
    BY <1>4, <2>1, <2>2 DEF SetPerms, IInv, Shape, SeqIsUnique, HeldIsQueued, DeletedIsGone, Queued
  <2>5. HeldIsCurrent' /\ UnqueuedAgrees'
    BY <2>1, <2>3, <1>b DEF IInv, HeldIsCurrent, UnqueuedAgrees, Agrees, Queued
  <2> QED
    BY <2>4, <2>5 DEF IInv
<1>5. CASE Dequeue
  <2>1. UNCHANGED <<row, visible, writes, job, nextSeq, index, item, doc, left, admin, lost>>
    BY <1>5 DEF Dequeue, contents, queue
  <2>2. phase' = "fetched" /\ batch' \subseteq Jobs
    BY <1>5 DEF Dequeue, Oldest
  <2>3. \A j \in Jobs : /\ j \in Item /\ Queued(j.ref) /\ j.seq = job[j.ref].seq
                        /\ j.op = job[j.ref].op /\ j.ref \in Docs
    BY DEF Jobs, IInv, Shape, Queued, Item, Job
  <2>4. \A j, k \in Jobs : j.ref = k.ref => j = k
    BY DEF Jobs
  <2>5. Shape' /\ SeqIsUnique' /\ HeldIsQueued'
    BY <2>1, <2>2, <2>3, <2>4 DEF IInv, Shape, SeqIsUnique, HeldIsQueued, Queued, Busy, Phases
  <2>6. DeletedIsGone'
    BY <2>1, <2>2, <2>3 DEF IInv, DeletedIsGone, Busy, Phases
  <2>7. HeldIsCurrent' /\ UnqueuedAgrees'
    BY <2>1, <2>2 DEF IInv, HeldIsCurrent, UnqueuedAgrees, Agrees, Queued, Content, Busy, Phases
  <2> QED
    BY <2>5, <2>6, <2>7 DEF IInv
<1>6. CASE Take
  <2>1. UNCHANGED <<row, visible, writes, job, nextSeq, index, doc, left, admin, lost>>
    BY <1>6 DEF Take, contents, queue
  <2>2. UnqueuedAgrees' /\ SeqIsUnique'
    BY <2>1 DEF IInv, UnqueuedAgrees, SeqIsUnique, Agrees, Content, Queued
  <2>3. CASE phase' = "idle" /\ UNCHANGED <<batch, item>>
    BY <2>1, <2>2, <2>3 DEF IInv, Shape, HeldIsQueued, DeletedIsGone, HeldIsCurrent, Queued, Busy,
       Phases
  <2>4. ASSUME NEW j \in batch, batch' = batch \ {j}, item' = j, phase' = "taken" PROVE IInv'
    <3>1. Shape'
      BY <2>1, <2>4, <1>a DEF IInv, Shape, Phases, Busy
    <3>2. HeldIsQueued' /\ DeletedIsGone' /\ HeldIsCurrent'
      BY <2>1, <2>4, <1>a DEF IInv, HeldIsQueued, DeletedIsGone, HeldIsCurrent, Queued, Phases, Busy
    <3> QED
      BY <2>2, <3>1, <3>2 DEF IInv
  <2> QED
    BY <1>6, <2>3, <2>4 DEF Take
<1>7. CASE Load
  <2>1. UNCHANGED <<row, visible, writes, job, nextSeq, index, batch, item, left, admin>>
    BY <1>7 DEF Load, contents, queue
  <2>2. /\ phase = "taken" /\ item.ref \in Docs
        /\ doc' = Content(item.ref) /\ lost' = lost \ {item.ref}
        /\ phase' = AfterLoad(item.op, doc')
    BY <1>7, <1>b DEF Load, Busy, Phases
  <2>3. Content(item.ref) \in 0 .. MaxWrites
    BY <2>2 DEF Content, IInv, Shape, None
  <2>4. phase' = "embed" \/ (phase' = "purge" /\ Content(item.ref) = None)
    BY <2>2 DEF AfterLoad, IInv, DeletedIsGone, Content, Busy, Phases
  <2>5. Queued(item.ref)
    BY <2>2 DEF IInv, HeldIsQueued, Busy, Phases
  <2>6. Shape' /\ SeqIsUnique' /\ HeldIsQueued' /\ DeletedIsGone'
    BY <2>1, <2>2, <2>3, <2>4 DEF IInv, Shape, SeqIsUnique, HeldIsQueued, DeletedIsGone, Queued,
       Busy, Phases
  <2>7. HeldIsCurrent' /\ UnqueuedAgrees'
    BY <2>1, <2>2, <2>4, <2>5 DEF IInv, HeldIsCurrent, UnqueuedAgrees, Agrees, Content, Queued
  <2> QED
    BY <2>6, <2>7 DEF IInv
<1>8. CASE Purge \/ Embed \/ Add
  <2>1. UNCHANGED <<row, visible, writes, job, nextSeq, batch, item, doc, left, admin, lost>>
    BY <1>8 DEF Purge, Embed, Add, contents, queue
  <2>2. /\ phase \in Busy /\ phase' \in Busy /\ item.ref \in Docs /\ Queued(item.ref)
    BY <1>8, <1>b DEF Purge, Embed, Add, Busy, Phases, IInv, HeldIsQueued
  <2>3. index' \in [Docs -> 0 .. MaxWrites] /\ \A e \in Docs \ {item.ref} : index'[e] = index[e]
    BY <1>8 DEF Purge, Embed, Add, IInv, Shape, None
  <2>4. Shape' /\ SeqIsUnique' /\ HeldIsQueued' /\ DeletedIsGone'
    BY <1>8, <2>1, <2>2, <2>3 DEF IInv, Shape, SeqIsUnique, HeldIsQueued, DeletedIsGone, Queued, Busy
  <2>5. HeldIsCurrent'
    BY <1>8, <2>1, <2>2 DEF Purge, Embed, Add, IInv, Shape, HeldIsCurrent, Agrees, Content
  <2>6. UnqueuedAgrees'
    BY <2>1, <2>2, <2>3 DEF IInv, UnqueuedAgrees, Agrees, Content, Queued
  <2> QED
    BY <2>4, <2>5, <2>6 DEF IInv
<1>9. CASE Ack
  <2>1. /\ UNCHANGED <<row, visible, writes, nextSeq, index, batch, left, admin, lost>>
        /\ phase = "ack" /\ phase' = "fetched" /\ item' = NoItem /\ doc' = None
    BY <1>9 DEF Ack, contents
  <2>2. item.ref \in Docs /\ Queued(item.ref) /\ job[item.ref].seq = item.seq
    BY <2>1, <1>b DEF IInv, HeldIsQueued, Busy, Phases
  <2>3. \A d \in Docs : Queued(d) /\ d # item.ref => job[d].seq # item.seq
    BY <2>2 DEF IInv, SeqIsUnique
  <2>4. \A d \in Docs : Queued(d) => job[d].seq \in Nat \ {0}
    BY DEF IInv, Shape, Queued, Job
  <2>5. job' \in [Docs -> Job \cup {NoJob}]
    <3>1. \A d \in Docs : job[d] \in Job \cup {NoJob}
      BY DEF IInv, Shape
    <3> QED
      BY <1>9, <3>1 DEF Ack
  <2>6. \A d \in Docs \ {item.ref} : job'[d] = job[d]
    BY <1>9, <2>3 DEF Ack, Acked, Queued
  <2>7. job'[item.ref] = NoJob
    BY <1>9, <2>2 DEF Ack, Acked
  <2>8. Shape'
    BY <2>1, <2>5 DEF IInv, Shape, Phases, Busy, None
  <2>9. SeqIsUnique' /\ DeletedIsGone'
    BY <2>1, <2>6, <2>7, <1>a DEF IInv, SeqIsUnique, DeletedIsGone, Queued, NoJob, Busy, Phases
  <2>10. HeldIsQueued' /\ HeldIsCurrent'
    BY <2>1, <2>6, <1>a DEF IInv, HeldIsQueued, HeldIsCurrent, Queued, Busy, Phases
  <2>11. UnqueuedAgrees'
    BY <2>1, <2>2, <2>6 DEF IInv, UnqueuedAgrees, HeldIsCurrent, Agrees, Content, Queued, Busy, Phases
  <2> QED
    BY <2>8, <2>9, <2>10, <2>11 DEF IInv
<1>10. CASE Abort
  BY <1>10 DEF Abort, contents, queue, IInv, Shape, SeqIsUnique, HeldIsQueued, DeletedIsGone,
     HeldIsCurrent, UnqueuedAgrees, Agrees, Content, Queued, Busy, Phases, None
<1>11. ASSUME NEW drop \in BOOLEAN, Reindex(drop) PROVE IInv'
  <2>1. /\ UNCHANGED <<row, visible, writes, job, nextSeq, phase, batch, item, doc, lost>>
        /\ left' = Docs /\ admin' \in 0 .. MaxAdmin
    BY <1>11 DEF Reindex, contents, queue, worker, IInv, Shape
  <2>2. index' = index \/ index' = [d \in Docs |-> None]
    BY <1>11 DEF Reindex
  <2>3. Shape' /\ SeqIsUnique' /\ HeldIsQueued' /\ DeletedIsGone'
    BY <2>1, <2>2 DEF IInv, Shape, SeqIsUnique, HeldIsQueued, DeletedIsGone, Queued, None
  <2>4. \A d \in Docs : Content(d)' = Content(d) /\ (Agrees(d) => Agrees(d)')
    BY <2>1, <2>2 DEF Content, Agrees, IInv, Shape
  <2>5. HeldIsCurrent' /\ UnqueuedAgrees'
    BY <2>1, <2>4, <1>b DEF IInv, HeldIsCurrent, UnqueuedAgrees, Queued
  <2> QED
    BY <2>3, <2>5 DEF IInv
<1>12. ASSUME NEW d \in Docs, EnqueueAll(d) PROVE IInv'
  <2>1. /\ UNCHANGED <<row, visible, writes, index, phase, batch, item, doc, admin>>
        /\ d \in left /\ left' = left \ {d}
    BY <1>12 DEF EnqueueAll, contents, worker
  <2>2. \A e \in Docs : Content(e)' = Content(e)
    BY <2>1 DEF Content
  <2>3. \A e \in Docs \ {d} : Agrees(e) => Agrees(e)'
    BY <2>1, <2>2 DEF Agrees
  <2>4. CASE Enqueue(d, "upsert")
    <3>1. /\ \A e \in Docs \ {d} : job'[e] = job[e]
          /\ job'[d].op = "upsert" /\ Queued(d)'
          /\ lost \subseteq lost' /\ (Loaded(d) => d \in lost')
      BY <2>4, EnqueueEffect DEF IInv, Queued, Ops
    <3>2. Shape' /\ SeqIsUnique' /\ HeldIsQueued'
      BY <2>1, <2>4, EnqueueEffect, EnqueueKeepsHeld DEF IInv, Shape, Ops, worker
    <3>3. DeletedIsGone'
      BY <2>1, <3>1 DEF IInv, DeletedIsGone
    <3>4. HeldIsCurrent'
      <4>1. CASE phase \in Busy /\ item.ref = d
        BY <4>1, <2>1, <3>1 DEF HeldIsCurrent, Loaded, Busy, Phases
      <4>2. CASE phase \in Busy /\ item.ref # d
        BY <4>2, <2>1, <2>2, <2>3, <3>1, <1>b DEF IInv, HeldIsCurrent
      <4>3. CASE phase \notin Busy
        BY <4>3, <2>1 DEF HeldIsCurrent
      <4> QED
        BY <4>1, <4>2, <4>3
    <3>5. UnqueuedAgrees'
      BY <2>3, <3>1 DEF IInv, UnqueuedAgrees, Queued
    <3> QED
      BY <3>2, <3>3, <3>4, <3>5 DEF IInv
  <2>5. CASE Content(d) = None /\ UNCHANGED <<queue, lost>>
    <3>1. Agrees(d) => Agrees(d)'
      BY <2>1, <2>2, <2>5 DEF Agrees
    <3>2. Shape' /\ SeqIsUnique' /\ HeldIsQueued' /\ DeletedIsGone'
      BY <2>1, <2>5 DEF IInv, Shape, SeqIsUnique, HeldIsQueued, DeletedIsGone, Queued, queue
    <3>3. HeldIsCurrent' /\ UnqueuedAgrees'
      BY <2>1, <2>2, <2>3, <2>5, <3>1, <1>b DEF IInv, HeldIsCurrent, UnqueuedAgrees, Queued, queue
    <3> QED
      BY <3>2, <3>3 DEF IInv
  <2> QED
    BY <1>12, <2>4, <2>5 DEF EnqueueAll
<1>13. CASE ReindexFails
  <2>1. /\ UNCHANGED <<row, visible, writes, job, nextSeq, index, phase, batch, item, doc, admin>>
        /\ left' = {} /\ lost' = lost \cup {d \in left : index[d] # Content(d)}
    BY <1>13 DEF ReindexFails, contents, queue, worker
  <2>2. Shape' /\ SeqIsUnique' /\ HeldIsQueued' /\ DeletedIsGone'
    BY <2>1 DEF IInv, Shape, SeqIsUnique, HeldIsQueued, DeletedIsGone, Queued
  <2>3. \A d \in Docs : (d \notin lost' /\ Agrees(d)) => Agrees(d)'
    BY <2>1 DEF Agrees, Content
  <2>4. HeldIsCurrent' /\ UnqueuedAgrees'
    BY <2>1, <2>3, <1>b DEF IInv, HeldIsCurrent, UnqueuedAgrees, Content, Queued
  <2> QED
    BY <2>2, <2>4 DEF IInv
<1> QED
  BY <1>0, <1>1, <1>2, <1>3, <1>4, <1>5, <1>6, <1>7, <1>8, <1>9, <1>10, <1>11, <1>12, <1>13 DEF Next

\* A row that has no job is indexed as it is, however often the worker was
\* interrupted and whatever the order of writers, reindexing and acknowledgements:
\* the exceptions are the rows in lost.
THEOREM IndexAgreesHolds == Spec => []IndexAgrees
<1>1. IInv => IndexAgrees
  BY DEF IInv, UnqueuedAgrees, IndexAgrees, Agrees
<1> QED
  BY InitInv, StepInv, <1>1, PTL DEF Spec

-----------------------------------------------------------------------------
(* A batch is never longer than the limit of the query that filled it.     *)

\* A bounded, non-empty set of naturals has a greatest member.
LEMMA GreatestExists ==
  ASSUME NEW S \in SUBSET Nat, NEW n \in Nat, S # {}, \A s \in S : s <= n
  PROVE  \E m \in S : \A y \in S : y <= m
<1> DEFINE T == {n - s : s \in S}
           R == OpToRel(<, Nat)
<1>1. IsWellFoundedOn(R, Nat)
  BY NatLessThanWellFounded
<1>2. T \subseteq Nat /\ T # {}
  <2>1. \A s \in S : n - s \in Nat
    OBVIOUS
  <2> QED
    BY <2>1
<1>3. PICK x \in T : \A y \in T : ~(<<y, x>> \in R)
  <2> HIDE DEF R, T
  <2> QED
    BY <1>1, <1>2, WFMin
<1>4. \A y \in T : ~(y < x)
  BY <1>2, <1>3 DEF OpToRel
<1>5. PICK m \in S : x = n - m
  OBVIOUS
<1>6. ASSUME NEW y \in S PROVE y <= m
  <2>1. n - y \in T
    OBVIOUS
  <2>2. ~(n - y < n - m)
    BY <1>4, <1>5, <2>1
  <2>3. m \in Nat /\ y \in Nat
    OBVIOUS
  <2> HIDE DEF T
  <2> QED
    BY <2>2, <2>3
<1> QED
  BY <1>6

\* ORDER BY seq LIMIT Batch returns at most Batch jobs, when no two share a seq: of
\* those it returns, all but the last one are ahead of the last.
LEMMA OldestIsBounded ==
  ASSUME NEW J, IsFiniteSet(J), NEW n \in Nat,
         \A j \in J : j.seq \in Nat /\ j.seq <= n,
         \A j, k \in J : j.seq = k.seq => j = k
  PROVE  IsFiniteSet(Oldest(J)) /\ Cardinality(Oldest(J)) <= Batch
<1> DEFINE S == Oldest(J)
           Q == {j.seq : j \in S}
<1>1. S \subseteq J /\ IsFiniteSet(S)
  BY FS_Subset DEF Oldest
<1>2. CASE S = {}
  BY <1>1, <1>2, FS_EmptySet, RagConstants
<1>3. CASE S # {}
  <2>1. Q \in SUBSET Nat /\ Q # {} /\ \A q \in Q : q <= n
    BY <1>1, <1>3
  <2>2. PICK m \in Q : \A q \in Q : q <= m
    <3> HIDE DEF Q
    <3> QED
      BY <2>1, GreatestExists
  <2>3. PICK j \in S : m = j.seq
    OBVIOUS
  <2> DEFINE Earlier == {k \in J : k.seq < j.seq}
  <2>4. Cardinality(Earlier) < Batch
    BY <2>3 DEF Oldest
  <2>5. IsFiniteSet(Earlier)
    BY FS_Subset
  <2>6. S \ {j} \subseteq Earlier
    <3> SUFFICES ASSUME NEW k \in S, k # j PROVE k.seq < j.seq
      BY <1>1
    <3>1. k.seq <= j.seq /\ k.seq # j.seq /\ k.seq \in Nat /\ j.seq \in Nat
      BY <1>1, <2>2, <2>3
    <3> QED
      BY <3>1
  <2>7. Cardinality(S \ {j}) <= Cardinality(Earlier)
    BY <2>5, <2>6, FS_Subset
  <2>8. Cardinality(S \ {j}) = Cardinality(S) - 1
    BY <1>1, <2>3, FS_RemoveElement
  <2>9. Cardinality(S) \in Nat /\ Cardinality(Earlier) \in Nat
    BY <1>1, <2>5, FS_CardinalityType
  <2> HIDE DEF S, Earlier
  <2> QED
    BY <1>1, <2>4, <2>7, <2>8, <2>9, RagConstants DEF S
<1> QED
  BY <1>2, <1>3

\* The queue holds one job a row.
LEMMA JobsAreFinite ==
  ASSUME IInv
  PROVE  /\ IsFiniteSet(Jobs)
         /\ \A j \in Jobs : j.seq \in Nat /\ j.seq <= nextSeq
         /\ \A j, k \in Jobs : j.seq = k.seq => j = k
<1>1. \A j \in Jobs : /\ j.ref \in Docs /\ Queued(j.ref)
                      /\ j = [seq |-> job[j.ref].seq, ref |-> j.ref, op |-> job[j.ref].op]
  BY DEF Jobs
<1>2. \A d \in Docs : Queued(d) => job[d].seq \in Nat
  BY DEF IInv, Shape, Queued, Job
<1>3. [j \in Jobs |-> j.ref] \in Injection(Jobs, Docs)
  BY <1>1 DEF Injection, IsInjective
<1>4. IsFiniteSet(Jobs)
  BY <1>3, RagConstants, FS_Injection
<1>5. \A j \in Jobs : j.seq \in Nat /\ j.seq <= nextSeq
  BY <1>1, <1>2 DEF IInv, SeqIsUnique, Shape
<1>6. \A j, k \in Jobs : j.seq = k.seq => j = k
  BY <1>1 DEF IInv, SeqIsUnique
<1> QED
  BY <1>4, <1>5, <1>6

\* What the worker has dequeued.
BatchFits == IsFiniteSet(batch) /\ Cardinality(batch) <= Batch

LEMMA BatchStep ==
  ASSUME IInv, BatchFits, [Next]_vars
  PROVE  BatchFits'
<1>1. CASE UNCHANGED batch
  BY <1>1 DEF BatchFits
<1>2. CASE Dequeue
  <2>1. batch' = Oldest(Jobs) /\ nextSeq \in Nat
    BY <1>2 DEF Dequeue, IInv, Shape
  <2>2. IsFiniteSet(Oldest(Jobs)) /\ Cardinality(Oldest(Jobs)) <= Batch
    BY <2>1, JobsAreFinite, OldestIsBounded
  <2> QED
    BY <2>1, <2>2 DEF BatchFits
<1>3. CASE Take
  <2>1. batch' \subseteq batch
    BY <1>3 DEF Take
  <2>2. IsFiniteSet(batch') /\ Cardinality(batch') <= Cardinality(batch)
    BY <2>1, FS_Subset DEF BatchFits
  <2>3. Cardinality(batch) \in Nat /\ Cardinality(batch') \in Nat
    BY <2>2, FS_CardinalityType DEF BatchFits
  <2> QED
    BY <2>2, <2>3, RagConstants DEF BatchFits
<1>4. CASE Abort
  BY <1>4, FS_EmptySet, RagConstants DEF Abort, BatchFits
<1> QED
  BY <1>1, <1>2, <1>3, <1>4
  DEF Next, vars, worker, Insert, Change, Remove, EnqueueAll, SetPerms, Load, Purge, Embed, Add, Ack,
      Reindex, ReindexFails

\* The types, and the worker never holds more than Batch jobs: Dequeue's LIMIT counts
\* rows ahead of a row, which bounds what it returns because a seq names one job.
THEOREM TypeCorrect == Spec => []TypeOK
<1>1. Init => BatchFits
  BY FS_EmptySet, RagConstants DEF Init, BatchFits
<1>2. IInv /\ BatchFits => TypeOK
  BY DEF IInv, BatchFits, TypeOK
<1> QED
  BY InitInv, StepInv, BatchStep, <1>1, <1>2, PTL DEF Spec
=============================================================================
