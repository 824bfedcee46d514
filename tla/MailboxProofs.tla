----------------------------- MODULE MailboxProofs -----------------------------
(***************************************************************************)
(* Theorems about Mailbox, for any folders, mails, filters, goroutines and *)
(* bounds.                                                                 *)
(***************************************************************************)
EXTENDS Mailbox, WellFoundedInduction, TLAPS

\* The worker has a folder open; it holds a mail it has not tried to insert.
InFolder == w.then = "insert" \/ w.step \in {"next", "check", "create", "link", "save"}
InHandYet(u) == w.then = "insert" /\ u = w.uid

\* The row is there, or the mail met a failure.
Handled(f, u) == Stored(f, u) \/ KeyOf(f, u) \in failed

\* A scan has dealt with every mail up to maxUID but the one in hand, and the
\* envelopes it still has are, beyond maxUID, without a gap.
ScanOK ==
  /\ w.then = "insert" => w.step \in {"read", "store", "insert"}
  /\ w.step = "insert" => w.then = "insert"
  /\ w.step = "next" => w.uids # {}
  /\ InFolder =>
       /\ w.at \in Folders
       /\ folder[w.at].validity = validity[w.at]
       /\ w.last <= w.max /\ w.max <= Len(box[w.at])
       /\ w.uids \subseteq 1 .. Len(box[w.at])
       /\ \A u \in w.uids : \A v \in 1 .. u : w.max < v => v \in w.uids
       /\ \A u \in 1 .. w.max : Handled(w.at, u) \/ InHandYet(u)
       /\ w.step \notin {"next", "save"} => w.uid \in 1 .. Len(box[w.at])

\* The table does not run ahead of the server.
SeenOK == \A f \in Folders : folder[f].validity <= validity[f] /\ validity[f] <= faults

IInv == TypeOK /\ OneRowPerMail /\ CursorCovers /\ ScanOK /\ SeenOK

\* What the tables and the goroutines hold.
TablesOK ==
  /\ DOMAIN ingest \subseteq Keys
  /\ \A k \in DOMAIN ingest : ingest[k] \in Row /\ ingest[k].filter \in filters \cup {None}
  /\ filters \subseteq used /\ used \subseteq Filters
  /\ cache \in Cache

ServerOK ==
  /\ box \in [Folders -> Seq(Mails)] /\ \A f \in Folders : Len(box[f]) <= MaxUID
  /\ validity \in [Folders -> 0 .. MaxFaults]
  /\ folder \in [Folders -> [validity : 0 .. MaxFaults, last : 0 .. MaxUID]]

RunOK ==
  /\ w \in Worker
  /\ job \in [Admins -> Job]
  /\ faults \in 0 .. MaxFaults
  /\ failed \subseteq Keys /\ strayed \subseteq Keys

LEMMA TypeParts == TypeOK <=> TablesOK /\ ServerOK /\ RunOK
  BY DEF TypeOK, TablesOK, ServerOK, RunOK

LEMMA InitInv == Init => IInv
<1> SUFFICES ASSUME Init PROVE IInv
  OBVIOUS
<1> USE MailboxConstants DEF Init
<1>1. TablesOK
  BY DEF TablesOK, Cache
<1>2. ServerOK
  BY DEF ServerOK
<1>3. RunOK
  <2>1. w \in Worker
    BY DEF Asleep, Worker, WorkerSteps
  <2>2. Idle \in Job
    BY DEF Idle, Job, AdminSteps
  <2> QED
    BY <2>1, <2>2 DEF RunOK
<1>4. OneRowPerMail
  BY DEF OneRowPerMail
<1>5. CursorCovers
  BY DEF CursorCovers
<1>6. ScanOK
  BY DEF ScanOK, InFolder, Asleep
<1>7. SeenOK
  BY DEF SeenOK
<1> QED
  BY <1>1, <1>2, <1>3, <1>4, <1>5, <1>6, <1>7, TypeParts DEF IInv

-----------------------------------------------------------------------------
(* What steps have in common.                                              *)

LEMMA MinOf ==
  ASSUME NEW S \in SUBSET Nat, S # {}
  PROVE  Min(S) \in S /\ \A y \in S : Min(S) <= y
<1> DEFINE R == OpToRel(<, Nat)
<1>1. IsWellFoundedOn(R, Nat)
  BY NatLessThanWellFounded
<1>2. PICK x \in S : \A y \in S : ~(<<y, x>> \in R)
  <2> HIDE DEF R
  <2> QED BY <1>1, WFMin
<1>3. \A y \in S : ~(y < x)
  BY <1>2 DEF OpToRel
<1>4. \A y \in S : x <= y
  BY <1>3
<1> QED
  BY <1>4 DEF Min

\* A fault is counted, or none happens.
LEMMA FaultsType ==
  ASSUME RunOK, Fault \/ Well
  PROVE  faults' \in 0 .. MaxFaults /\ faults <= faults'
  BY MailboxConstants DEF RunOK, Fault, Well

\* Rows keep their mail, and no row comes or goes.
SameRows == /\ DOMAIN ingest' = DOMAIN ingest
            /\ \A k \in DOMAIN ingest : ingest'[k].mail = ingest[k].mail

\* Rows keep their mail, and none goes.
KeptRows == /\ DOMAIN ingest \subseteq DOMAIN ingest'
            /\ \A k \in DOMAIN ingest : ingest'[k].mail = ingest[k].mail

LEMMA SameIsKept == SameRows => KeptRows
  BY DEF SameRows, KeptRows

LEMMA HandledStays ==
  ASSUME UNCHANGED server, KeptRows, failed \subseteq failed', NEW f, NEW u, Handled(f, u)
  PROVE  Handled(f, u)'
  BY DEF server, KeptRows, Handled, Stored, Duplicate, KeyOf

LEMMA SameMail ==
  ASSUME OneRowPerMail, SameRows
  PROVE  OneRowPerMail'
  BY DEF OneRowPerMail, SameRows

\* Where the cursors and the server are the same, so is what the cursors cover.
LEMMA SameCovers ==
  ASSUME CursorCovers, UNCHANGED <<server, folder>>, KeptRows, failed \subseteq failed'
  PROVE  CursorCovers'
<1> SUFFICES ASSUME NEW f \in Folders, (folder[f].validity = validity[f])'
             PROVE  /\ (folder[f].last <= Len(box[f]))'
                    /\ \A u \in (1 .. folder[f].last)' : Handled(f, u)'
  BY DEF CursorCovers, Handled
<1>1. folder[f].validity = validity[f]
  BY DEF server
<1>2. /\ folder[f].last <= Len(box[f])
      /\ \A u \in 1 .. folder[f].last : Handled(f, u)
  BY <1>1 DEF CursorCovers, Handled
<1> QED
  BY <1>2, HandledStays DEF server

LEMMA SameSeen ==
  ASSUME IInv, UNCHANGED <<server, folder>>, Fault \/ Well
  PROVE  SeenOK'
<1>1. faults <= faults' /\ faults' \in Nat /\ faults \in Nat
  BY FaultsType, TypeParts, MailboxConstants DEF IInv, RunOK
<1>2. \A f \in Folders : validity[f] \in Nat
  BY TypeParts DEF IInv, ServerOK
<1> QED
  BY <1>1, <1>2 DEF SeenOK, server, IInv

\* A step of an admin page leaves the scan alone.
LEMMA AdminFrame ==
  ASSUME IInv, UNCHANGED mail, SameRows, Fault \/ Well
  PROVE  /\ OneRowPerMail' /\ CursorCovers' /\ ScanOK' /\ SeenOK' /\ ServerOK'
         /\ w' \in Worker /\ faults' \in 0 .. MaxFaults /\ failed' \subseteq Keys
<1>1. UNCHANGED <<server, folder, w, failed>>
  BY DEF mail
<1>2. OneRowPerMail' /\ CursorCovers' /\ SeenOK'
  BY <1>1, SameMail, SameCovers, SameSeen, SameIsKept DEF IInv
<1>3. ScanOK'
  <2>1. \A u : InHandYet(u) => InHandYet(u)'
    BY <1>1 DEF InHandYet
  <2>2. \A f, u : Handled(f, u) => Handled(f, u)'
    BY <1>1, HandledStays, SameIsKept
  <2> QED
    BY <1>1, <2>1, <2>2 DEF ScanOK, InFolder, IInv, server
<1>4. ServerOK'
  BY <1>1, TypeParts DEF IInv, ServerOK, server
<1>5. w' \in Worker /\ faults' \in 0 .. MaxFaults /\ failed' \subseteq Keys
  BY <1>1, TypeParts, FaultsType DEF IInv, RunOK
<1> QED
  BY <1>2, <1>3, <1>4, <1>5

\* A mail that is routed stays routed, by its filter or by one that is gone.
RoutingStep ==
  \A k \in DOMAIN ingest :
    ingest[k].routed => ingest'[k].routed /\ ingest'[k].filter \in {ingest[k].filter, None}

RowsOK == DOMAIN ingest \subseteq Keys
          /\ \A k \in DOMAIN ingest : ingest[k] \in Row /\ ingest[k].filter \in filters \cup {None}

LEMMA QuietRows ==
  ASSUME TablesOK, UNCHANGED <<ingest, filters>>
  PROVE  SameRows /\ RowsOK' /\ RoutingStep
  BY DEF TablesOK, RowsOK, SameRows, RoutingStep

LEMMA ClaimRows ==
  ASSUME TablesOK, NEW x \in Filters, Claim(x), UNCHANGED filters
  PROVE  SameRows /\ RowsOK' /\ RoutingStep
<1>1. /\ DOMAIN ingest' = DOMAIN ingest
      /\ \A k \in DOMAIN ingest :
           ingest'[k] = IF k \in Claimable(x)
                        THEN [ingest[k] EXCEPT !.filter = x, !.routed = TRUE] ELSE ingest[k]
  BY DEF Claim
<1>2. Claimable(x) # {} => x \in filters
  BY DEF Claim
<1>3. ASSUME NEW k \in DOMAIN ingest
      PROVE  /\ ingest'[k] \in Row /\ ingest'[k].filter \in filters \cup {None}
             /\ ingest'[k].mail = ingest[k].mail
             /\ ingest[k].routed => ingest'[k] = ingest[k]
  <2>1. ingest[k] \in Row /\ ingest[k].filter \in filters \cup {None}
    BY DEF TablesOK
  <2>2. CASE k \in Claimable(x)
    <3>1. ingest'[k] = [ingest[k] EXCEPT !.filter = x, !.routed = TRUE]
      BY <1>1, <2>2
    <3>2. x \in filters /\ ~ingest[k].routed
      BY <1>2, <2>2 DEF Claimable
    <3> QED
      BY <2>1, <3>1, <3>2 DEF Row
  <2>3. CASE k \notin Claimable(x)
    BY <1>1, <2>1, <2>3
  <2> QED
    BY <2>2, <2>3
<1> QED
  BY <1>1, <1>3 DEF TablesOK, RowsOK, SameRows, RoutingStep

LEMMA ReleasedRows ==
  ASSUME TablesOK, NEW x \in Filters, ingest' = Released(x), filters' = filters \ {x}
  PROVE  SameRows /\ RowsOK' /\ RoutingStep
<1>1. /\ DOMAIN ingest' = DOMAIN ingest
      /\ \A k \in DOMAIN ingest :
           ingest'[k] = IF ingest[k].filter = x THEN [ingest[k] EXCEPT !.filter = None]
                        ELSE ingest[k]
  BY DEF Released
<1>2. ASSUME NEW k \in DOMAIN ingest
      PROVE  /\ ingest'[k] \in Row /\ ingest'[k].filter \in filters' \cup {None}
             /\ ingest'[k].mail = ingest[k].mail
             /\ ingest[k].routed => ingest'[k].routed
             /\ ingest'[k].filter \in {ingest[k].filter, None}
  <2>1. ingest[k] \in Row /\ ingest[k].filter \in filters \cup {None}
    BY DEF TablesOK
  <2>2. CASE ingest[k].filter = x
    <3>1. ingest'[k] = [ingest[k] EXCEPT !.filter = None]
      BY <1>1, <2>2
    <3> QED
      BY <2>1, <3>1 DEF Row
  <2>3. CASE ingest[k].filter # x
    BY <1>1, <2>1, <2>3
  <2> QED
    BY <2>2, <2>3
<1> QED
  BY <1>1, <1>2 DEF TablesOK, RowsOK, SameRows, RoutingStep

\* The issue and its link row.
LEMMA IssueRows ==
  ASSUME TablesOK, NEW k, CreateIssue(k) \/ InsertIngestIssue(k), UNCHANGED filters
  PROVE  SameRows /\ RowsOK' /\ RoutingStep
<1>1. DOMAIN ingest' = DOMAIN ingest
  BY DEF CreateIssue, InsertIngestIssue
<1>2. ASSUME NEW j \in DOMAIN ingest
      PROVE  /\ ingest'[j] \in Row
             /\ ingest'[j].mail = ingest[j].mail /\ ingest'[j].filter = ingest[j].filter
             /\ ingest'[j].routed = ingest[j].routed
  <2>1. ingest[j] \in Row
    BY DEF TablesOK
  <2>2. CASE CreateIssue(k)
    <3>1. \/ ingest'[j] = ingest[j]
          \/ ingest'[j] = [ingest[j] EXCEPT !.issues = IF @ = 0 THEN 1 ELSE 2]
      BY <2>2 DEF CreateIssue
    <3> QED
      BY <2>1, <3>1 DEF Row
  <2>3. CASE InsertIngestIssue(k)
    <3>1. \/ ingest'[j] = ingest[j]
          \/ ingest'[j] = [ingest[j] EXCEPT !.linked = TRUE]
      BY <2>3 DEF InsertIngestIssue
    <3> QED
      BY <2>1, <3>1 DEF Row
  <2> QED
    BY <2>2, <2>3
<1> QED
  BY <1>1, <1>2 DEF TablesOK, RowsOK, SameRows, RoutingStep

LEMMA CheckedType ==
  ASSUME RunOK, NEW k \in Keys, Checked(k)
  PROVE  strayed' \subseteq Keys
  BY DEF RunOK, Checked

-----------------------------------------------------------------------------
(* The admin pages.                                                        *)

LEMMA IdleIsJob == Idle \in Job
  BY DEF Idle, Job, AdminSteps

LEMMA JobFields ==
  ASSUME RunOK, NEW a \in Admins
  PROVE  /\ job[a] \in Job /\ job[a].keys \subseteq Keys
         /\ job[a].step \in {"backfill", "tag", "list"} => job[a].filter \in Filters
         /\ job[a].step \in {"check", "create", "link"} => job[a].key \in Keys
  BY DEF RunOK, Job

\* A page goes on with what it holds.
LEMMA CarryType ==
  ASSUME RunOK, NEW a \in Admins, NEW s \in AdminSteps, Carry(a, s),
         s \in {"backfill", "tag", "list"} => job[a].filter \in Filters,
         s \in {"check", "create", "link"} => job[a].key \in Keys
  PROVE  job' \in [Admins -> Job]
<1>1. [job[a] EXCEPT !.step = s] \in Job
  BY DEF RunOK, Job
<1> QED
  BY <1>1 DEF Carry, RunOK

LEMMA EndType ==
  ASSUME RunOK, NEW a \in Admins, Done(a) \/ Onward(a)
  PROVE  job' \in [Admins -> Job]
<1>1. CASE Done(a)
  BY <1>1, IdleIsJob DEF Done, RunOK
<1>2. CASE Onward(a)
  <2>1. [job[a] EXCEPT !.step = "pick", !.key = None] \in Job
    BY DEF RunOK, Job, AdminSteps
  <2> QED
    BY <1>2, <2>1 DEF Onward, RunOK
<1> QED
  BY <1>1, <1>2

\* What is left to show of a step of an admin page.
LEMMA AdminStep ==
  ASSUME IInv, UNCHANGED mail, SameRows, RowsOK', Fault \/ Well,
         filters' \subseteq used', used' \subseteq Filters, cache' \in Cache,
         job' \in [Admins -> Job], strayed' \subseteq Keys
  PROVE  IInv'
<1>1. TablesOK'
  BY DEF TablesOK, RowsOK
<1>2. RunOK'
  BY AdminFrame DEF RunOK
<1>3. TypeOK'
  BY <1>1, <1>2, AdminFrame DEF TypeOK, TablesOK, ServerOK, RunOK
<1> QED
  BY <1>3, AdminFrame DEF IInv

LEMMA RequestInv ==
  ASSUME IInv, NEW a \in Admins, Request(a)
  PROVE  IInv' /\ RoutingStep
<1>0. TablesOK /\ RunOK
  BY TypeParts DEF IInv
<1>a. /\ filters \subseteq used /\ used \subseteq Filters /\ cache \in Cache
      /\ strayed \subseteq Keys
  BY <1>0 DEF TablesOK, RunOK
<1>b. ASSUME Well PROVE Fault \/ Well
  BY <1>b
<1>1. ASSUME NEW x \in Filters, PostFilterCreate(a, x) PROVE IInv' /\ RoutingStep
  <2>1. [Idle EXCEPT !.step = "backfill", !.filter = x] \in Job
    BY DEF Idle, Job, AdminSteps
  <2>2. job' \in [Admins -> Job]
    BY <1>0, <1>1, <2>1 DEF PostFilterCreate, RunOK
  <2>3. SameRows /\ RowsOK' /\ RoutingStep
    BY <1>0, <1>1 DEF PostFilterCreate, TablesOK, RowsOK, SameRows, RoutingStep
  <2> QED
    BY <1>1, <1>a, <2>2, <2>3, AdminStep DEF PostFilterCreate
<1>2. ASSUME NEW x \in Filters, PostFilterDelete(a, x) PROVE IInv' /\ RoutingStep
  <2>1. [Idle EXCEPT !.step = "invalidate"] \in Job
    BY DEF Idle, Job, AdminSteps
  <2>2. job' \in [Admins -> Job]
    BY <1>0, <1>2, <2>1 DEF PostFilterDelete, RunOK
  <2>3. SameRows /\ RowsOK' /\ RoutingStep
    BY <1>0, <1>2, ReleasedRows DEF PostFilterDelete
  <2> QED
    BY <1>2, <1>a, <2>2, <2>3, AdminStep DEF PostFilterDelete
<1>3. ASSUME NEW x \in Filters, PostFilterApply(a, x) PROVE IInv' /\ RoutingStep
  <2>1. [Idle EXCEPT !.step = "tag", !.filter = x] \in Job
    BY DEF Idle, Job, AdminSteps
  <2>2. job' \in [Admins -> Job]
    BY <1>0, <1>3, <2>1 DEF PostFilterApply, RunOK
  <2>3. SameRows /\ RowsOK' /\ RoutingStep
    BY <1>0, <1>3, QuietRows DEF PostFilterApply
  <2> QED
    BY <1>3, <1>a, <2>2, <2>3, AdminStep DEF PostFilterApply
<1>4. ASSUME Backfill(a) PROVE IInv' /\ RoutingStep
  <2>0. job[a].filter \in Filters
    BY <1>0, <1>4, JobFields DEF Backfill
  <2>1. CASE Claim(job[a].filter) /\ Carry(a, "invalidate")
    <3>1. SameRows /\ RowsOK' /\ RoutingStep
      BY <1>0, <1>4, <2>0, <2>1, ClaimRows DEF Backfill
    <3>2. job' \in [Admins -> Job]
      BY <1>0, <2>1, CarryType DEF AdminSteps
    <3>3. Well
      BY <2>1 DEF Claim
    <3> QED
      BY <1>4, <1>a, <3>1, <3>2, <3>3, AdminStep DEF Backfill
  <2>2. CASE ClaimFails(job[a].filter) /\ Done(a) /\ UNCHANGED ingest
    <3>1. SameRows /\ RowsOK' /\ RoutingStep
      BY <1>0, <1>4, <2>2, QuietRows DEF Backfill
    <3>2. job' \in [Admins -> Job]
      BY <1>0, <2>2, EndType
    <3>3. Fault \/ Well
      BY <2>2 DEF ClaimFails
    <3> QED
      BY <1>4, <1>a, <3>1, <3>2, <3>3, AdminStep DEF Backfill
  <2> QED
    BY <1>4, <2>1, <2>2 DEF Backfill
<1>5. ASSUME InvalidateFilters(a) PROVE IInv' /\ RoutingStep
  <2>1. SameRows /\ RowsOK' /\ RoutingStep
    BY <1>0, <1>5, QuietRows DEF InvalidateFilters
  <2>2. job' \in [Admins -> Job]
    BY <1>0, <1>5, EndType DEF InvalidateFilters
  <2>3. cache' \in Cache
    BY <1>5 DEF InvalidateFilters, Cache
  <2> QED
    BY <1>5, <1>a, <2>1, <2>2, <2>3, AdminStep DEF InvalidateFilters
<1>6. ASSUME TagPast(a) PROVE IInv' /\ RoutingStep
  <2>0. job[a].filter \in Filters
    BY <1>0, <1>6, JobFields DEF TagPast
  <2>1. CASE Claim(job[a].filter) /\ (Carry(a, "list") \/ Done(a))
    <3>1. SameRows /\ RowsOK' /\ RoutingStep
      BY <1>0, <1>6, <2>0, <2>1, ClaimRows DEF TagPast
    <3>2. job' \in [Admins -> Job]
      <4>1. CASE Carry(a, "list")
        BY <1>0, <2>0, <4>1, CarryType DEF AdminSteps
      <4>2. CASE Done(a)
        BY <1>0, <4>2, EndType
      <4> QED
        BY <2>1, <4>1, <4>2
    <3>3. Well
      BY <2>1 DEF Claim
    <3> QED
      BY <1>6, <1>a, <3>1, <3>2, <3>3, AdminStep DEF TagPast
  <2>2. CASE ClaimFails(job[a].filter) /\ Done(a) /\ UNCHANGED ingest
    <3>1. SameRows /\ RowsOK' /\ RoutingStep
      BY <1>0, <1>6, <2>2, QuietRows DEF TagPast
    <3>2. job' \in [Admins -> Job]
      BY <1>0, <2>2, EndType
    <3>3. Fault \/ Well
      BY <2>2 DEF ClaimFails
    <3> QED
      BY <1>6, <1>a, <3>1, <3>2, <3>3, AdminStep DEF TagPast
  <2> QED
    BY <1>6, <2>1, <2>2 DEF TagPast
<1>7. ASSUME ListPast(a) PROVE IInv' /\ RoutingStep
  <2> DEFINE K == {k \in DOMAIN ingest : ingest[k].filter = job[a].filter /\ ~ingest[k].linked}
  <2>1. K \subseteq Keys
    BY <1>0 DEF TablesOK
  <2>2. job' = [job EXCEPT ![a] = [job[a] EXCEPT !.step = "pick", !.keys = K]]
    BY <1>0, <1>7 DEF ListPast, RunOK
  <2>3. [job[a] EXCEPT !.step = "pick", !.keys = K] \in Job
    <3> HIDE DEF K
    <3> QED
      BY <1>0, <2>1 DEF RunOK, Job, AdminSteps
  <2>4. job' \in [Admins -> Job]
    BY <1>0, <2>2, <2>3 DEF RunOK
  <2>5. SameRows /\ RowsOK' /\ RoutingStep
    BY <1>0, <1>7, QuietRows DEF ListPast
  <2> QED
    BY <1>7, <1>a, <2>4, <2>5, AdminStep DEF ListPast
<1>8. ASSUME PickPast(a) PROVE IInv' /\ RoutingStep
  <2>1. job' \in [Admins -> Job]
    <3>1. CASE job[a].keys = {} /\ Done(a)
      BY <1>0, <3>1, EndType
    <3>2. ASSUME NEW k \in job[a].keys,
                 job' = [job EXCEPT ![a].step = "check", ![a].key = k, ![a].keys = @ \ {k}]
          PROVE  job' \in [Admins -> Job]
      <4>1. k \in Keys
        BY <1>0, JobFields
      <4>2. [job[a] EXCEPT !.step = "check", !.key = k, !.keys = @ \ {k}] \in Job
        BY <1>0, <4>1 DEF RunOK, Job, AdminSteps
      <4>3. job' = [job EXCEPT ![a] = [job[a] EXCEPT !.step = "check", !.key = k, !.keys = @ \ {k}]]
        BY <1>0, <3>2 DEF RunOK
      <4> QED
        BY <1>0, <4>2, <4>3 DEF RunOK
    <3> QED
      BY <1>8, <3>1, <3>2 DEF PickPast
  <2>2. SameRows /\ RowsOK' /\ RoutingStep
    BY <1>0, <1>8, QuietRows DEF PickPast
  <2> QED
    BY <1>8, <1>a, <2>1, <2>2, AdminStep DEF PickPast
<1>9. ASSUME CheckPast(a) PROVE IInv' /\ RoutingStep
  <2>0. job[a].key \in Keys
    BY <1>0, <1>9, JobFields DEF CheckPast
  <2>1. SameRows /\ RowsOK' /\ RoutingStep
    BY <1>0, <1>9, QuietRows DEF CheckPast
  <2>2. job' \in [Admins -> Job]
    <3>1. CASE Carry(a, "create")
      BY <1>0, <2>0, <3>1, CarryType DEF AdminSteps
    <3>2. CASE Onward(a) \/ Done(a)
      BY <1>0, <3>2, EndType
    <3> QED
      BY <1>9, <3>1, <3>2 DEF CheckPast
  <2>3. strayed' \subseteq Keys
    BY <1>0, <1>9, <1>a, <2>0, CheckedType DEF CheckPast
  <2>4. Fault \/ Well
    BY <1>9 DEF CheckPast
  <2> QED
    BY <1>9, <1>a, <2>1, <2>2, <2>3, <2>4, AdminStep DEF CheckPast
<1>10. ASSUME MakePast(a) PROVE IInv' /\ RoutingStep
  <2>0. job[a].key \in Keys
    BY <1>0, <1>10, JobFields DEF MakePast
  <2>1. SameRows /\ RowsOK' /\ RoutingStep
    BY <1>0, <1>10, QuietRows, IssueRows DEF MakePast
  <2>2. job' \in [Admins -> Job]
    <3>1. CASE Carry(a, "link")
      BY <1>0, <2>0, <3>1, CarryType DEF AdminSteps
    <3>2. CASE Done(a)
      BY <1>0, <3>2, EndType
    <3> QED
      BY <1>10, <3>1, <3>2 DEF MakePast
  <2>3. Fault \/ Well
    BY <1>10 DEF MakePast
  <2> QED
    BY <1>10, <1>a, <2>1, <2>2, <2>3, AdminStep DEF MakePast
<1>11. ASSUME LinkPast(a) PROVE IInv' /\ RoutingStep
  <2>0. job[a].key \in Keys
    BY <1>0, <1>11, JobFields DEF LinkPast
  <2>1. SameRows /\ RowsOK' /\ RoutingStep
    BY <1>0, <1>11, QuietRows, IssueRows DEF LinkPast
  <2>2. job' \in [Admins -> Job]
    BY <1>0, <1>11, EndType DEF LinkPast
  <2>3. strayed' \subseteq Keys
    BY <1>11, <1>a, <2>0 DEF LinkPast
  <2>4. Fault \/ Well
    BY <1>11 DEF LinkPast
  <2> QED
    BY <1>11, <1>a, <2>1, <2>2, <2>3, <2>4, AdminStep DEF LinkPast
<1> QED
  BY <1>1, <1>2, <1>3, <1>4, <1>5, <1>6, <1>7, <1>8, <1>9, <1>10, <1>11 DEF Request

-----------------------------------------------------------------------------
(* The poll worker.                                                        *)

LEMMA WorkerFields ==
  ASSUME TypeOK
  PROVE  /\ w.step \in WorkerSteps /\ w.then \in {"scan", "insert"}
         /\ w.rest \subseteq Folders /\ w.uid \in UIDs \cup {0} /\ w.uids \subseteq UIDs
         /\ w.last \in Nat /\ w.last <= MaxUID /\ w.max \in Nat /\ w.max <= MaxUID
         /\ w.list \subseteq Filters
         /\ MaxUID \in Nat
  BY MailboxConstants DEF TypeOK, Worker, UIDs

LEMMA BoxLen ==
  ASSUME TypeOK, NEW f \in Folders
  PROVE  Len(box[f]) \in Nat /\ Len(box[f]) <= MaxUID /\ box[f] \in Seq(Mails)
  BY DEF TypeOK

\* The mail in hand.
LEMMA KeyInHand ==
  ASSUME IInv, InFolder, w.step \notin {"next", "save"}
  PROVE  /\ w.at \in Folders /\ w.uid \in 1 .. Len(box[w.at])
         /\ Key \in Keys /\ Key = KeyOf(w.at, w.uid)
         /\ Mail \in Mails
<1>1. w.at \in Folders /\ w.uid \in 1 .. Len(box[w.at])
  BY DEF IInv, ScanOK
<1>2. Len(box[w.at]) \in Nat /\ Len(box[w.at]) <= MaxUID /\ box[w.at] \in Seq(Mails)
  BY <1>1, BoxLen DEF IInv
<1>3. w.uid \in UIDs /\ Mail \in Mails
  BY <1>1, <1>2, WorkerFields DEF UIDs, Mail, IInv
<1>4. validity[w.at] \in 0 .. MaxFaults
  BY <1>1 DEF IInv, TypeOK
<1> QED
  BY <1>1, <1>3, <1>4 DEF Key, KeyOf, Keys

\* A step of the worker that leaves the cursors alone: what is left to show.
LEMMA WorkerStep ==
  ASSUME IInv, UNCHANGED <<server, folder, job, used, filters>>, KeptRows, RowsOK',
         OneRowPerMail',
         Fault \/ Well, cache' \in Cache, w' \in Worker, ScanOK',
         failed \subseteq failed', failed' \subseteq Keys, strayed' \subseteq Keys
  PROVE  IInv'
<1>1. OneRowPerMail' /\ CursorCovers' /\ SeenOK'
  BY SameCovers, SameSeen DEF IInv
<1>2. ServerOK'
  BY TypeParts DEF IInv, ServerOK, server
<1>3. RunOK'
  <2>1. faults' \in 0 .. MaxFaults /\ job' \in [Admins -> Job]
    BY TypeParts, FaultsType DEF IInv, RunOK
  <2> QED
    BY <2>1 DEF RunOK
<1>4. TablesOK'
  BY TypeParts DEF IInv, TablesOK, RowsOK
<1>5. TypeOK'
  BY <1>2, <1>3, <1>4 DEF TypeOK, TablesOK, ServerOK, RunOK
<1> QED
  BY <1>1, <1>5 DEF IInv

\* The worker goes on in the same folder, with the same mail or having dealt with it.
LEMMA SameFolder ==
  ASSUME IInv, InFolder, UNCHANGED <<server, folder>>, KeptRows, failed \subseteq failed',
         w'.at = w.at, w'.last = w.last, w'.max = w.max, w'.uids = w.uids,
         w'.then = "insert" => /\ w.then = "insert" /\ w'.uid = w.uid
                               /\ w'.step \in {"read", "store", "insert"},
         w'.step = "insert" => w'.then = "insert",
         w'.step = "next" => w.uids # {},
         w'.then # "insert" => \A u : InHandYet(u) => Handled(w.at, u)',
         w'.step \notin {"next", "save"} => w'.uid = w.uid /\ w.step \notin {"next", "save"}
  PROVE  ScanOK'
<1>1. /\ w.at \in Folders /\ folder[w.at].validity = validity[w.at]
      /\ w.last <= w.max /\ w.max <= Len(box[w.at])
      /\ w.uids \subseteq 1 .. Len(box[w.at])
      /\ \A u \in w.uids : \A v \in 1 .. u : w.max < v => v \in w.uids
      /\ \A u \in 1 .. w.max : Handled(w.at, u) \/ InHandYet(u)
      /\ w.step \notin {"next", "save"} => w.uid \in 1 .. Len(box[w.at])
  BY DEF IInv, ScanOK
<1>2. \A u \in 1 .. w.max : Handled(w.at, u)' \/ InHandYet(u)'
  <2> TAKE u \in 1 .. w.max
  <2>1. CASE Handled(w.at, u)
    <3>1. PICK f \in Folders : f = w.at
      BY <1>1
    <3>2. Handled(f, u)
      BY <2>1, <3>1
    <3>3. Handled(f, u)'
      BY <3>2, HandledStays DEF server
    <3>4. f = w'.at
      BY <3>1
    <3> QED
      BY <3>3, <3>4 DEF Handled, Stored, KeyOf
  <2>2. CASE InHandYet(u)
    BY <2>2 DEF InHandYet
  <2> QED
    BY <1>1, <2>1, <2>2
<1> QED
  BY <1>1, <1>2 DEF ScanOK, InFolder, server

\* What a step that touches no row leaves to show.
LEMMA QuietStep ==
  ASSUME IInv, UNCHANGED <<server, folder, ingest, filters, job, used>>,
         Fault \/ Well, cache' \in Cache, w' \in Worker, ScanOK',
         failed \subseteq failed', failed' \subseteq Keys, strayed' \subseteq Keys
  PROVE  IInv' /\ RoutingStep
<1>1. SameRows /\ RowsOK' /\ RoutingStep
  BY QuietRows, TypeParts DEF IInv
<1>2. OneRowPerMail'
  BY <1>1, SameMail DEF IInv
<1> QED
  BY <1>1, <1>2, SameIsKept, WorkerStep

\* The worker between two folders.
Resting(s, R) == [step |-> s, then |-> "scan", rest |-> R, at |-> None,
                  uid |-> 0, uids |-> {}, last |-> 0, max |-> 0, list |-> {}]

LEMMA RestingFields ==
  ASSUME NEW s, NEW R
  PROVE  Resting(s, R).then = "scan" /\ Resting(s, R).step = s
  BY DEF Resting

LEMMA Between ==
  ASSUME NEW s \in {"idle", "read", "scan"}, NEW R \in SUBSET Folders, w' = Resting(s, R)
  PROVE  w' \in Worker /\ ScanOK'
<1>1. MaxUID \in Nat
  BY MailboxConstants
<1>2. w' \in Worker
  BY <1>1 DEF Resting, Worker, WorkerSteps
<1>3. w'.then = "scan" /\ w'.step = s
  BY RestingFields
<1> QED
  BY <1>2, <1>3 DEF ScanOK, InFolder

LEMMA CycleInv ==
  ASSUME IInv, CycleBegin \/ CycleEnd
  PROVE  IInv' /\ RoutingStep
<1>1. w' \in Worker /\ ScanOK'
  <2>1. CASE CycleBegin
    <3>1. w' = Resting("read", Folders)
      BY <2>1 DEF CycleBegin, Asleep, Resting
    <3> QED
      BY <3>1, Between
  <2>2. CASE CycleEnd
    <3>1. w' = Resting("idle", {})
      BY <2>2 DEF CycleEnd, Asleep, Resting
    <3> QED
      BY <3>1, Between
  <2> QED
    BY <2>1, <2>2
<1>3. UNCHANGED <<server, folder, ingest, filters, cache, job, used, failed, strayed>> /\ Well
  BY DEF CycleBegin, CycleEnd, db, others
<1>4. cache \in Cache /\ failed \subseteq Keys /\ strayed \subseteq Keys
  BY DEF IInv, TypeOK
<1> QED
  BY <1>1, <1>3, <1>4, QuietStep

LEMMA FilterReadInv ==
  ASSUME IInv, ReadFilters \/ StoreCache
  PROVE  IInv' /\ RoutingStep
<1>0. /\ w \in Worker /\ cache \in Cache /\ filters \subseteq Filters
      /\ failed \subseteq Keys /\ strayed \subseteq Keys
  BY DEF IInv, TypeOK
<1>1. \E s \in {"store", w.then}, l \in SUBSET Filters :
         w' = [w EXCEPT !.step = s, !.list = l]
  BY <1>0 DEF ReadFilters, StoreCache, Kept, Worker, Cache
<1>2. PICK s \in {"store", w.then}, l \in SUBSET Filters :
         w' = [w EXCEPT !.step = s, !.list = l]
  BY <1>1
<1>3. w' \in Worker
  BY <1>0, <1>2 DEF Worker, WorkerSteps
<1>4. cache' \in Cache
  <2>1. CASE ReadFilters
    BY <1>0, <2>1 DEF ReadFilters, db
  <2>2. CASE StoreCache
    <3>1. w.list \in SUBSET Filters /\ cache' = [fresh |-> TRUE, list |-> w.list]
      BY <1>0, <2>2 DEF StoreCache, Worker
    <3> QED
      BY <3>1 DEF Cache
  <2> QED
    BY <2>1, <2>2
<1>5. UNCHANGED <<server, folder, ingest, filters, job, used, failed, strayed>> /\ Well
  BY DEF ReadFilters, StoreCache, db, others
<1>6. w.step \in {"read", "store"}
  BY DEF ReadFilters, StoreCache
<1>7. ScanOK'
  <2>1. CASE w.then = "scan"
    BY <1>0, <1>2, <2>1 DEF ScanOK, InFolder, Worker
  <2>2. CASE w.then = "insert"
    <3>1. InFolder
      BY <2>2 DEF InFolder
    <3>2. SameRows
      BY <1>5 DEF SameRows
    <3>3. /\ w'.at = w.at /\ w'.last = w.last /\ w'.max = w.max /\ w'.uids = w.uids
          /\ w'.uid = w.uid /\ w'.then = "insert" /\ w'.step \in {"store", "insert"}
      BY <1>0, <1>2, <2>2 DEF Worker
    <3> QED
      BY <1>5, <1>6, <2>2, <3>1, <3>2, <3>3, SameFolder, SameIsKept
  <2> QED
    BY <1>0, <2>1, <2>2 DEF Worker
<1> QED
  BY <1>0, <1>3, <1>4, <1>5, <1>7, QuietStep

LEMMA ReadFailsInv ==
  ASSUME IInv, ReadFails
  PROVE  IInv' /\ RoutingStep
<1>0. w \in Worker /\ cache \in Cache /\ failed \subseteq Keys /\ strayed \subseteq Keys
  BY DEF IInv, TypeOK
<1>1. UNCHANGED <<server, folder, ingest, filters, cache, job, used, strayed>> /\ Fault
  BY DEF ReadFails, db, others
<1>2. CASE w.then = "scan"
  <2>1. w' = [w EXCEPT !.step = "scan"] /\ failed' = failed
    BY <1>2 DEF ReadFails, Go
  <2>2. w' \in Worker
    BY <1>0, <2>1 DEF Worker, WorkerSteps
  <2>3. ScanOK'
    BY <1>0, <1>2, <2>1 DEF ScanOK, InFolder, Worker
  <2> QED
    BY <1>0, <1>1, <2>1, <2>2, <2>3, QuietStep
<1>3. CASE w.then = "insert"
  <2>1. w' = Visited("save") /\ failed' = failed \cup {Key} /\ w.step = "read"
    BY <1>3 DEF ReadFails
  <2>2. w' \in Worker
    BY <1>0, <2>1 DEF Visited, Worker, WorkerSteps
  <2>3. InFolder
    BY <1>3 DEF InFolder
  <2>4. Key \in Keys /\ Key = KeyOf(w.at, w.uid) /\ w.at \in Folders
    BY <2>1, <2>3, KeyInHand
  <2>5. \A u : InHandYet(u) => Handled(w.at, u)'
    <3> SUFFICES ASSUME NEW u, InHandYet(u) PROVE Handled(w.at, u)'
      OBVIOUS
    <3>1. KeyOf(w.at, u)' = Key
      BY <1>0, <1>1, <2>1, <2>4 DEF InHandYet, KeyOf, server, Visited, Worker
    <3> QED
      BY <2>1, <3>1 DEF Handled
  <2>6. ScanOK'
    <3>1. SameRows
      BY <1>1 DEF SameRows
    <3>2. /\ w'.at = w.at /\ w'.last = w.last /\ w'.max = w.max /\ w'.uids = w.uids
          /\ w'.then = "scan" /\ w'.step = "save"
      BY <1>0, <2>1 DEF Visited, Worker
    <3> QED
      BY <1>1, <2>1, <2>3, <2>5, <3>1, <3>2, SameFolder, SameIsKept
  <2> QED
    BY <1>0, <1>1, <2>1, <2>2, <2>4, <2>6, QuietStep
<1> QED
  BY <1>0, <1>2, <1>3 DEF Worker

\* What a step that moves a cursor leaves to show.
LEMMA CursorStep ==
  ASSUME IInv, UNCHANGED <<server, ingest, filters, cache, job, used, failed, strayed>>,
         Fault \/ Well, w' \in Worker, ScanOK',
         folder' \in [Folders -> [validity : 0 .. MaxFaults, last : 0 .. MaxUID]],
         CursorCovers', \A f \in Folders : folder'[f].validity <= validity[f]
  PROVE  IInv' /\ RoutingStep
<1>1. SameRows /\ RowsOK' /\ RoutingStep
  BY QuietRows, TypeParts DEF IInv
<1>2. OneRowPerMail'
  BY <1>1, SameMail DEF IInv
<1>3. faults' \in 0 .. MaxFaults /\ faults <= faults'
  BY FaultsType, TypeParts DEF IInv
<1>4. TypeOK'
  BY <1>1, <1>3 DEF IInv, TypeOK, RowsOK, server
<1>5. SeenOK'
  <2>1. faults' \in Nat /\ faults \in Nat /\ \A f \in Folders : validity[f] \in Nat
    BY <1>3, MailboxConstants DEF IInv, TypeOK
  <2> QED
    BY <1>3, <2>1 DEF SeenOK, IInv, server
<1> QED
  BY <1>1, <1>2, <1>4, <1>5 DEF IInv

\* UpsertFolder leaves every cursor behind the mail that is dealt with.
LEMMA Upserted ==
  ASSUME IInv, NEW f \in Folders, folder' = [folder EXCEPT ![f] = Seen(f)],
         UNCHANGED <<server, ingest, failed>>
  PROVE  /\ folder' \in [Folders -> [validity : 0 .. MaxFaults, last : 0 .. MaxUID]]
         /\ folder'[f] = Seen(f) /\ Seen(f).validity = validity[f]
         /\ Seen(f).last \in Nat /\ Seen(f).last <= Len(box[f]) /\ Seen(f).last <= MaxUID
         /\ \A u \in 1 .. Seen(f).last : Handled(f, u)
         /\ CursorCovers'
         /\ \A g \in Folders : folder'[g].validity <= validity[g]
<1>1. /\ folder \in [Folders -> [validity : 0 .. MaxFaults, last : 0 .. MaxUID]]
      /\ validity \in [Folders -> 0 .. MaxFaults]
      /\ MaxUID \in Nat /\ MaxFaults \in Nat
  BY MailboxConstants DEF IInv, TypeOK
<1>2. Seen(f) \in [validity : 0 .. MaxFaults, last : 0 .. MaxUID] /\ Seen(f).validity = validity[f]
  BY <1>1 DEF Seen
<1>3. folder' \in [Folders -> [validity : 0 .. MaxFaults, last : 0 .. MaxUID]]
  BY <1>1, <1>2
<1>4. folder'[f] = Seen(f) /\ \A g \in Folders : g # f => folder'[g] = folder[g]
  BY <1>1
<1>5. Len(box[f]) \in Nat
  BY BoxLen DEF IInv
<1>6. /\ Seen(f).last \in Nat /\ Seen(f).last <= Len(box[f]) /\ Seen(f).last <= MaxUID
      /\ \A u \in 1 .. Seen(f).last : Handled(f, u)
  <2>1. CASE folder[f].validity = validity[f]
    <3>1. Seen(f) = folder[f]
      BY <2>1 DEF Seen
    <3>2. /\ folder[f].last <= Len(box[f])
          /\ \A u \in 1 .. folder[f].last : Handled(f, u)
      BY <2>1 DEF IInv, CursorCovers, Handled
    <3> QED
      BY <1>1, <3>1, <3>2
  <2>2. CASE folder[f].validity # validity[f]
    <3>1. Seen(f).last = 0
      BY <2>2 DEF Seen
    <3> QED
      BY <1>1, <1>5, <3>1
  <2> QED
    BY <2>1, <2>2
<1>7. CursorCovers'
  <2> SUFFICES ASSUME NEW g \in Folders, folder'[g].validity = validity'[g]
               PROVE  /\ folder'[g].last <= Len(box'[g])
                      /\ \A u \in 1 .. folder'[g].last : Handled(g, u)'
    BY DEF CursorCovers, Handled
  <2>1. \A u : Handled(g, u) => Handled(g, u)'
    BY DEF Handled, Stored, Duplicate, KeyOf, server
  <2>2. CASE g = f
    BY <1>4, <1>6, <2>1, <2>2 DEF server
  <2>3. CASE g # f
    <3>1. folder'[g] = folder[g] /\ folder[g].validity = validity[g]
      BY <1>4, <2>3 DEF server
    <3>2. /\ folder[g].last <= Len(box[g])
          /\ \A u \in 1 .. folder[g].last : Handled(g, u)
      BY <3>1 DEF IInv, CursorCovers, Handled
    <3> QED
      BY <2>1, <3>1, <3>2 DEF server
  <2> QED
    BY <2>2, <2>3
<1>8. \A g \in Folders : folder'[g].validity <= validity[g]
  <2>1. folder'[f].validity <= validity[f]
    BY <1>1, <1>2, <1>4
  <2> QED
    BY <1>4, <2>1 DEF IInv, SeenOK
<1> QED
  BY <1>2, <1>3, <1>4, <1>6, <1>7, <1>8

LEMMA ScanFailsInv ==
  ASSUME IInv, NEW f \in Folders, ScanFails(f)
  PROVE  IInv' /\ RoutingStep
<1>1. UNCHANGED <<server, ingest, filters, cache, job, used, failed, strayed>> /\ Fault
  BY DEF ScanFails, others
<1>2. w' \in Worker
  BY DEF ScanFails, IInv, TypeOK, Worker
<1>3. w.then = "scan" /\ w'.then = "scan" /\ w'.step = "scan"
  BY DEF ScanFails, IInv, TypeOK, Worker, ScanOK
<1>4. ScanOK'
  BY <1>3 DEF ScanOK, InFolder
<1>5. CASE folder' = folder
  BY <1>1, <1>2, <1>4, <1>5, QuietStep DEF IInv, TypeOK
<1>6. CASE folder' = [folder EXCEPT ![f] = Seen(f)]
  BY <1>1, <1>2, <1>4, <1>6, Upserted, CursorStep
<1> QED
  BY <1>5, <1>6 DEF ScanFails

LEMMA ScanInv ==
  ASSUME IInv, NEW f \in Folders, Scan(f)
  PROVE  IInv' /\ RoutingStep
<1>1. UNCHANGED <<server, ingest, filters, cache, job, used, failed, strayed>> /\ Well
  BY DEF Scan, others
<1>2. folder' = [folder EXCEPT ![f] = Seen(f)] /\ w.step = "scan"
  BY DEF Scan
<1>3. w.then = "scan" /\ w \in Worker
  BY <1>2 DEF IInv, TypeOK, Worker, ScanOK
<1>4. CASE w' = [w EXCEPT !.rest = @ \ {f}]
  <2>1. w' \in Worker /\ w'.then = "scan" /\ w'.step = "scan"
    BY <1>2, <1>3, <1>4 DEF Worker
  <2>2. ScanOK'
    BY <2>1 DEF ScanOK, InFolder
  <2> QED
    BY <1>1, <1>2, <2>1, <2>2, Upserted, CursorStep
<1>5. ASSUME box[f] # <<>>,
             w' = [w EXCEPT !.step = "next", !.rest = @ \ {f}, !.at = f, !.uid = 0,
                            !.uids = Fetched(f, Seen(f).last),
                            !.last = Seen(f).last, !.max = Seen(f).last]
      PROVE  IInv' /\ RoutingStep
  <2> DEFINE last == Seen(f).last
             n == Len(box[f])
  <2>1. /\ last \in Nat /\ last <= n /\ last <= MaxUID
        /\ \A u \in 1 .. last : Handled(f, u)
        /\ folder'[f].validity = validity[f]
    BY <1>1, <1>2, Upserted
  <2>2. n \in Nat \ {0} /\ n <= MaxUID /\ MaxUID \in Nat
    <3>1. box[f] \in Seq(Mails) /\ n \in Nat /\ n <= MaxUID
      BY BoxLen DEF IInv
    <3>2. n # 0
      BY <1>5, <3>1
    <3> QED
      BY <3>1, <3>2, MailboxConstants
  <2> HIDE DEF last, n
  <2>3. Fetched(f, last) = IF last < n THEN last + 1 .. n ELSE {n}
    BY DEF Fetched, n
  <2>4. /\ Fetched(f, last) \subseteq 1 .. n /\ Fetched(f, last) # {}
        /\ \A u \in Fetched(f, last) : \A v \in 1 .. u : last < v => v \in Fetched(f, last)
    <3>1. CASE last < n
      <4>1. Fetched(f, last) = last + 1 .. n
        BY <2>3, <3>1
      <4>2. n \in last + 1 .. n /\ last + 1 .. n \subseteq 1 .. n
        BY <2>1, <2>2, <3>1
      <4>3. \A u \in last + 1 .. n : \A v \in 1 .. u : last < v => v \in last + 1 .. n
        BY <2>1, <2>2
      <4> QED
        BY <4>1, <4>2, <4>3
    <3>2. CASE ~(last < n)
      <4>1. Fetched(f, last) = {n} /\ last = n
        BY <2>1, <2>2, <2>3, <3>2
      <4>2. \A v \in 1 .. n : ~(n < v)
        BY <2>2
      <4>3. n \in 1 .. n
        BY <2>2
      <4> QED
        BY <4>1, <4>2, <4>3
    <3> QED
      BY <3>1, <3>2
  <2>5. w' = [w EXCEPT !.step = "next", !.rest = @ \ {f}, !.at = f, !.uid = 0,
                       !.uids = Fetched(f, last), !.last = last, !.max = last]
    BY <1>5 DEF last
  <2>6. Fetched(f, last) \subseteq UIDs /\ last \in 0 .. MaxUID
    BY <2>1, <2>2, <2>4 DEF UIDs
  <2>7. w' \in Worker
    BY <1>3, <2>5, <2>6 DEF Worker, WorkerSteps
  <2>8. /\ w'.step = "next" /\ w'.then = "scan" /\ w'.at = f /\ w'.uids = Fetched(f, last)
        /\ w'.last = last /\ w'.max = last
    BY <1>3, <2>5 DEF Worker
  <2>9. \A u \in 1 .. last : Handled(f, u)'
    <3>1. SameRows
      BY <1>1 DEF SameRows
    <3> QED
      BY <1>1, <2>1, <3>1, HandledStays, SameIsKept
  <2>10. \A u \in 1 .. w'.max : Handled(w.at, u)'
    BY <2>8, <2>9 DEF Handled, Stored, KeyOf
  <2>11. ScanOK'
    BY <1>1, <2>1, <2>2, <2>4, <2>8, <2>10 DEF ScanOK, server, n
  <2> QED
    BY <1>1, <1>2, <2>7, <2>11, Upserted, CursorStep
<1> QED
  BY <1>4, <1>5 DEF Scan

\* The least of the envelopes: what lies below it, beyond maxUID, is dealt with.
LEMMA NextMailInv ==
  ASSUME IInv, NextMail
  PROVE  IInv' /\ RoutingStep
<1> DEFINE u == Min(w.uids)
<1>1. UNCHANGED <<server, folder, ingest, filters, cache, job, used, failed, strayed>> /\ Well
  BY DEF NextMail, db, others
<1>2. w.step = "next" /\ w.uids # {} /\ w.then = "scan" /\ InFolder /\ w \in Worker
  BY DEF NextMail, IInv, TypeOK, Worker, ScanOK, InFolder
<1>3. /\ w.at \in Folders /\ folder[w.at].validity = validity[w.at]
      /\ w.last <= w.max /\ w.max <= Len(box[w.at])
      /\ w.uids \subseteq 1 .. Len(box[w.at])
      /\ \A x \in w.uids : \A v \in 1 .. x : w.max < v => v \in w.uids
      /\ \A v \in 1 .. w.max : Handled(w.at, v)
  BY <1>2 DEF IInv, ScanOK, InHandYet
<1>4. u \in w.uids /\ \A y \in w.uids : u <= y
  <2>1. w.uids \in SUBSET Nat
    BY WorkerFields DEF IInv, UIDs
  <2> QED
    BY <1>2, <2>1, MinOf
<1>5. w' = [w EXCEPT !.step = "read", !.then = "insert", !.uid = u, !.uids = @ \ {u},
                     !.max = Raised(u)]
  BY DEF NextMail
<1> HIDE DEF u
<1>6. /\ w.uids \subseteq UIDs /\ u \in UIDs /\ u \in Nat /\ w.max \in Nat /\ w.last \in Nat
      /\ w.max <= MaxUID /\ u <= MaxUID /\ MaxUID \in Nat
  BY <1>4, WorkerFields DEF IInv, UIDs
<1>7. /\ Raised(u) \in Nat /\ w.max <= Raised(u) /\ u <= Raised(u) /\ Raised(u) \in 0 .. MaxUID
      /\ Raised(u) = u \/ Raised(u) = w.max
  BY <1>6 DEF Raised
<1>8. w' \in Worker
  BY <1>2, <1>5, <1>6, <1>7 DEF Worker, WorkerSteps
<1>9. /\ w'.step = "read" /\ w'.then = "insert" /\ w'.at = w.at /\ w'.uid = u
      /\ w'.uids = w.uids \ {u} /\ w'.last = w.last /\ w'.max = Raised(u)
  BY <1>2, <1>5 DEF Worker
<1>10. Len(box[w.at]) \in Nat /\ u \in 1 .. Len(box[w.at])
  BY <1>3, <1>4, BoxLen DEF IInv
<1>11. \A x \in w'.uids : \A v \in 1 .. x : w'.max < v => v \in w'.uids
  <2> SUFFICES ASSUME NEW x \in w.uids, NEW v \in 1 .. x, Raised(u) < v
               PROVE  v \in w.uids \ {u}
    BY <1>9
  <2>1. x \in Nat
    BY <1>6 DEF UIDs
  <2>2. w.max < v /\ v # u
    BY <1>6, <1>7, <2>1
  <2> QED
    BY <1>3, <2>2
<1>12. \A v \in 1 .. w'.max : Handled(w.at, v)' \/ InHandYet(v)'
  <2> SUFFICES ASSUME NEW v \in 1 .. Raised(u), v # u PROVE Handled(w.at, v)'
    BY <1>9 DEF InHandYet
  <2>1. v \in 1 .. w.max
    <3> SUFFICES ASSUME w.max < v PROVE FALSE
      BY <1>6, <1>7
    <3>1. v \in 1 .. u
      BY <1>6, <1>7
    <3>2. v \in w.uids
      BY <1>3, <1>4, <3>1
    <3>3. u <= v
      BY <1>4, <3>2
    <3> QED
      BY <1>6, <3>1, <3>3
  <2>2. Handled(w.at, v)
    BY <1>3, <2>1
  <2> QED
    BY <1>1, <1>9, <2>2 DEF Handled, Stored, Duplicate, KeyOf, server
<1>13. ScanOK'
  <2>1. w'.last <= w'.max /\ w'.max <= Len(box[w.at])
    BY <1>3, <1>6, <1>7, <1>9, <1>10
  <2>2. w'.uids \subseteq 1 .. Len(box[w.at])
    BY <1>3, <1>9
  <2> QED
    BY <1>1, <1>3, <1>9, <1>10, <1>11, <1>12, <2>1, <2>2 DEF ScanOK, InFolder, server
<1>14. cache \in Cache /\ failed \subseteq Keys /\ strayed \subseteq Keys
  BY DEF IInv, TypeOK
<1> QED
  BY <1>1, <1>8, <1>13, <1>14, QuietStep

\* The worker has dealt with the mail in hand.
LEMMA VisitedFields ==
  ASSUME w \in Worker, NEW s \in WorkerSteps
  PROVE  /\ Visited(s) \in Worker
         /\ Visited(s).step = s /\ Visited(s).then = "scan" /\ Visited(s).at = w.at
         /\ Visited(s).uids = w.uids /\ Visited(s).last = w.last /\ Visited(s).max = w.max
         /\ Visited(s).uid = w.uid
  BY DEF Visited, Worker

LEMMA AfterFailureFields ==
  ASSUME w \in Worker
  PROVE  /\ AfterFailure \in Worker
         /\ AfterFailure.then = "scan" /\ AfterFailure.at = w.at /\ AfterFailure.uids = w.uids
         /\ AfterFailure.last = w.last /\ AfterFailure.max = w.max
         /\ AfterFailure.step = IF w.uids = {} THEN "save" ELSE "next"
<1>1. CASE w.uids = {}
  BY <1>1, VisitedFields DEF AfterFailure, WorkerSteps
<1>2. CASE w.uids # {}
  <2>1. AfterFailure = [Visited("next") EXCEPT !.uid = 0]
    BY <1>2 DEF AfterFailure
  <2>2. Visited("next") \in Worker
    BY VisitedFields DEF WorkerSteps
  <2>3. /\ AfterFailure \in Worker /\ AfterFailure.then = Visited("next").then
        /\ AfterFailure.at = Visited("next").at /\ AfterFailure.uids = Visited("next").uids
        /\ AfterFailure.last = Visited("next").last /\ AfterFailure.max = Visited("next").max
        /\ AfterFailure.step = Visited("next").step
    BY <2>1, <2>2 DEF Worker
  <2> QED
    BY <1>2, <2>3, VisitedFields DEF WorkerSteps
<1> QED
  BY <1>1, <1>2

\* The new row is for the mail in hand, which no row has yet.
LEMMA AddRowInv ==
  ASSUME IInv, NEW k \in Keys, NEW m \in Mails, NEW x \in filters \cup {None},
         ~Duplicate(k, m), AddRow(k, m, x), UNCHANGED filters
  PROVE  KeptRows /\ RowsOK' /\ OneRowPerMail' /\ RoutingStep /\ k \in DOMAIN ingest'
<1>1. /\ DOMAIN ingest' = DOMAIN ingest \cup {k} /\ k \notin DOMAIN ingest
      /\ \A j \in DOMAIN ingest : ingest'[j] = ingest[j]
      /\ ingest'[k] = [mail |-> m, filter |-> x, routed |-> x # None, issues |-> 0,
                       linked |-> FALSE]
  BY DEF AddRow, Duplicate
<1>2. /\ ingest'[k].mail = m /\ ingest'[k].filter = x
  BY <1>1
<1>3. ingest'[k] \in Row
  <2>1. x \in Filters \cup {None}
    BY DEF IInv, TypeOK
  <2> QED
    BY <1>1, <2>1 DEF Row
<1>4. m \notin Unnamed => \A j \in DOMAIN ingest : ingest[j].mail # m
  BY DEF Duplicate
<1>5. OneRowPerMail'
  <2> SUFFICES ASSUME NEW i \in DOMAIN ingest', NEW j \in DOMAIN ingest', i # j,
                      ingest'[i].mail = ingest'[j].mail, ingest'[i].mail \notin Unnamed
               PROVE  FALSE
    BY DEF OneRowPerMail
  <2>1. CASE i \in DOMAIN ingest /\ j \in DOMAIN ingest
    BY <1>1, <2>1 DEF IInv, OneRowPerMail
  <2>2. CASE i = k \/ j = k
    BY <1>1, <1>2, <1>4, <2>2
  <2> QED
    BY <1>1, <2>1, <2>2
<1> QED
  BY <1>1, <1>2, <1>3, <1>5 DEF KeptRows, RowsOK, RoutingStep, IInv, TypeOK

LEMMA InsertInv ==
  ASSUME IInv, InsertIngest
  PROVE  IInv' /\ RoutingStep
<1>1. UNCHANGED <<server, folder, filters, cache, job, used, strayed>> /\ w.step = "insert"
  BY DEF InsertIngest, others
<1>2. w \in Worker /\ cache \in Cache /\ failed \subseteq Keys /\ strayed \subseteq Keys
  BY DEF IInv, TypeOK
<1>3. w.then = "insert" /\ InFolder
  BY <1>1 DEF IInv, ScanOK, InFolder
<1>4. /\ w.at \in Folders /\ w.uid \in 1 .. Len(box[w.at])
      /\ Key \in Keys /\ Key = KeyOf(w.at, w.uid) /\ Mail \in Mails
  BY <1>1, <1>3, KeyInHand
<1>a. PICK f \in Folders, n \in 1 .. Len(box[w.at]) : f = w.at /\ n = w.uid
  BY <1>4
<1>5. ASSUME NEW s, w' \in Worker, w'.then = "scan", w'.at = w.at, w'.uids = w.uids,
             w'.last = w.last, w'.max = w.max, w'.step = s,
             s \in {"next", "save"} \/ (s = "check" /\ w'.uid = w.uid),
             s = "next" => w.uids # {},
             KeptRows, failed \subseteq failed', Handled(f, n)'
      PROVE  ScanOK'
  <2>1. \A u : InHandYet(u) => Handled(w.at, u)'
    <3> SUFFICES ASSUME NEW u, u = n PROVE Handled(w.at, u)'
      BY <1>a DEF InHandYet
    <3>1. w'.at = f
      BY <1>5, <1>a
    <3> QED
      BY <1>5, <3>1 DEF Handled, Stored, KeyOf
  <2> QED
    BY <1>1, <1>3, <1>5, <2>1, SameFolder
<1>6. PICK x \in MatchFrom(w.list, Mail) :
       \/ /\ Duplicate(Key, Mail)
          /\ w' = Visited("save")
          /\ Well /\ UNCHANGED <<ingest, failed>>
       \/ /\ ~Duplicate(Key, Mail) /\ x \in filters \cup {None}
          /\ AddRow(Key, Mail, x)
          /\ w' = Visited(IF x \in ToIssue THEN "check" ELSE "save")
          /\ Well /\ UNCHANGED failed
       \/ /\ Fault \/ (~Duplicate(Key, Mail) /\ x \notin filters \cup {None} /\ Well)
          /\ failed' = failed \cup {Key}
          /\ w' = AfterFailure
          /\ UNCHANGED ingest
  BY DEF InsertIngest
<1>7. CASE Duplicate(Key, Mail) /\ w' = Visited("save") /\ Well /\ UNCHANGED <<ingest, failed>>
  <2>1. SameRows
    BY <1>7 DEF SameRows
  <2>2. Handled(f, n)'
    <3>1. Handled(f, n)
      BY <1>4, <1>7, <1>a DEF Handled, Stored, Mail
    <3> QED
      BY <1>1, <1>7, <2>1, <3>1, HandledStays, SameIsKept
  <2>3. w' \in Worker /\ ScanOK'
    BY <1>2, <1>5, <1>7, <2>1, <2>2, SameIsKept, VisitedFields DEF WorkerSteps
  <2> QED
    BY <1>1, <1>2, <1>7, <2>3, QuietStep
<1>8. CASE /\ ~Duplicate(Key, Mail) /\ x \in filters \cup {None}
           /\ AddRow(Key, Mail, x)
           /\ w' = Visited(IF x \in ToIssue THEN "check" ELSE "save")
           /\ Well /\ UNCHANGED failed
  <2>1. KeptRows /\ RowsOK' /\ OneRowPerMail' /\ RoutingStep /\ Key \in DOMAIN ingest'
    BY <1>1, <1>4, <1>8, AddRowInv
  <2> DEFINE s == IF x \in ToIssue THEN "check" ELSE "save"
  <2>2. s \in {"check", "save"} /\ s \in WorkerSteps
    BY DEF WorkerSteps
  <2>3. w' = Visited(s)
    BY <1>8
  <2> HIDE DEF s
  <2>4. /\ w' \in Worker /\ w'.then = "scan" /\ w'.at = w.at /\ w'.uids = w.uids
        /\ w'.last = w.last /\ w'.max = w.max /\ w'.step = s /\ w'.uid = w.uid
    BY <1>2, <2>2, <2>3, VisitedFields
  <2>5. Handled(f, n)'
    <3>1. KeyOf(f, n)' = Key
      BY <1>1, <1>4, <1>a DEF KeyOf, server
    <3> QED
      BY <2>1, <3>1 DEF Handled, Stored, Duplicate
  <2>6. ScanOK'
    BY <1>5, <1>8, <2>1, <2>2, <2>4, <2>5
  <2> QED
    BY <1>1, <1>2, <1>8, <2>1, <2>4, <2>6, WorkerStep
<1>9. CASE /\ Fault \/ (~Duplicate(Key, Mail) /\ x \notin filters \cup {None} /\ Well)
           /\ failed' = failed \cup {Key}
           /\ w' = AfterFailure
           /\ UNCHANGED ingest
  <2>1. SameRows
    BY <1>9 DEF SameRows
  <2>2. Handled(f, n)'
    <3>1. KeyOf(f, n)' = Key
      BY <1>1, <1>4, <1>a DEF KeyOf, server
    <3> QED
      BY <1>9, <3>1 DEF Handled
  <2>3. w' \in Worker /\ ScanOK'
    BY <1>2, <1>5, <1>9, <2>1, <2>2, SameIsKept, AfterFailureFields
  <2> QED
    BY <1>1, <1>2, <1>4, <1>9, <2>3, QuietStep
<1> QED
  BY <1>6, <1>7, <1>8, <1>9

LEMMA AfterSaveInv ==
  ASSUME IInv, w.step = "save", NEW l \in {w.last, w.max}, w' = AfterSave(l),
         UNCHANGED <<server, ingest, failed>>,
         \A f \in Folders : folder'[f].validity = folder[f].validity
  PROVE  w' \in Worker /\ ScanOK'
<1>1. w \in Worker /\ InFolder /\ w.then = "scan"
  BY DEF IInv, TypeOK, Worker, ScanOK, InFolder
<1>2. CASE w.uids = {}
  <2>1. w' = Resting("scan", w.rest) /\ w.rest \in SUBSET Folders
    BY <1>1, <1>2 DEF AfterSave, Asleep, Resting, Worker
  <2> QED
    BY <2>1, Between
<1>3. CASE w.uids # {}
  <2>1. w' = [w EXCEPT !.step = "next", !.last = l, !.uid = 0]
    BY <1>3 DEF AfterSave
  <2>2. /\ w'.step = "next" /\ w'.then = "scan" /\ w'.at = w.at /\ w'.uids = w.uids
        /\ w'.last = l /\ w'.max = w.max
    BY <1>1, <2>1 DEF Worker
  <2>3. w' \in Worker
    BY <1>1, <2>1 DEF Worker, WorkerSteps
  <2>4. /\ w.at \in Folders /\ folder[w.at].validity = validity[w.at]
        /\ w.last <= w.max /\ w.max <= Len(box[w.at])
        /\ w.uids \subseteq 1 .. Len(box[w.at])
        /\ \A x \in w.uids : \A v \in 1 .. x : w.max < v => v \in w.uids
        /\ \A v \in 1 .. w.max : Handled(w.at, v)
    BY <1>1 DEF IInv, ScanOK, InHandYet
  <2>5. l <= w.max
    BY <2>4, WorkerFields DEF IInv
  <2>6. \A v \in 1 .. w'.max : Handled(w.at, v)'
    BY <2>2, <2>4 DEF Handled, Stored, Duplicate, KeyOf, server
  <2> QED
    BY <1>3, <2>2, <2>3, <2>4, <2>5, <2>6 DEF ScanOK, server
<1> QED
  BY <1>2, <1>3

LEMMA SaveInv ==
  ASSUME IInv, SaveCursor
  PROVE  IInv' /\ RoutingStep
<1>1. UNCHANGED <<server, ingest, filters, cache, job, used, failed, strayed>> /\ w.step = "save"
  BY DEF SaveCursor, others
<1>2. /\ w.at \in Folders /\ w.max <= Len(box[w.at])
      /\ \A v \in 1 .. w.max : Handled(w.at, v)
      /\ w.max \in Nat /\ w.max <= MaxUID /\ MaxUID \in Nat
  <2>1. InFolder /\ w.then = "scan"
    BY <1>1 DEF IInv, TypeOK, Worker, ScanOK, InFolder
  <2> QED
    BY <2>1, WorkerFields DEF IInv, ScanOK, InHandYet
<1>3. cache \in Cache /\ failed \subseteq Keys /\ strayed \subseteq Keys
  BY DEF IInv, TypeOK
<1>4. CASE /\ folder' = [folder EXCEPT ![w.at].last = IF @ < w.max THEN w.max ELSE @]
           /\ w' = AfterSave(w.max)
           /\ Well
  <2>1. PICK g \in Folders : g = w.at
    BY <1>2
  <2>2. folder \in [Folders -> [validity : 0 .. MaxFaults, last : 0 .. MaxUID]]
    BY DEF IInv, TypeOK
  <2> DEFINE n == IF folder[g].last < w.max THEN w.max ELSE folder[g].last
  <2>3. n \in {folder[g].last, w.max} /\ n \in 0 .. MaxUID
    BY <1>2, <2>1, <2>2
  <2>4. folder' = [folder EXCEPT ![g] = [folder[g] EXCEPT !.last = n]]
    BY <1>4, <2>1, <2>2
  <2> HIDE DEF n
  <2>5. /\ folder' \in [Folders -> [validity : 0 .. MaxFaults, last : 0 .. MaxUID]]
        /\ \A f \in Folders : folder'[f].validity = folder[f].validity
        /\ folder'[g].last = n
        /\ \A f \in Folders : f # g => folder'[f] = folder[f]
    BY <2>2, <2>3, <2>4
  <2>6. CursorCovers'
    <3> SUFFICES ASSUME NEW f \in Folders, folder'[f].validity = validity'[f]
                 PROVE  /\ folder'[f].last <= Len(box'[f])
                        /\ \A u \in 1 .. folder'[f].last : Handled(f, u)'
      BY DEF CursorCovers, Handled
    <3>1. /\ folder[f].last <= Len(box[f])
          /\ \A u \in 1 .. folder[f].last : Handled(f, u)
      BY <1>1, <2>5 DEF IInv, CursorCovers, Handled, server
    <3>2. /\ folder'[f].last <= Len(box[f])
          /\ \A u \in 1 .. folder'[f].last : Handled(f, u)
      <4>1. CASE folder'[f].last = folder[f].last
        BY <3>1, <4>1
      <4>2. CASE f = g /\ folder'[f].last = w.max
        BY <1>2, <2>1, <4>2
      <4> QED
        BY <2>3, <2>5, <4>1, <4>2
    <3>3. \A u : Handled(f, u) => Handled(f, u)'
      BY <1>1 DEF Handled, Stored, Duplicate, KeyOf, server
    <3> QED
      BY <1>1, <3>2, <3>3 DEF server
  <2>7. w' \in Worker /\ ScanOK'
    BY <1>1, <1>4, <2>5, AfterSaveInv
  <2> QED
    BY <1>1, <1>4, <2>5, <2>6, <2>7, CursorStep DEF IInv, SeenOK
<1>5. CASE (Fault \/ Well) /\ w' = AfterSave(w.last) /\ UNCHANGED folder
  <2>1. w' \in Worker /\ ScanOK'
    BY <1>1, <1>5, AfterSaveInv
  <2> QED
    BY <1>1, <1>3, <1>5, <2>1, QuietStep
<1> QED
  BY <1>4, <1>5 DEF SaveCursor

\* The worker makes the issue of the mail in hand.
LEMMA AutoCreateInv ==
  ASSUME IInv, CheckIssue \/ MakeIssue \/ LinkIssue
  PROVE  IInv' /\ RoutingStep
<1>1. /\ UNCHANGED <<server, folder, filters, cache, job, used, failed>>
      /\ w.step \in {"check", "create", "link"} /\ (Fault \/ Well)
  BY DEF CheckIssue, MakeIssue, LinkIssue, db, others
<1>2. w \in Worker /\ cache \in Cache /\ failed \subseteq Keys /\ strayed \subseteq Keys
  BY DEF IInv, TypeOK
<1>3. InFolder /\ w.then = "scan"
  BY <1>1, <1>2 DEF InFolder, IInv, ScanOK, Worker
<1>4. Key \in Keys
  BY <1>1, <1>3, KeyInHand
<1>5. \E s \in {"create", "link", "save"} : w' = [w EXCEPT !.step = s]
  BY DEF CheckIssue, MakeIssue, LinkIssue, Go
<1>6. PICK s \in {"create", "link", "save"} : w' = [w EXCEPT !.step = s]
  BY <1>5
<1>7. /\ w' \in Worker /\ w'.then = "scan" /\ w'.step = s /\ w'.at = w.at /\ w'.uid = w.uid
      /\ w'.uids = w.uids /\ w'.last = w.last /\ w'.max = w.max
  BY <1>2, <1>3, <1>6 DEF Worker, WorkerSteps
<1>8. SameRows /\ RowsOK' /\ RoutingStep
  <2>1. TablesOK
    BY TypeParts DEF IInv
  <2>2. CASE UNCHANGED ingest
    BY <1>1, <2>1, <2>2, QuietRows
  <2>3. CASE CreateIssue(Key) \/ InsertIngestIssue(Key)
    BY <1>1, <2>1, <2>3, IssueRows
  <2> QED
    BY <2>2, <2>3 DEF CheckIssue, MakeIssue, LinkIssue, db
<1>9. strayed' \subseteq Keys
  BY <1>2, <1>4, CheckedType, TypeParts DEF CheckIssue, MakeIssue, LinkIssue, IInv
<1>10. ScanOK'
  <2>1. \A u : ~InHandYet(u)
    BY <1>3 DEF InHandYet
  <2> QED
    BY <1>1, <1>3, <1>7, <1>8, <2>1, SameFolder, SameIsKept
<1>11. OneRowPerMail'
  BY <1>8, SameMail DEF IInv
<1> QED
  BY <1>1, <1>2, <1>7, <1>8, <1>9, <1>10, <1>11, SameIsKept, WorkerStep

-----------------------------------------------------------------------------
(* The server, the operator and the process.                               *)

\* One more mail in a folder: what was dealt with stays so.
LEMMA ArriveInv ==
  ASSUME IInv, NEW f \in Folders, NEW m \in Mails, Arrive(f, m)
  PROVE  IInv' /\ RoutingStep
<1>1. /\ UNCHANGED <<validity, folder, ingest, filters, cache, w, job, used, failed, strayed>>
      /\ faults' = faults /\ Len(box[f]) < MaxUID
  BY DEF Arrive, Well
<1>2. /\ box \in [Folders -> Seq(Mails)] /\ MaxUID \in Nat
      /\ \A g \in Folders : Len(box[g]) <= MaxUID
  BY MailboxConstants DEF IInv, TypeOK
<1>3. box' = [box EXCEPT ![f] = Append(box[f], m)]
  BY DEF Arrive
<1>4. ASSUME NEW g \in Folders
      PROVE  /\ box'[g] \in Seq(Mails) /\ Len(box'[g]) <= MaxUID
             /\ Len(box[g]) <= Len(box'[g]) /\ Len(box[g]) \in Nat
             /\ \A u \in 1 .. Len(box[g]) : box'[g][u] = box[g][u]
  <2>1. CASE g = f
    <3>1. box'[g] = Append(box[f], m) /\ box[f] \in Seq(Mails) /\ Len(box[f]) \in Nat
      BY <1>2, <1>3, <2>1
    <3> QED
      BY <1>1, <1>2, <2>1, <3>1
  <2>2. CASE g # f
    BY <1>2, <1>3, <2>2
  <2> QED
    BY <2>1, <2>2
<1>5. box' \in [Folders -> Seq(Mails)]
  BY <1>2, <1>3, <1>4
<1>6. TypeOK'
  BY <1>1, <1>4, <1>5 DEF IInv, TypeOK
<1>7. ASSUME NEW g \in Folders, NEW u \in 1 .. Len(box[g]), Handled(g, u)
      PROVE  Handled(g, u)'
  <2>1. box'[g][u] = box[g][u]
    BY <1>4
  <2> QED
    BY <1>1, <1>7, <2>1 DEF Handled, Stored, Duplicate, KeyOf
<1>8. CursorCovers'
  <2> SUFFICES ASSUME NEW g \in Folders, folder[g].validity = validity[g]
               PROVE  /\ folder[g].last <= Len(box'[g])
                      /\ \A u \in 1 .. folder[g].last : Handled(g, u)'
    BY <1>1 DEF CursorCovers, Handled
  <2>1. /\ folder[g].last <= Len(box[g]) /\ folder[g].last \in Nat
        /\ \A u \in 1 .. folder[g].last : Handled(g, u)
    BY DEF IInv, CursorCovers, Handled, TypeOK
  <2>2. 1 .. folder[g].last \subseteq 1 .. Len(box[g])
    BY <1>4, <2>1
  <2> QED
    BY <1>4, <1>7, <2>1, <2>2
<1>9. ScanOK'
  <2>1. CASE ~InFolder
    BY <1>1, <2>1 DEF IInv, ScanOK, InFolder
  <2>2. CASE InFolder
    <3>1. /\ w.at \in Folders /\ folder[w.at].validity = validity[w.at]
          /\ w.last <= w.max /\ w.max <= Len(box[w.at]) /\ w.max \in Nat
          /\ w.uids \subseteq 1 .. Len(box[w.at])
          /\ \A u \in w.uids : \A v \in 1 .. u : w.max < v => v \in w.uids
          /\ \A u \in 1 .. w.max : Handled(w.at, u) \/ InHandYet(u)
          /\ w.step \notin {"next", "save"} => w.uid \in 1 .. Len(box[w.at])
      BY <2>2, WorkerFields DEF IInv, ScanOK
    <3>2. PICK g \in Folders : g = w.at
      BY <3>1
    <3>3. /\ w.max <= Len(box'[g])
          /\ 1 .. Len(box[g]) \subseteq 1 .. Len(box'[g])
          /\ 1 .. w.max \subseteq 1 .. Len(box[g])
      <4>1. Len(box'[g]) \in Nat
        BY <1>4
      <4> QED
        BY <1>4, <3>1, <3>2, <4>1
    <3>4. \A u \in 1 .. w.max : Handled(w.at, u)' \/ InHandYet(u)'
      <4> SUFFICES ASSUME NEW u \in 1 .. w.max, Handled(g, u) PROVE Handled(w.at, u)'
        BY <1>1, <3>1, <3>2 DEF InHandYet
      <4>1. Handled(g, u)'
        BY <1>7, <3>3
      <4>2. w'.at = g
        BY <1>1, <3>2
      <4> QED
        BY <4>1, <4>2 DEF Handled, Stored, KeyOf
    <3>5. w.uids \subseteq 1 .. Len(box'[g])
      BY <3>1, <3>2, <3>3
    <3>6. w.step \notin {"next", "save"} => w.uid \in 1 .. Len(box'[g])
      BY <3>1, <3>2, <3>3
    <3> QED
      BY <1>1, <3>1, <3>2, <3>3, <3>4, <3>5, <3>6 DEF IInv, ScanOK, InFolder
  <2> QED
    BY <2>1, <2>2
<1>10. OneRowPerMail' /\ SeenOK' /\ RoutingStep
  BY <1>1 DEF IInv, OneRowPerMail, SeenOK, RoutingStep
<1> QED
  BY <1>6, <1>8, <1>9, <1>10 DEF IInv

\* The cursor of a folder that was renumbered stands for nothing any more.
LEMMA RenumberInv ==
  ASSUME IInv, NEW f \in Folders, Renumber(f)
  PROVE  IInv' /\ RoutingStep
<1>1. /\ UNCHANGED <<box, folder, ingest, filters, cache, w, job, used, failed, strayed>>
      /\ w.at # f /\ validity' = [validity EXCEPT ![f] = validity[f] + 1]
      /\ faults < MaxFaults /\ faults' = faults + 1
  BY DEF Renumber, Fault
<1>2. /\ validity \in [Folders -> 0 .. MaxFaults] /\ faults \in Nat /\ MaxFaults \in Nat
      /\ \A g \in Folders : folder[g].validity \in Nat
  BY MailboxConstants DEF IInv, TypeOK
<1>3. /\ validity'[f] = validity[f] + 1 /\ validity[f] \in Nat
      /\ \A g \in Folders : g # f => validity'[g] = validity[g]
  BY <1>1, <1>2
<1>4. SeenOK'
  <2> SUFFICES ASSUME NEW g \in Folders
               PROVE  folder[g].validity <= validity'[g] /\ validity'[g] <= faults + 1
    BY <1>1 DEF SeenOK
  <2>1. folder[g].validity <= validity[g] /\ validity[g] <= faults /\ validity[g] \in Nat
    BY <1>2 DEF IInv, SeenOK
  <2>2. validity'[g] = validity[g] \/ validity'[g] = validity[g] + 1
    BY <1>3
  <2> QED
    BY <1>2, <2>1, <2>2
<1>5. TypeOK'
  <2>1. validity[f] + 1 \in 0 .. MaxFaults
    BY <1>1, <1>2, <1>3 DEF IInv, SeenOK
  <2>2. validity' \in [Folders -> 0 .. MaxFaults]
    BY <1>1, <1>2, <2>1
  <2>3. faults' \in 0 .. MaxFaults
    BY <1>1, <1>2
  <2> QED
    BY <1>1, <2>2, <2>3 DEF IInv, TypeOK
<1>6. \A g \in Folders : \A u : g # f /\ Handled(g, u) => Handled(g, u)'
  BY <1>1, <1>3 DEF Handled, Stored, Duplicate, KeyOf
<1>7. CursorCovers'
  <2> SUFFICES ASSUME NEW g \in Folders, folder[g].validity = validity'[g]
               PROVE  /\ folder[g].last <= Len(box[g])
                      /\ \A u \in 1 .. folder[g].last : Handled(g, u)'
    BY <1>1 DEF CursorCovers, Handled
  <2>1. g # f
    <3>1. folder[f].validity <= validity[f]
      BY DEF IInv, SeenOK
    <3> QED
      BY <1>2, <1>3, <3>1
  <2>2. /\ folder[g].last <= Len(box[g])
        /\ \A u \in 1 .. folder[g].last : Handled(g, u)
    BY <1>3, <2>1 DEF IInv, CursorCovers, Handled
  <2> QED
    BY <1>6, <2>1, <2>2
<1>8. ScanOK'
  <2>1. CASE ~InFolder
    BY <1>1, <2>1 DEF IInv, ScanOK, InFolder
  <2>2. CASE InFolder
    <3>1. PICK g \in Folders : g = w.at /\ g # f
      BY <1>1, <2>2 DEF IInv, ScanOK
    <3>2. \A u \in 1 .. w.max : Handled(g, u) \/ InHandYet(u)
      BY <2>2, <3>1 DEF IInv, ScanOK
    <3>3. \A u \in 1 .. w.max : Handled(w.at, u)' \/ InHandYet(u)'
      <4> SUFFICES ASSUME NEW u \in 1 .. w.max, Handled(g, u) PROVE Handled(w.at, u)'
        BY <1>1, <3>2 DEF InHandYet
      <4>1. Handled(g, u)' /\ w'.at = g
        BY <1>1, <1>6, <3>1
      <4> QED
        BY <4>1 DEF Handled, Stored, KeyOf
    <3>4. validity'[w.at] = validity[w.at]
      BY <1>3, <3>1
    <3> QED
      BY <1>1, <2>2, <3>1, <3>3, <3>4 DEF IInv, ScanOK, InFolder
  <2> QED
    BY <2>1, <2>2
<1>9. OneRowPerMail' /\ RoutingStep
  BY <1>1 DEF IInv, OneRowPerMail, RoutingStep
<1> QED
  BY <1>4, <1>5, <1>7, <1>8, <1>9 DEF IInv

LEMMA RescanInv ==
  ASSUME IInv, Rescan
  PROVE  IInv' /\ RoutingStep
<1>1. /\ UNCHANGED <<server, ingest, filters, cache, w, job, used, failed, strayed>> /\ Fault
      /\ folder' = [f \in Folders |-> [folder[f] EXCEPT !.last = 0]]
  BY DEF Rescan
<1>2. /\ folder \in [Folders -> [validity : 0 .. MaxFaults, last : 0 .. MaxUID]]
      /\ MaxUID \in Nat /\ w \in Worker
  BY MailboxConstants DEF IInv, TypeOK
<1>3. \A f \in Folders : /\ folder'[f] \in [validity : 0 .. MaxFaults, last : 0 .. MaxUID]
                         /\ folder'[f].validity = folder[f].validity /\ folder'[f].last = 0
  BY <1>1, <1>2
<1>4. folder' \in [Folders -> [validity : 0 .. MaxFaults, last : 0 .. MaxUID]]
  BY <1>1, <1>3
<1>5. CursorCovers'
  <2>1. \A f \in Folders : Len(box'[f]) \in Nat
    BY <1>1, BoxLen DEF IInv, server
  <2> QED
    BY <1>3, <2>1 DEF CursorCovers
<1>6. ScanOK'
  <2>1. \A f, u : Handled(f, u) => Handled(f, u)'
    BY <1>1 DEF Handled, Stored, Duplicate, KeyOf, server
  <2>2. \A u : InHandYet(u) => InHandYet(u)'
    BY <1>1 DEF InHandYet
  <2>3. InFolder => w.at \in Folders
    BY DEF IInv, ScanOK
  <2> QED
    BY <1>1, <1>3, <2>1, <2>2, <2>3 DEF IInv, ScanOK, InFolder, server
<1> QED
  BY <1>1, <1>2, <1>3, <1>4, <1>5, <1>6, CursorStep DEF IInv, SeenOK

LEMMA CrashInv ==
  ASSUME IInv, Crash
  PROVE  IInv' /\ RoutingStep
<1>1. /\ UNCHANGED <<server, folder, ingest, filters, used, failed>> /\ Fault
      /\ job' = [a \in Admins |-> Idle] /\ cache' = [fresh |-> FALSE, list |-> {}]
  BY DEF Crash
<1>2. w' \in Worker /\ ScanOK'
  <2>1. w' = Resting("idle", {})
    BY DEF Crash, Asleep, Resting
  <2> QED
    BY <2>1, Between
<1>3. cache' \in Cache /\ strayed' \subseteq Keys /\ failed' \subseteq Keys
  BY <1>1 DEF Crash, Cache, IInv, TypeOK
<1>4. job' \in [Admins -> Job]
  BY <1>1, IdleIsJob
<1>5. TypeOK'
  <2>1. faults' \in 0 .. MaxFaults
    BY <1>1, FaultsType, TypeParts DEF IInv
  <2> QED
    BY <1>1, <1>2, <1>3, <1>4, <2>1 DEF IInv, TypeOK, server
<1>6. SameRows /\ RoutingStep
  BY <1>1, QuietRows, TypeParts DEF IInv
<1>7. OneRowPerMail' /\ CursorCovers' /\ SeenOK'
  BY <1>1, <1>6, SameMail, SameCovers, SameSeen, SameIsKept DEF IInv
<1> QED
  BY <1>2, <1>5, <1>6, <1>7 DEF IInv

-----------------------------------------------------------------------------

LEMMA NextInv ==
  ASSUME IInv, [Next]_vars
  PROVE  IInv' /\ [RoutingStep]_vars
<1>1. CASE UNCHANGED vars
  <2>1. TypeOK'
    BY <1>1 DEF vars, server, IInv, TypeOK
  <2>2. OneRowPerMail' /\ CursorCovers' /\ SeenOK'
    BY <1>1 DEF vars, server, IInv, OneRowPerMail, CursorCovers, Stored, Duplicate, KeyOf, SeenOK
  <2>3. ScanOK'
    BY <1>1 DEF vars, server, IInv, ScanOK, InFolder, InHandYet, Handled, Stored, Duplicate, KeyOf
  <2> QED
    BY <1>1, <2>1, <2>2, <2>3 DEF IInv
<1>2. CASE \E f \in Folders, m \in Mails : Arrive(f, m)
  BY <1>2, ArriveInv
<1>3. CASE \E f \in Folders : Renumber(f) \/ Scan(f) \/ ScanFails(f)
  BY <1>3, RenumberInv, ScanInv, ScanFailsInv
<1>4. CASE Rescan \/ Crash \/ ReadFails
  BY <1>4, RescanInv, CrashInv, ReadFailsInv
<1>5. CASE Work
  BY <1>5, CycleInv, FilterReadInv, NextMailInv, InsertInv, SaveInv, AutoCreateInv DEF Work
<1>6. CASE \E a \in Admins : Request(a)
  BY <1>6, RequestInv
<1> QED
  BY <1>1, <1>2, <1>3, <1>4, <1>5, <1>6 DEF Next

LEMMA Inductive == Spec => []IInv
<1>1. Init => IInv
  BY InitInv
<1>2. IInv /\ [Next]_vars => IInv'
  BY NextInv
<1> QED
  BY <1>1, <1>2, PTL DEF Spec

\* The tables, the cache, the worker and the requests hold what they can hold, for
\* all folders, mails, filters and bounds.
THEOREM TypeCorrect == Spec => []TypeOK
<1>1. IInv => TypeOK
  BY DEF IInv
<1> QED
  BY <1>1, Inductive, PTL

\* InsertIngest keeps one row for a mail with a Message-ID, through rescans,
\* renumberings, crashes and copies in other folders.
THEOREM OneRow == Spec => []OneRowPerMail
<1>1. IInv => OneRowPerMail
  BY DEF IInv
<1> QED
  BY <1>1, Inductive, PTL

\* SetFolderLastUID never passes a mail but those whose match or insert failed.
THEOREM CursorLosesNothing == Spec => []CursorCovers
<1>1. IInv => CursorCovers
  BY DEF IInv
<1> QED
  BY <1>1, Inductive, PTL

\* BackfillIngestForFilter and the deletion of filters never move a mail from one
\* community to another.
THEOREM RoutingStays == Spec => RoutingSticks
<1>1. IInv /\ [Next]_vars => [RoutingStep]_vars
  BY NextInv
<1>2. Spec => [][RoutingStep]_vars
  BY <1>1, Inductive, PTL DEF Spec
<1> QED
  BY <1>2 DEF RoutingSticks, RoutingStep

-----------------------------------------------------------------------------
(* One issue a mail.                                                       *)

\* The worker, a request is making the issue of row k.
WorkerHas(k)   == w.step \in Making /\ Key = k
RequestHas(a, k) == job[a].step \in Making /\ job[a].key = k

\* The issues of a row that someone is about to make, and of one being linked.
IssuesAt(step) == IF step = "create" THEN 0 ELSE 1

\* What a hand holds is a row of the table.
KeysKnown ==
  /\ w.step \in {"check", "create", "link"} => Key \in DOMAIN ingest
  /\ \A a \in Admins :
       /\ job[a].keys \subseteq DOMAIN ingest
       /\ job[a].step \in {"check", "create", "link"} => job[a].key \in DOMAIN ingest

\* One hand at a time is at a row that has not strayed, and how many issues the row
\* has follows from where that hand is; a row in no hand has none, or a linked one.
IssueOK(k) ==
  /\ \A a \in Admins : RequestHas(a, k) =>
       /\ ~WorkerHas(k)
       /\ \A b \in Admins : RequestHas(b, k) => a = b
       /\ ingest[k].issues = IssuesAt(job[a].step)
  /\ WorkerHas(k) => ingest[k].issues = IssuesAt(w.step)
  /\ ~InHand(k) => ingest[k].issues = 0 \/ (ingest[k].issues = 1 /\ ingest[k].linked)

IssuesInv == KeysKnown /\ \A k \in DOMAIN ingest \ strayed : IssueOK(k)

\* Nobody comes to row k or leaves it, and its issues stay.
SameAt(k) ==
  /\ WorkerHas(k)' <=> WorkerHas(k)
  /\ WorkerHas(k) => w'.step = w.step
  /\ \A a \in Admins : /\ RequestHas(a, k)' <=> RequestHas(a, k)
                       /\ RequestHas(a, k) => job'[a].step = job[a].step
  /\ ingest'[k].issues = ingest[k].issues
  /\ ingest'[k].linked = ingest[k].linked

LEMMA SameAtOK ==
  ASSUME NEW k, IssueOK(k), SameAt(k)
  PROVE  IssueOK(k)'
<1>1. InHand(k) <=> WorkerHas(k) \/ \E a \in Admins : RequestHas(a, k)
  BY DEF InHand, WorkerHas, RequestHas
<1>2. InHand(k)' <=> WorkerHas(k)' \/ \E a \in Admins : RequestHas(a, k)'
  BY DEF InHand, WorkerHas, RequestHas
<1>3. InHand(k)' <=> InHand(k)
  BY <1>1, <1>2 DEF SameAt
<1> QED
  BY <1>3 DEF IssueOK, SameAt, IssuesAt

\* Nobody is at row k after the step.
LEMMA FreeOK ==
  ASSUME NEW k, ~WorkerHas(k)', \A a \in Admins : ~RequestHas(a, k)',
         ingest'[k].issues = 0 \/ (ingest'[k].issues = 1 /\ ingest'[k].linked)
  PROVE  IssueOK(k)'
  BY DEF IssueOK, WorkerHas, RequestHas, InHand

\* A row that nobody is at, and whose issue is not linked, has none.
LEMMA FreeHasNone ==
  ASSUME NEW k, IssueOK(k), ~InHand(k), ~HasIngestIssue(k)
  PROVE  ingest[k].issues = 0
  BY DEF IssueOK, HasIngestIssue

\* The worker has its mail in hand where the server left it.
LEMMA WorkerStays ==
  ASSUME UNCHANGED <<w, validity>>
  PROVE  Key' = Key /\ \A k : WorkerHas(k)' <=> WorkerHas(k)
  BY DEF Key, WorkerHas

-----------------------------------------------------------------------------
(* The admin pages and the issues.                                         *)

LEMMA CarryFields ==
  ASSUME RunOK, NEW a \in Admins, NEW s, Carry(a, s)
  PROVE  /\ job'[a].step = s /\ job'[a].key = job[a].key /\ job'[a].keys = job[a].keys
         /\ \A b \in Admins \ {a} : job'[b] = job[b]
<1>1. job'[a] = [job[a] EXCEPT !.step = s] /\ \A b \in Admins \ {a} : job'[b] = job[b]
  BY DEF RunOK, Carry
<1>2. job[a] \in [step : AdminSteps, filter : Filters \cup {None}, keys : SUBSET Keys,
                  key : Keys \cup {None}]
  BY DEF RunOK, Job
<1> QED
  BY <1>1, <1>2

LEMMA EndFields ==
  ASSUME RunOK, NEW a \in Admins, Done(a) \/ Onward(a)
  PROVE  /\ job'[a].step \in {"idle", "pick"} /\ job'[a].keys \subseteq job[a].keys
         /\ \A b \in Admins \ {a} : job'[b] = job[b]
<1>1. CASE Done(a)
  BY <1>1 DEF RunOK, Done, Idle
<1>2. CASE Onward(a)
  <2>1. /\ job'[a] = [job[a] EXCEPT !.step = "pick", !.key = None]
        /\ \A b \in Admins \ {a} : job'[b] = job[b]
    BY <1>2 DEF RunOK, Onward
  <2>2. job[a] \in [step : AdminSteps, filter : Filters \cup {None}, keys : SUBSET Keys,
                    key : Keys \cup {None}]
    BY DEF RunOK, Job
  <2> QED
    BY <2>1, <2>2
<1> QED
  BY <1>1, <1>2

\* Rows keep what was made of them.
SameIssues == /\ DOMAIN ingest' = DOMAIN ingest
              /\ \A k \in DOMAIN ingest : /\ ingest'[k].issues = ingest[k].issues
                                          /\ ingest'[k].linked = ingest[k].linked

\* A request that is not making an issue takes a step.
LEMMA QuietRequest ==
  ASSUME IssuesInv, NEW a \in Admins, UNCHANGED mail, SameIssues, strayed' = strayed,
         \A b \in Admins \ {a} : job'[b] = job[b],
         job[a].step \notin Making, job'[a].step \notin Making,
         job'[a].keys \subseteq DOMAIN ingest,
         job'[a].step = "check" => job'[a].key \in DOMAIN ingest
  PROVE  IssuesInv'
<1>1. UNCHANGED <<w, validity>>
  BY DEF mail, server
<1>2. KeysKnown'
  BY <1>1, WorkerStays DEF IssuesInv, KeysKnown, SameIssues, Making
<1>3. ASSUME NEW k \in DOMAIN ingest \ strayed PROVE SameAt(k)
  BY <1>1, <1>3, WorkerStays DEF SameAt, RequestHas, SameIssues
<1> QED
  BY <1>2, <1>3, SameAtOK DEF IssuesInv, SameIssues

\* The request that is at the issue of row k takes a step there.
LEMMA MakingRequest ==
  ASSUME IInv, IssuesInv, NEW a \in Admins, CheckPast(a) \/ MakePast(a) \/ LinkPast(a)
  PROVE  IssuesInv'
<1>0. RunOK /\ DOMAIN ingest \subseteq Keys
  BY TypeParts DEF IInv, TypeOK
<1>k. PICK k : k = job[a].key
  OBVIOUS
<1>1. UNCHANGED <<w, validity>> /\ k \in DOMAIN ingest /\ job[a].keys \subseteq DOMAIN ingest
  BY <1>k DEF CheckPast, MakePast, LinkPast, mail, server, IssuesInv, KeysKnown
<1>2. /\ \A b \in Admins \ {a} : job'[b] = job[b]
      /\ job'[a].keys \subseteq job[a].keys
      /\ job'[a].step \in {"idle", "pick"} \/ job'[a].key = k
  <2>1. CASE Done(a) \/ Onward(a)
    BY <1>0, <2>1, EndFields
  <2>2. CASE Carry(a, "create") \/ Carry(a, "link")
    BY <1>0, <1>k, <2>2, CarryFields
  <2> QED
    BY <2>1, <2>2 DEF CheckPast, MakePast, LinkPast
<1>3. /\ DOMAIN ingest' = DOMAIN ingest
      /\ \A j \in DOMAIN ingest \ {k} : ingest'[j] = ingest[j]
  BY <1>k DEF CheckPast, MakePast, LinkPast, CreateIssue, InsertIngestIssue
<1>4. strayed \subseteq strayed'
  BY DEF CheckPast, MakePast, LinkPast, Checked
<1>5. KeysKnown'
  BY <1>1, <1>2, <1>3, WorkerStays DEF IssuesInv, KeysKnown
<1>6. ASSUME NEW j \in DOMAIN ingest \ strayed', j # k PROVE IssueOK(j)'
  <2>1. \A b \in Admins : /\ RequestHas(b, j)' <=> RequestHas(b, j)
                          /\ RequestHas(b, j) => job'[b].step = job[b].step
    BY <1>k, <1>2, <1>6 DEF RequestHas, Making
  <2>2. SameAt(j)
    BY <1>1, <1>3, <1>6, <2>1, WorkerStays DEF SameAt
  <2> QED
    BY <1>4, <1>6, <2>2, SameAtOK DEF IssuesInv
<1>7. ASSUME k \notin strayed' PROVE IssueOK(k)'
  <2>1. IssueOK(k) /\ k \notin strayed
    BY <1>1, <1>4, <1>7 DEF IssuesInv
  <2>2. CASE CheckPast(a)
    <3>1. CASE (HasIngestIssue(k) /\ Onward(a)) \/ Done(a)
      <4>1. job[a].step \notin Making /\ job'[a].step \notin Making
        BY <1>0, <2>2, <3>1, EndFields DEF CheckPast, Making
      <4>2. SameAt(k)
        BY <1>1, <1>2, <2>2, <4>1, WorkerStays DEF SameAt, RequestHas, CheckPast
      <4> QED
        BY <2>1, <4>2, SameAtOK
    <3>2. CASE ~HasIngestIssue(k) /\ Carry(a, "create") /\ Checked(k)
      <4>1. ~InHand(k)
        BY <1>7, <3>2 DEF Checked
      <4>2. ingest[k].issues = 0 /\ ingest' = ingest
        BY <2>1, <2>2, <3>2, <4>1, FreeHasNone DEF CheckPast
      <4>3. /\ job'[a].step = "create" /\ job'[a].key = k
        BY <1>0, <1>k, <3>2, CarryFields
      <4>4. /\ ~WorkerHas(k)' /\ RequestHas(a, k)'
            /\ \A b \in Admins \ {a} : ~RequestHas(b, k)'
        BY <1>1, <1>2, <4>1, <4>3, WorkerStays DEF InHand, WorkerHas, RequestHas, Making
      <4>5. InHand(k)'
        BY <4>4 DEF InHand, RequestHas
      <4> QED
        BY <4>2, <4>3, <4>4, <4>5 DEF IssueOK, IssuesAt
    <3> QED
      BY <1>k, <2>2, <3>1, <3>2 DEF CheckPast
  <2>3. ASSUME job[a].step \in Making
        PROVE  /\ RequestHas(a, k) /\ ~WorkerHas(k)
               /\ \A b \in Admins \ {a} : ~RequestHas(b, k)
               /\ ingest[k].issues = IssuesAt(job[a].step)
    <3>1. RequestHas(a, k)
      BY <1>k, <2>3 DEF RequestHas
    <3> QED
      BY <2>1, <3>1 DEF IssueOK
  <2>4. CASE MakePast(a)
    <3>1. /\ ~WorkerHas(k)' /\ \A b \in Admins \ {a} : ~RequestHas(b, k)'
          /\ ingest[k].issues = 0
      BY <1>1, <1>2, <2>3, <2>4, WorkerStays DEF MakePast, Making, RequestHas, IssuesAt
    <3>2. CASE CreateIssue(k) /\ Carry(a, "link")
      <4>1. job'[a].step = "link" /\ job'[a].key = k
        BY <1>0, <1>k, <3>2, CarryFields
      <4>2. ingest'[k].issues = 1
        <5>1. ingest[k] \in Row
          BY <1>1 DEF IInv, TypeOK
        <5> QED
          BY <1>1, <3>1, <3>2, <5>1 DEF CreateIssue, Row
      <4>3. RequestHas(a, k)' /\ InHand(k)'
        BY <4>1 DEF RequestHas, InHand, Making
      <4> QED
        BY <3>1, <4>1, <4>2, <4>3 DEF IssueOK, IssuesAt
    <3>3. CASE Done(a) /\ UNCHANGED ingest
      <4>1. ~RequestHas(a, k)'
        BY <1>0, <3>3, EndFields DEF RequestHas, Making
      <4> QED
        BY <3>1, <3>3, <4>1, FreeOK
    <3> QED
      BY <1>k, <2>4, <3>2, <3>3 DEF MakePast
  <2>5. CASE LinkPast(a)
    <3>1. /\ ~WorkerHas(k)' /\ \A b \in Admins \ {a} : ~RequestHas(b, k)'
          /\ ingest[k].issues = 1
      BY <1>1, <1>2, <2>3, <2>5, WorkerStays DEF LinkPast, Making, RequestHas, IssuesAt
    <3>2. InsertIngestIssue(k) /\ Onward(a)
      BY <1>k, <1>7, <2>5 DEF LinkPast
    <3>3. ingest'[k].issues = 1 /\ ingest'[k].linked
      <4>1. ingest[k] \in Row
        BY <1>1 DEF IInv, TypeOK
      <4>2. ingest'[k] = [ingest[k] EXCEPT !.linked = TRUE]
        BY <1>1, <3>2 DEF InsertIngestIssue
      <4> QED
        BY <3>1, <4>1, <4>2 DEF Row
    <3>4. ~RequestHas(a, k)'
      BY <1>0, <3>2, EndFields DEF RequestHas, Making
    <3> QED
      BY <3>1, <3>3, <3>4, FreeOK
  <2> QED
    BY <2>2, <2>4, <2>5
<1> QED
  BY <1>3, <1>5, <1>6, <1>7 DEF IssuesInv

LEMMA RequestIssues ==
  ASSUME IInv, IssuesInv, NEW a \in Admins, Request(a)
  PROVE  IssuesInv'
<1>0. RunOK /\ TablesOK /\ job \in [Admins -> Job] /\ job[a].keys \subseteq DOMAIN ingest
  BY TypeParts DEF IInv, RunOK, IssuesInv, KeysKnown
<1>1. ASSUME NEW x, Claim(x) PROVE SameIssues
  <2>1. \A k \in DOMAIN ingest : ingest[k] \in Row
    BY <1>0 DEF TablesOK
  <2> QED
    BY <1>1, <2>1 DEF Claim, SameIssues, Row
<1>2. ASSUME NEW x \in Filters, PostFilterCreate(a, x) PROVE IssuesInv'
  <2>1. /\ job' = [job EXCEPT ![a] = [Idle EXCEPT !.step = "backfill", !.filter = x]]
        /\ UNCHANGED mail /\ SameIssues /\ strayed' = strayed /\ job[a] = Idle
    BY <1>2 DEF PostFilterCreate, SameIssues
  <2>2. /\ job'[a].step = "backfill" /\ job'[a].keys = {} /\ job[a].step = "idle"
        /\ \A b \in Admins \ {a} : job'[b] = job[b]
    BY <1>0, <2>1 DEF Idle
  <2> QED
    BY <2>1, <2>2, QuietRequest DEF Making
<1>3. ASSUME NEW x \in Filters, PostFilterDelete(a, x) PROVE IssuesInv'
  <2>1. /\ job' = [job EXCEPT ![a] = [Idle EXCEPT !.step = "invalidate"]]
        /\ UNCHANGED mail /\ ingest' = Released(x) /\ strayed' = strayed /\ job[a] = Idle
    BY <1>3 DEF PostFilterDelete
  <2>2. /\ job'[a].step = "invalidate" /\ job'[a].keys = {} /\ job[a].step = "idle"
        /\ \A b \in Admins \ {a} : job'[b] = job[b]
    BY <1>0, <2>1 DEF Idle
  <2>3. SameIssues
    <3>1. \A k \in DOMAIN ingest : ingest[k] \in Row
      BY <1>0 DEF TablesOK
    <3> QED
      BY <2>1, <3>1 DEF Released, SameIssues, Row
  <2> QED
    BY <2>1, <2>2, <2>3, QuietRequest DEF Making
<1>4. ASSUME NEW x \in Filters, PostFilterApply(a, x) PROVE IssuesInv'
  <2>1. /\ job' = [job EXCEPT ![a] = [Idle EXCEPT !.step = "tag", !.filter = x]]
        /\ UNCHANGED mail /\ SameIssues /\ strayed' = strayed /\ job[a] = Idle
    BY <1>4 DEF PostFilterApply, SameIssues
  <2>2. /\ job'[a].step = "tag" /\ job'[a].keys = {} /\ job[a].step = "idle"
        /\ \A b \in Admins \ {a} : job'[b] = job[b]
    BY <1>0, <2>1 DEF Idle
  <2> QED
    BY <2>1, <2>2, QuietRequest DEF Making
<1>5. CASE Backfill(a) \/ InvalidateFilters(a) \/ TagPast(a)
  <2>1. /\ UNCHANGED mail /\ strayed' = strayed
        /\ job[a].step \in {"backfill", "invalidate", "tag"}
    BY <1>5 DEF Backfill, InvalidateFilters, TagPast
  <2>2. SameIssues
    BY <1>1, <1>5 DEF Backfill, InvalidateFilters, TagPast, SameIssues
  <2>3. /\ job'[a].step \in {"idle", "pick", "invalidate", "list"}
        /\ job'[a].keys \subseteq job[a].keys
        /\ \A b \in Admins \ {a} : job'[b] = job[b]
    <3>1. Done(a) \/ Carry(a, "invalidate") \/ Carry(a, "list")
      BY <1>5 DEF Backfill, InvalidateFilters, TagPast
    <3> QED
      BY <1>0, <3>1, CarryFields, EndFields
  <2> QED
    BY <1>0, <2>1, <2>2, <2>3, QuietRequest DEF Making
<1>6. CASE ListPast(a)
  <2>1. /\ UNCHANGED mail /\ SameIssues /\ strayed' = strayed /\ job[a].step = "list"
        /\ \A b \in Admins \ {a} : job'[b] = job[b]
    BY <1>0, <1>6 DEF ListPast, SameIssues
  <2>2. job'[a].step = "pick" /\ job'[a].keys \subseteq DOMAIN ingest
    <3>1. job[a] \in [step : AdminSteps, filter : Filters \cup {None}, keys : SUBSET Keys,
                      key : Keys \cup {None}]
      BY <1>0 DEF Job
    <3> QED
      BY <1>0, <1>6, <3>1 DEF ListPast
  <2> QED
    BY <2>1, <2>2, QuietRequest DEF Making
<1>7. CASE PickPast(a)
  <2>1. /\ UNCHANGED mail /\ SameIssues /\ strayed' = strayed /\ job[a].step = "pick"
    BY <1>7 DEF PickPast, SameIssues
  <2>2. CASE Done(a)
    BY <1>0, <2>1, <2>2, EndFields, QuietRequest DEF Making
  <2>3. ASSUME NEW k \in job[a].keys,
               job' = [job EXCEPT ![a].step = "check", ![a].key = k, ![a].keys = @ \ {k}]
        PROVE  IssuesInv'
    <3>1. job[a] \in [step : AdminSteps, filter : Filters \cup {None}, keys : SUBSET Keys,
                      key : Keys \cup {None}]
      BY <1>0 DEF Job
    <3>2. /\ job'[a].step = "check" /\ job'[a].key = k /\ job'[a].keys \subseteq job[a].keys
          /\ \A b \in Admins \ {a} : job'[b] = job[b]
      BY <1>0, <2>3, <3>1
    <3> QED
      BY <1>0, <2>1, <2>3, <3>2, QuietRequest DEF Making
  <2> QED
    BY <1>7, <2>2, <2>3 DEF PickPast
<1>8. CASE CheckPast(a) \/ MakePast(a) \/ LinkPast(a)
  BY <1>8, MakingRequest
<1> QED
  BY <1>2, <1>3, <1>4, <1>5, <1>6, <1>7, <1>8 DEF Request

-----------------------------------------------------------------------------
(* The worker and the issues.                                              *)

\* A step of the worker that ends elsewhere than at an issue.
LEMMA QuietWork ==
  ASSUME IssuesInv, UNCHANGED <<job, strayed, ingest>>,
         w.step \notin Making, w'.step \notin Making \cup {"check"}
  PROVE  IssuesInv'
<1>1. KeysKnown'
  BY DEF IssuesInv, KeysKnown, Making
<1>2. ASSUME NEW k PROVE SameAt(k)
  BY DEF SameAt, RequestHas, WorkerHas
<1> QED
  BY <1>1, <1>2, SameAtOK DEF IssuesInv

\* The worker is where it was.
LEMMA IdleWork ==
  ASSUME IssuesInv, UNCHANGED <<w, job, strayed, ingest>>,
         w.step \in {"check", "create", "link"} => Key' = Key
  PROVE  IssuesInv'
<1>1. KeysKnown'
  BY DEF IssuesInv, KeysKnown
<1>2. ASSUME NEW k PROVE SameAt(k)
  BY DEF SameAt, RequestHas, WorkerHas, Making
<1> QED
  BY <1>1, <1>2, SameAtOK DEF IssuesInv

LEMMA QuietWorkSteps ==
  ASSUME IInv, IssuesInv,
         \/ CycleBegin \/ ReadFilters \/ StoreCache \/ CycleEnd \/ NextMail \/ SaveCursor
         \/ ReadFails \/ \E f \in Folders : Scan(f) \/ ScanFails(f)
  PROVE  IssuesInv'
<1>1. w \in Worker
  BY DEF IInv, TypeOK
<1>2. UNCHANGED <<job, strayed, ingest>> /\ w.step \notin Making
  BY DEF CycleBegin, ReadFilters, StoreCache, CycleEnd, NextMail, SaveCursor, ReadFails, Scan,
         ScanFails, db, others, Making
<1>3. w'.step \in {"read", "store", "scan", "next", "insert", "idle", "save"}
  <2>1. CASE CycleBegin \/ CycleEnd
    <3>1. w' = Resting("read", Folders) \/ w' = Resting("idle", {})
      BY <2>1 DEF CycleBegin, CycleEnd, Asleep, Resting
    <3> QED
      BY <3>1, RestingFields
  <2>2. CASE ReadFilters \/ StoreCache
    BY <1>1, <2>2 DEF ReadFilters, StoreCache, Worker
  <2>3. CASE NextMail
    BY <1>1, <2>3 DEF NextMail, Worker
  <2>4. CASE SaveCursor
    BY <1>1, <2>4 DEF SaveCursor, AfterSave, Asleep, Worker
  <2>5. CASE ReadFails
    BY <1>1, <2>5 DEF ReadFails, Go, Visited, Worker
  <2>6. CASE \E f \in Folders : Scan(f) \/ ScanFails(f)
    BY <1>1, <2>6 DEF Scan, ScanFails, Worker
  <2> QED
    BY <2>1, <2>2, <2>3, <2>4, <2>5, <2>6
<1> QED
  BY <1>2, <1>3, QuietWork DEF Making

LEMMA InsertIssues ==
  ASSUME IInv, IssuesInv, InsertIngest
  PROVE  IssuesInv'
<1>1. w \in Worker /\ UNCHANGED <<job, strayed, validity>> /\ w.step = "insert"
  BY DEF IInv, TypeOK, InsertIngest, others, server
<1>2. ASSUME UNCHANGED ingest, w' = Visited("save") \/ w' = AfterFailure PROVE IssuesInv'
  <2>1. w'.step \in {"save", "next"}
    BY <1>1, <1>2 DEF Visited, AfterFailure, Worker
  <2> QED
    BY <1>1, <1>2, <2>1, QuietWork DEF Making
<1>3. ASSUME NEW x, ~Duplicate(Key, Mail), AddRow(Key, Mail, x),
             w' = Visited(IF x \in ToIssue THEN "check" ELSE "save")
      PROVE  IssuesInv'
  <2>k. PICK k : k = Key
    OBVIOUS
  <2>1. /\ w'.step \in {"save", "check"} /\ w'.at = w.at /\ w'.uid = w.uid
    BY <1>1, <1>3 DEF Visited, Worker
  <2>2. Key' = k /\ k \notin DOMAIN ingest
    BY <1>1, <1>3, <2>k, <2>1 DEF Key, Duplicate
  <2>3. /\ DOMAIN ingest' = DOMAIN ingest \cup {k} /\ ingest'[k].issues = 0
        /\ \A j \in DOMAIN ingest : ingest'[j] = ingest[j]
    BY <1>3, <2>k, <2>2 DEF AddRow
  <2>4. KeysKnown'
    BY <1>1, <2>1, <2>2, <2>3 DEF IssuesInv, KeysKnown
  <2>5. ASSUME NEW j \in DOMAIN ingest PROVE SameAt(j)
    BY <1>1, <2>1, <2>3 DEF SameAt, RequestHas, WorkerHas, Making
  <2>6. IssueOK(k)'
    <3>1. ~WorkerHas(k)' /\ \A a \in Admins : ~RequestHas(a, k)'
      BY <1>1, <2>1, <2>2 DEF IssuesInv, KeysKnown, RequestHas, WorkerHas, Making
    <3> QED
      BY <2>3, <3>1, FreeOK
  <2> QED
    BY <1>1, <2>3, <2>4, <2>5, <2>6, SameAtOK DEF IssuesInv
<1> QED
  BY <1>2, <1>3 DEF InsertIngest

\* The worker takes a step at the issue of the mail it has inserted.
LEMMA MakingWork ==
  ASSUME IInv, IssuesInv, CheckIssue \/ MakeIssue \/ LinkIssue
  PROVE  IssuesInv'
<1>k. PICK k : k = Key
  OBVIOUS
<1>1. /\ w \in Worker /\ UNCHANGED <<job, validity>> /\ k \in DOMAIN ingest
  BY <1>k DEF CheckIssue, MakeIssue, LinkIssue, others, server, IInv, TypeOK, IssuesInv, KeysKnown
<1>2. w'.at = w.at /\ w'.uid = w.uid
  BY <1>1 DEF CheckIssue, MakeIssue, LinkIssue, Go, Worker
<1>3. Key' = k
  BY <1>1, <1>2, <1>k DEF Key
<1>4. /\ DOMAIN ingest' = DOMAIN ingest
      /\ \A j \in DOMAIN ingest \ {k} : ingest'[j] = ingest[j]
  BY <1>k DEF CheckIssue, MakeIssue, LinkIssue, CreateIssue, InsertIngestIssue, db
<1>5. strayed \subseteq strayed'
  BY DEF CheckIssue, MakeIssue, LinkIssue, Checked
<1>6. KeysKnown'
  BY <1>1, <1>3, <1>4 DEF IssuesInv, KeysKnown
<1>7. \A b \in Admins : \A j : RequestHas(b, j)' <=> RequestHas(b, j)
  BY <1>1 DEF RequestHas
<1>8. ASSUME NEW j \in DOMAIN ingest \ strayed', j # k PROVE IssueOK(j)'
  <2>1. ~WorkerHas(j) /\ ~WorkerHas(j)'
    BY <1>3, <1>8, <1>k DEF WorkerHas
  <2>2. SameAt(j)
    BY <1>1, <1>4, <1>7, <1>8, <2>1 DEF SameAt
  <2> QED
    BY <1>5, <1>8, <2>2, SameAtOK DEF IssuesInv
<1>9. ASSUME k \notin strayed' PROVE IssueOK(k)'
  <2>1. IssueOK(k) /\ k \notin strayed
    BY <1>1, <1>5, <1>9 DEF IssuesInv
  <2>2. CASE CheckIssue
    <3>1. w.step = "check" /\ UNCHANGED ingest
      BY <2>2 DEF CheckIssue, db
    <3>2. CASE Go("save")
      <4>1. w'.step = "save"
        BY <1>1, <3>2 DEF Go, Worker
      <4>2. SameAt(k)
        BY <1>1, <1>7, <3>1, <4>1 DEF SameAt, WorkerHas, Making
      <4> QED
        BY <2>1, <4>2, SameAtOK
    <3>3. CASE ~HasIngestIssue(k) /\ Go("create") /\ Checked(k)
      <4>1. ~InHand(k)
        BY <1>9, <3>3 DEF Checked
      <4>2. ingest'[k].issues = 0
        BY <2>1, <3>1, <3>3, <4>1, FreeHasNone
      <4>3. w'.step = "create"
        BY <1>1, <3>3 DEF Go, Worker
      <4>4. WorkerHas(k)' /\ \A a \in Admins : ~RequestHas(a, k)'
        BY <1>3, <1>7, <4>1, <4>3 DEF InHand, WorkerHas, RequestHas, Making
      <4>5. InHand(k)'
        BY <4>4 DEF InHand, WorkerHas
      <4> QED
        BY <4>2, <4>3, <4>4, <4>5 DEF IssueOK, IssuesAt
    <3> QED
      BY <1>k, <2>2, <3>2, <3>3 DEF CheckIssue
  <2>3. ASSUME w.step \in Making
        PROVE  /\ \A a \in Admins : ~RequestHas(a, k)'
               /\ ingest[k].issues = IssuesAt(w.step)
    <3>1. WorkerHas(k)
      BY <1>k, <2>3 DEF WorkerHas
    <3> QED
      BY <1>7, <2>1, <3>1 DEF IssueOK
  <2>4. ingest[k] \in Row
    BY <1>1 DEF IInv, TypeOK
  <2>5. CASE MakeIssue
    <3>1. ingest[k].issues = 0 /\ \A a \in Admins : ~RequestHas(a, k)'
      BY <2>3, <2>5 DEF MakeIssue, Making, IssuesAt
    <3>2. CASE CreateIssue(k) /\ Go("link")
      <4>1. w'.step = "link"
        BY <1>1, <3>2 DEF Go, Worker
      <4>2. ingest'[k].issues = 1
        BY <1>1, <2>4, <3>1, <3>2 DEF CreateIssue, Row
      <4>3. WorkerHas(k)' /\ InHand(k)'
        BY <1>3, <4>1 DEF WorkerHas, InHand, Making
      <4> QED
        BY <3>1, <4>1, <4>2, <4>3 DEF IssueOK, IssuesAt
    <3>3. CASE Go("save") /\ UNCHANGED ingest
      <4>1. w'.step = "save"
        BY <1>1, <3>3 DEF Go, Worker
      <4> QED
        BY <3>1, <3>3, <4>1, FreeOK DEF WorkerHas, Making
    <3> QED
      BY <1>k, <2>5, <3>2, <3>3 DEF MakeIssue
  <2>6. CASE LinkIssue
    <3>1. ingest[k].issues = 1 /\ \A a \in Admins : ~RequestHas(a, k)'
      BY <2>3, <2>6 DEF LinkIssue, Making, IssuesAt
    <3>2. InsertIngestIssue(k) /\ Go("save")
      BY <1>k, <1>9, <2>6 DEF LinkIssue
    <3>3. ingest'[k].issues = 1 /\ ingest'[k].linked
      <4>1. ingest'[k] = [ingest[k] EXCEPT !.linked = TRUE]
        BY <1>1, <3>2 DEF InsertIngestIssue
      <4> QED
        BY <2>4, <3>1, <4>1 DEF Row
    <3>4. w'.step = "save"
      BY <1>1, <3>2 DEF Go, Worker
    <3> QED
      BY <3>1, <3>3, <3>4, FreeOK DEF WorkerHas, Making
  <2> QED
    BY <2>2, <2>5, <2>6
<1> QED
  BY <1>4, <1>6, <1>8, <1>9 DEF IssuesInv

\* Who dies between an issue and its link row leaves a row that has strayed.
LEMMA CrashIssues ==
  ASSUME IInv, IssuesInv, Crash
  PROVE  IssuesInv'
<1>1. /\ w'.step = "idle" /\ UNCHANGED ingest
      /\ \A a \in Admins : job'[a].step = "idle" /\ job'[a].keys = {}
  BY DEF Crash, Asleep, Idle
<1>2. KeysKnown'
  BY <1>1 DEF KeysKnown
<1>3. ASSUME NEW k \in DOMAIN ingest \ strayed' PROVE IssueOK(k)'
  <2>1. k \in Keys /\ k \notin strayed /\ IssueOK(k)
    BY <1>3 DEF Crash, IInv, TypeOK, IssuesInv
  <2>2. /\ ~(w.step = "link" /\ Key = k)
        /\ \A a \in Admins : ~(job[a].step = "link" /\ job[a].key = k)
    BY <1>3, <2>1 DEF Crash
  <2>3. ingest[k].issues = 0 \/ (ingest[k].issues = 1 /\ ingest[k].linked)
    <3>1. CASE WorkerHas(k)
      BY <2>1, <2>2, <3>1 DEF IssueOK, WorkerHas, Making, IssuesAt
    <3>2. CASE \E a \in Admins : RequestHas(a, k)
      BY <2>1, <2>2, <3>2 DEF IssueOK, RequestHas, Making, IssuesAt
    <3>3. CASE ~WorkerHas(k) /\ \A a \in Admins : ~RequestHas(a, k)
      BY <2>1, <3>3 DEF IssueOK, InHand, WorkerHas, RequestHas
    <3> QED
      BY <3>1, <3>2, <3>3
  <2> QED
    BY <1>1, <2>3, FreeOK DEF WorkerHas, RequestHas, Making
<1> QED
  BY <1>1, <1>2, <1>3 DEF IssuesInv

LEMMA IssuesStep ==
  ASSUME IInv, IssuesInv, [Next]_vars
  PROVE  IssuesInv'
<1>1. CASE \/ UNCHANGED vars \/ Rescan
           \/ \E f \in Folders : Renumber(f) \/ \E m \in Mails : Arrive(f, m)
  <2>1. w.step \in {"check", "create", "link"} => w.at \in Folders
    BY DEF IInv, ScanOK, InFolder
  <2>2. /\ UNCHANGED <<w, job, strayed, ingest>>
        /\ w.at \in Folders => validity'[w.at] = validity[w.at]
    BY <1>1 DEF vars, server, Rescan, Renumber, Arrive, IInv, TypeOK
  <2>3. w.step \in {"check", "create", "link"} => Key' = Key
    BY <2>1, <2>2 DEF Key
  <2> QED
    BY <2>2, <2>3, IdleWork
<1>2. CASE \/ CycleBegin \/ ReadFilters \/ StoreCache \/ CycleEnd \/ NextMail \/ SaveCursor
           \/ ReadFails \/ \E f \in Folders : Scan(f) \/ ScanFails(f)
  BY <1>2, QuietWorkSteps
<1>3. CASE InsertIngest \/ CheckIssue \/ MakeIssue \/ LinkIssue
  BY <1>3, InsertIssues, MakingWork
<1>4. CASE Crash
  BY <1>4, CrashIssues
<1>5. CASE \E a \in Admins : Request(a)
  BY <1>5, RequestIssues
<1> QED
  BY <1>1, <1>2, <1>3, <1>4, <1>5 DEF Next, Work

\* HasIngestIssue before CreateIssue keeps the worker and any number of requests from
\* making two issues of a mail, and an issue from being forgotten: but for rows two of
\* them were at together, or whose link row was not written.
THEOREM OneIssue == Spec => []OneIssuePerMail
<1>1. Init => IssuesInv
  BY DEF Init, IssuesInv, KeysKnown, Asleep, Idle
<1>2. IInv /\ IssuesInv => OneIssuePerMail
  <2> SUFFICES ASSUME IInv, IssuesInv, NEW k \in DOMAIN ingest \ strayed
               PROVE  /\ ingest[k].issues <= 1
                      /\ ingest[k].issues = 1 => ingest[k].linked \/ InHand(k)
    BY DEF OneIssuePerMail
  <2>1. IssueOK(k)
    BY DEF IssuesInv
  <2>2. CASE InHand(k)
    <3>1. WorkerHas(k) \/ \E a \in Admins : RequestHas(a, k)
      BY <2>2 DEF InHand, WorkerHas, RequestHas
    <3> QED
      BY <2>1, <2>2, <3>1 DEF IssueOK, IssuesAt
  <2>3. CASE ~InHand(k)
    BY <2>1, <2>3 DEF IssueOK
  <2> QED
    BY <2>2, <2>3
<1> QED
  BY <1>1, <1>2, IssuesStep, Inductive, PTL DEF Spec
=============================================================================
