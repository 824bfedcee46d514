------------------------------ MODULE DataExport ------------------------------
(***************************************************************************)
(* Community data exports (internal/dataexport): an owner queues an        *)
(* export, a background worker claims it and builds a ZIP on disk, and a   *)
(* sweep removes the ZIP once its link has expired. The table              *)
(* community_exports and the exports directory survive a crash, the two    *)
(* goroutines do not.                                                      *)
(***************************************************************************)
EXTENDS Integers, FiniteSets

CONSTANTS
  Communities,
  Exports,     \* export ids; an id is a fresh UUID, used for one row only
  Workers,     \* drain loops, one per process that serves the database
  NoRow,       \* an id without a row in community_exports
  NoExport,    \* the sweep is not between its two steps
  TTL,         \* how long a ready export can be downloaded
  Horizon,     \* bound: the last instant of the clock
  MaxCrashes   \* bound: process crashes

ASSUME ExportConstants ==
  /\ NoExport \notin Exports
  /\ TTL \in Nat /\ Horizon \in Nat /\ MaxCrashes \in Nat

VARIABLES
  clock,
  row,       \* community_exports
  used,      \* ids that were given out
  zip,       \* exports whose <id>.zip is on disk
  part,      \* exports whose <id>.part is on disk
  worker,    \* what each drain loop is doing, and to which export
  victims,   \* expired exports the running sweep still has to visit
  removed,   \* the victim whose file is dealt with and whose row is not
  crashes

vars == <<clock, row, used, zip, part, worker, victims, removed, crashes>>

Active   == {"pending", "building"}
Statuses == Active \cup {"ready", "failed", "expired"}
Row      == [cm : Communities, status : Statuses, at : 0 .. Horizon,
             expires : 0 .. Horizon + TTL]

ASSUME NoRowIsNoRow == NoRow \notin Row

Resting == [st |-> "idle"]
Worker  == {Resting} \cup [st : {"selected", "building", "placed", "failing"}, id : Exports]

TypeOK ==
  /\ clock \in 0 .. Horizon
  /\ row \in [Exports -> Row \cup {NoRow}]
  /\ used \subseteq Exports
  /\ zip \subseteq used /\ part \subseteq used
  /\ worker \in [Workers -> Worker]
  /\ victims \subseteq used
  /\ removed \in used \cup {NoExport}
  /\ crashes \in 0 .. MaxCrashes

Init ==
  /\ clock = 0
  /\ row = [e \in Exports |-> NoRow]
  /\ used = {}
  /\ zip = {} /\ part = {}
  /\ worker = [w \in Workers |-> Resting]
  /\ victims = {} /\ removed = NoExport
  /\ crashes = 0

Rows == {e \in Exports : row[e] # NoRow}
WithStatus(st) == {e \in Rows : row[e].status = st}
ActiveOf(c) == {e \in Rows : row[e].cm = c /\ row[e].status \in Active}

\* An UPDATE ... WHERE id = ?: a row that is gone is not brought back.
Update(e, st, expires) ==
  row' = IF e \in Rows
         THEN [row EXCEPT ![e].status = st, ![e].expires = expires]
         ELSE row

Tick ==
  /\ clock < Horizon
  /\ clock' = clock + 1
  /\ UNCHANGED <<row, used, zip, part, worker, victims, removed, crashes>>

-----------------------------------------------------------------------------
(* The owner.                                                              *)

\* Mutant: the check looks at queued exports only.
MayRequestNotPending(c) == \A e \in ActiveOf(c) : row[e].status # "pending"

MayRequest(c) == ActiveOf(c) = {}

\* Repo.Request: check and insert in one transaction.
Request(c, e) ==
  /\ e \notin used
  /\ MayRequest(c)
  /\ row' = [row EXCEPT ![e] = [cm |-> c, status |-> "pending", at |-> clock, expires |-> 0]]
  /\ used' = used \cup {e}
  /\ UNCHANGED <<clock, zip, part, worker, victims, removed, crashes>>

\* The community is deleted: its rows cascade, the exports directory is not
\* touched.
DeleteCommunity(c) ==
  /\ row' = [e \in Exports |-> IF e \in Rows /\ row[e].cm = c THEN NoRow ELSE row[e]]
  /\ UNCHANGED <<clock, used, zip, part, worker, victims, removed, crashes>>

-----------------------------------------------------------------------------
(* The worker.                                                             *)

Goto(w, st, e) == worker' = [worker EXCEPT ![w] = [st |-> st, id |-> e]]
Rest(w) == worker' = [worker EXCEPT ![w] = Resting]

\* NextPending's SELECT: the oldest queued export.
Select(w) ==
  /\ worker[w] = Resting
  /\ \E e \in WithStatus("pending") :
       /\ \A d \in WithStatus("pending") : row[e].at <= row[d].at
       /\ Goto(w, "selected", e)
  /\ UNCHANGED <<clock, row, used, zip, part, victims, removed, crashes>>

\* Mutant: the UPDATE repeats the wrong status.
StillBuilding(e) == e \in WithStatus("building")

\* Mutant: the UPDATE does not repeat the condition on the status.
StillPendingAssumed(e) == e \in Rows

StillPending(e) == e \in WithStatus("pending")

\* NextPending's UPDATE found the row still pending; Build opens the .part file.
Claim(w) ==
  /\ worker[w].st = "selected"
  /\ StillPending(worker[w].id)
  /\ Update(worker[w].id, "building", 0)
  /\ part' = part \cup {worker[w].id}
  /\ Goto(w, "building", worker[w].id)
  /\ UNCHANGED <<clock, used, zip, victims, removed, crashes>>

\* The UPDATE matched no row, or failed: the next tick tries again.
ClaimRaced(w) ==
  /\ worker[w].st = "selected"
  /\ Rest(w)
  /\ UNCHANGED <<clock, row, used, zip, part, victims, removed, crashes>>

\* The row is claimed but the Get that follows fails: NextPending returns an
\* error, nobody builds the export.
ClaimLost(w) ==
  /\ worker[w].st = "selected"
  /\ StillPending(worker[w].id)
  /\ Update(worker[w].id, "building", 0)
  /\ Rest(w)
  /\ UNCHANGED <<clock, used, zip, part, victims, removed, crashes>>

\* The archive is written, closed and renamed into place.
Place(w) ==
  /\ worker[w].st = "building"
  /\ zip' = zip \cup {worker[w].id}
  /\ part' = part \ {worker[w].id}
  /\ Goto(w, "placed", worker[w].id)
  /\ UNCHANGED <<clock, row, used, victims, removed, crashes>>

\* A step of Build before or after the rename fails; the deferred Remove takes
\* the .part file.
BuildFails(w) ==
  /\ worker[w].st \in {"building", "placed"}
  /\ part' = part \ {worker[w].id}
  /\ Goto(w, "failing", worker[w].id)
  /\ UNCHANGED <<clock, row, used, zip, victims, removed, crashes>>

\* Service.fail: the row is marked failed, unless that UPDATE fails as well (the
\* context may be the one that ended the build).
Fail(w) ==
  /\ worker[w].st = "failing"
  /\ \/ Update(worker[w].id, "failed", 0)
     \/ UNCHANGED row
  /\ Rest(w)
  /\ UNCHANGED <<clock, used, zip, part, victims, removed, crashes>>

\* Mutant: the lifetime is added twice.
LinkExpiryTwice == clock + TTL + TTL

LinkExpiry == clock + TTL

\* Repo.MarkReady stamps token and expiry.
MarkReady(w) ==
  /\ worker[w].st = "placed"
  /\ Update(worker[w].id, "ready", LinkExpiry)
  /\ Rest(w)
  /\ UNCHANGED <<clock, used, zip, part, victims, removed, crashes>>

\* MarkReady's UPDATE fails: Build returns the error, nothing marks the row.
MarkReadyFails(w) ==
  /\ worker[w].st = "placed"
  /\ Rest(w)
  /\ UNCHANGED <<clock, row, used, zip, part, victims, removed, crashes>>

-----------------------------------------------------------------------------
(* The sweep.                                                              *)

\* Mutant: the comparison is off by one and strict on the wrong side.
ExpiresSoon(e) == row[e].expires <= clock + 1

Expired(e) == row[e].expires < clock

\* ListExpirable.
Sweep ==
  /\ victims = {} /\ removed = NoExport
  /\ victims' = {e \in WithStatus("ready") : Expired(e)}
  /\ victims' # {}
  /\ UNCHANGED <<clock, row, used, zip, part, worker, removed, crashes>>

\* os.Remove; an error other than "not there" is logged, and the row is marked
\* all the same.
RemoveZip(e) ==
  /\ e \in victims /\ removed = NoExport
  /\ zip' \in {zip, zip \ {e}}
  /\ victims' = victims \ {e}
  /\ removed' = e
  /\ UNCHANGED <<clock, row, used, part, worker, crashes>>

\* Mutant: the row goes back to the queue instead of being closed.
SweptRequeued == "pending"

SweptStatus == "expired"

\* Repo.MarkExpired, which may fail: the next sweep finds the row again.
MarkExpired ==
  /\ removed # NoExport
  /\ \/ Update(removed, SweptStatus, row[removed].expires)
     \/ UNCHANGED row
  /\ removed' = NoExport
  /\ UNCHANGED <<clock, used, zip, part, worker, victims, crashes>>

-----------------------------------------------------------------------------

\* The process dies; nothing looks at building rows on the next boot.
Crash ==
  /\ crashes < MaxCrashes
  /\ crashes' = crashes + 1
  /\ worker' = [w \in Workers |-> Resting]
  /\ victims' = {} /\ removed' = NoExport
  /\ UNCHANGED <<clock, row, used, zip, part>>

Next ==
  \/ Tick \/ Crash \/ Sweep \/ MarkExpired
  \/ \E c \in Communities : DeleteCommunity(c) \/ \E e \in Exports : Request(c, e)
  \/ \E e \in Exports : RemoveZip(e)
  \/ \E w \in Workers :
       \/ Select(w) \/ Claim(w) \/ ClaimRaced(w) \/ ClaimLost(w) \/ Place(w)
       \/ BuildFails(w) \/ Fail(w) \/ MarkReady(w) \/ MarkReadyFails(w)

Spec == Init /\ [][Next]_vars

-----------------------------------------------------------------------------
(* Correctness.                                                            *)

\* One export at a time per community, whatever the worker, the sweep and
\* requests do concurrently.
OneActive == \A c \in Communities : Cardinality(ActiveOf(c)) <= 1

Building(w) == worker[w].st \in {"building", "placed", "failing"}

\* A claimed export belongs to one worker, and its row says building for as long
\* as the worker is at it: no second drain loop picks it up, no unguarded UPDATE
\* of another goroutine overtakes it.
ClaimIsExclusive ==
  \A w \in Workers : Building(w) =>
    /\ worker[w].id \in Rows => row[worker[w].id].status = "building"
    /\ \A v \in Workers \ {w} : Building(v) => worker[v].id # worker[w].id

IsDownloadable(e) == e \in WithStatus("ready") /\ clock < row[e].expires

\* A link the server accepts leads to a file: the ZIP is placed before the row is
\* ready and only removed after the link has expired.
ReadyHasFile == \A e \in Exports : IsDownloadable(e) => e \in zip

Moves == {<<"pending", "building">>, <<"building", "ready">>, <<"building", "failed">>,
          <<"ready", "expired">>}

\* An export does not come back: failed and expired are final, and a ready one
\* only expires. (The UPDATEs that end a build and the sweep carry no status
\* condition.)
StatusMovesOn ==
  [][\A e \in Exports :
       (e \in Rows /\ row'[e] # NoRow /\ row'[e].status # row[e].status) =>
         <<row[e].status, row'[e].status>> \in Moves]_vars

-----------------------------------------------------------------------------
(* Progress.                                                               *)

\* The two loops tick for ever, and a statement that can succeed does sooner or
\* later; a build ends one way or the other.
Fairness ==
  /\ WF_vars(Sweep)
  /\ \A e \in Exports : WF_vars(RemoveZip(e))
  /\ WF_vars(MarkExpired)
  /\ \A w \in Workers :
       /\ WF_vars(Select(w)) /\ SF_vars(Claim(w)) /\ WF_vars(ClaimRaced(w))
       /\ WF_vars(Place(w)) /\ WF_vars(MarkReady(w)) /\ WF_vars(Fail(w))

FairSpec == Spec /\ Fairness

\* A queued export does not wait for ever.
PendingIsClaimed ==
  \A e \in Exports : (e \in WithStatus("pending")) ~> (e \notin WithStatus("pending"))
=============================================================================
