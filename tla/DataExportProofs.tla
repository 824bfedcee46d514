--------------------------- MODULE DataExportProofs ---------------------------
(***************************************************************************)
(* Theorems about DataExport, for any communities, workers and bounds.     *)
(***************************************************************************)
EXTENDS DataExport, FiniteSetTheorems, TLAPS

(***************************************************************************)
(* The inductive invariant. What the UPDATEs without a status condition    *)
(* rely on: who holds an id, and which status its row must then have.      *)
(***************************************************************************)

\* Ids are given out once: rows, workers and the sweep only name used ones.
NamesAreUsed ==
  /\ Rows \subseteq used
  /\ \A w \in Workers : worker[w] # Resting => worker[w].id \in used

\* No community has two active exports.
ActiveIsUnique ==
  \A d, e \in Rows :
    (row[d].cm = row[e].cm /\ row[d].status \in Active /\ row[e].status \in Active) => d = e

\* A placed archive is on disk for as long as its row exists.
PlacedHasZip ==
  \A w \in Workers :
    (worker[w].st = "placed" /\ worker[w].id \in Rows) => worker[w].id \in zip

\* What the sweep visits is a ready row whose link is dead, and is visited once.
VictimsAreDead ==
  /\ removed \notin victims
  /\ \A e \in victims \cup {removed} :
       e \in Rows => row[e].status = "ready" /\ row[e].expires < clock

IInv ==
  /\ TypeOK
  /\ NamesAreUsed
  /\ ActiveIsUnique
  /\ ClaimIsExclusive
  /\ PlacedHasZip
  /\ VictimsAreDead
  /\ ReadyHasFile

LEMMA InitInv == Init => IInv
  BY ExportConstants DEF Init, IInv, TypeOK, NamesAreUsed, ActiveIsUnique, ClaimIsExclusive,
     PlacedHasZip, VictimsAreDead, ReadyHasFile, Building, IsDownloadable, WithStatus, Rows,
     Worker, Resting

-----------------------------------------------------------------------------
(* Types.                                                                  *)

LEMMA UpdateType ==
  ASSUME row \in [Exports -> Row \cup {NoRow}], NEW e, NEW st \in Statuses,
         NEW x \in 0 .. Horizon + TTL, Update(e, st, x)
  PROVE  row' \in [Exports -> Row \cup {NoRow}]
<1>1. CASE e \in Rows
  <2>1. row[e] \in Row /\ e \in Exports
    BY <1>1 DEF Rows
  <2>2. [row[e] EXCEPT !.status = st, !.expires = x] \in Row
    BY <2>1 DEF Row
  <2> QED
    BY <1>1, <2>1, <2>2 DEF Update
<1>2. CASE e \notin Rows
  BY <1>2 DEF Update
<1> QED
  BY <1>1, <1>2

LEMMA StepType ==
  ASSUME IInv, [Next]_vars
  PROVE  TypeOK'
<1> USE ExportConstants
<1> USE DEF IInv, TypeOK, NamesAreUsed
<1>0. CASE UNCHANGED vars
  BY <1>0 DEF vars
<1>1. CASE Tick
  BY <1>1 DEF Tick
<1>2. CASE Crash
  BY <1>2 DEF Crash, Worker
<1>3. CASE Sweep
  BY <1>3 DEF Sweep, WithStatus
<1>4. CASE MarkExpired
  <2>1. CASE UNCHANGED row
    BY <1>4, <2>1 DEF MarkExpired
  <2>2. CASE removed \in Rows /\ Update(removed, SweptStatus, row[removed].expires)
    <3>1. row[removed].expires \in 0 .. Horizon + TTL
      BY <2>2 DEF Rows, Row
    <3>2. SweptStatus \in Statuses
      BY DEF SweptStatus, Statuses
    <3>3. row' \in [Exports -> Row \cup {NoRow}]
      BY <2>2, <3>1, <3>2, UpdateType
    <3> QED
      BY <1>4, <3>3 DEF MarkExpired
  <2> QED
    BY <1>4, <2>1, <2>2 DEF MarkExpired, Update
<1>5. ASSUME NEW c \in Communities, DeleteCommunity(c) PROVE TypeOK'
  BY <1>5 DEF DeleteCommunity, Rows
<1>6. ASSUME NEW c \in Communities, NEW e \in Exports, Request(c, e) PROVE TypeOK'
  <2>1. [cm |-> c, status |-> "pending", at |-> clock, expires |-> 0] \in Row
    BY DEF Row, Statuses, Active
  <2> QED
    BY <1>6, <2>1 DEF Request
<1>7. ASSUME NEW e \in Exports, RemoveZip(e) PROVE TypeOK'
  BY <1>7 DEF RemoveZip
<1>8. ASSUME NEW w \in Workers,
             Select(w) \/ ClaimRaced(w) \/ Place(w) \/ BuildFails(w) \/ MarkReadyFails(w)
      PROVE  TypeOK'
  BY <1>8 DEF Select, ClaimRaced, Place, BuildFails, MarkReadyFails, Goto, Rest, Worker, Resting,
     WithStatus, Rows
<1>9. ASSUME NEW w \in Workers,
             Claim(w) \/ ClaimLost(w) \/ Fail(w) \/ MarkReady(w)
      PROVE  TypeOK'
  <2>1. row' \in [Exports -> Row \cup {NoRow}]
    <3>1. {"building", "failed", "ready"} \subseteq Statuses
      BY DEF Statuses, Active
    <3>2. 0 \in 0 .. Horizon + TTL /\ LinkExpiry \in 0 .. Horizon + TTL
      BY DEF LinkExpiry
    <3> QED
      BY <1>9, <3>1, <3>2, UpdateType DEF Claim, ClaimLost, Fail, MarkReady
  <2>2. worker' \in [Workers -> Worker]
    BY <1>9 DEF Claim, ClaimLost, Fail, MarkReady, Goto, Rest, Worker, Resting
  <2>3. part' \subseteq used'
    BY <1>9 DEF Claim, ClaimLost, Fail, MarkReady, Resting
  <2> QED
    BY <1>9, <2>1, <2>2, <2>3 DEF Claim, ClaimLost, Fail, MarkReady
<1> QED
  BY <1>0, <1>1, <1>2, <1>3, <1>4, <1>5, <1>6, <1>7, <1>8, <1>9 DEF Next

-----------------------------------------------------------------------------
(* The shape of a step on the table.                                       *)

\* An UPDATE changes one row, which existed, in its status and its expiry.
LEMMA UpdateEffect ==
  ASSUME TypeOK, NEW e, NEW st \in Statuses, NEW x \in 0 .. Horizon + TTL, Update(e, st, x)
  PROVE  /\ Rows' = Rows
         /\ \A d \in Rows : row'[d].cm = row[d].cm
         /\ \A d \in Rows : d # e => row'[d] = row[d]
         /\ e \in Rows => row'[e].status = st /\ row'[e].expires = x
<1>1. CASE e \in Rows
  <2>1. e \in Exports /\ row[e] \in Row
    BY <1>1 DEF Rows, TypeOK
  <2>2. row' = [row EXCEPT ![e].status = st, ![e].expires = x]
    BY <1>1 DEF Update
  <2>3. row'[e] = [row[e] EXCEPT !.status = st, !.expires = x]
    BY <2>1, <2>2 DEF TypeOK
  <2>4. /\ row'[e] \in Row /\ row'[e].cm = row[e].cm
        /\ row'[e].status = st /\ row'[e].expires = x
    BY <2>1, <2>3 DEF Row
  <2>5. \A d \in Exports : d # e => row'[d] = row[d]
    BY <2>1, <2>2 DEF TypeOK
  <2> QED
    BY <1>1, <2>4, <2>5, NoRowIsNoRow DEF Rows
<1>2. CASE e \notin Rows
  BY <1>2 DEF Update, Rows
<1> QED
  BY <1>1, <1>2

\* What a worker's step does to the row it holds.
LEMMA WorkerEffect ==
  ASSUME IInv, NEW w \in Workers,
         Claim(w) \/ ClaimLost(w) \/ Fail(w) \/ MarkReady(w)
  PROVE  LET e == worker[w].id IN
         /\ Rows' = Rows /\ e \in used
         /\ \A d \in Rows : row'[d].cm = row[d].cm
         /\ \A d \in Rows : d # e => row'[d] = row[d]
         /\ (Claim(w) \/ ClaimLost(w)) =>
               e \in Rows /\ row[e].status = "pending" /\ row'[e].status = "building"
         /\ (Fail(w) /\ e \in Rows) =>
               row[e].status = "building" /\ row'[e].status \in {"building", "failed"}
         /\ (MarkReady(w) /\ e \in Rows) =>
               row[e].status = "building" /\ row'[e].status = "ready" /\ e \in zip
<1> DEFINE e == worker[w].id
<1>1. {"building", "failed", "ready"} \subseteq Statuses
      /\ 0 \in 0 .. Horizon + TTL /\ LinkExpiry \in 0 .. Horizon + TTL
  BY ExportConstants DEF Statuses, Active, LinkExpiry, IInv, TypeOK
<1>2. e \in used
  BY DEF IInv, NamesAreUsed, Claim, ClaimLost, Fail, MarkReady, Resting
<1>3. CASE Claim(w) \/ ClaimLost(w)
  <2>1. Update(e, "building", 0) /\ e \in Rows /\ row[e].status = "pending"
    BY <1>3 DEF Claim, ClaimLost, StillPending, WithStatus
  <2> QED
    BY <1>1, <1>2, <1>3, <2>1, UpdateEffect DEF IInv, Claim, ClaimLost, Fail, MarkReady
<1>4. CASE Fail(w)
  <2>1. e \in Rows => row[e].status = "building"
    BY <1>4 DEF Fail, IInv, ClaimIsExclusive, Building
  <2>2. Update(e, "failed", 0) \/ UNCHANGED row
    BY <1>4 DEF Fail
  <2>3. ~Claim(w) /\ ~ClaimLost(w) /\ ~MarkReady(w)
    BY <1>4 DEF Claim, ClaimLost, Fail, MarkReady
  <2>4. CASE UNCHANGED row
    BY <1>2, <1>4, <2>1, <2>3, <2>4 DEF Rows
  <2>5. CASE Update(e, "failed", 0)
    BY <1>1, <1>2, <1>4, <2>1, <2>3, <2>5, UpdateEffect DEF IInv
  <2> QED
    BY <2>2, <2>4, <2>5
<1>5. CASE MarkReady(w)
  <2>1. e \in Rows => row[e].status = "building" /\ e \in zip
    BY <1>5 DEF MarkReady, IInv, ClaimIsExclusive, Building, PlacedHasZip
  <2>2. Update(e, "ready", LinkExpiry)
    BY <1>5 DEF MarkReady
  <2>3. ~Claim(w) /\ ~ClaimLost(w) /\ ~Fail(w)
    BY <1>5 DEF Claim, ClaimLost, Fail, MarkReady
  <2> QED
    BY <1>1, <1>2, <1>5, <2>1, <2>2, <2>3, UpdateEffect DEF IInv
<1> QED
  BY <1>3, <1>4, <1>5

\* What the sweep's second step does to the row it holds.
LEMMA SweepEffect ==
  ASSUME IInv, MarkExpired
  PROVE  /\ Rows' = Rows
         /\ \A d \in Rows : row'[d].cm = row[d].cm
         /\ \A d \in Rows : d # removed => row'[d] = row[d]
         /\ removed \in Rows => /\ row[removed].status = "ready"
                                /\ row'[removed].status \in {"ready", "expired"}
                                /\ row'[removed].expires = row[removed].expires
<1>1. removed \in Rows => row[removed].status = "ready"
  BY DEF IInv, VictimsAreDead
<1>2. CASE UNCHANGED row
  BY <1>1, <1>2 DEF Rows
<1>3. CASE removed \notin Rows
  <2>1. UNCHANGED row
    BY <1>3 DEF MarkExpired, Update
  <2> QED
    BY <1>2, <2>1
<1>4. CASE removed \in Rows /\ Update(removed, SweptStatus, row[removed].expires)
  <2>1. row[removed].expires \in 0 .. Horizon + TTL
    BY <1>4 DEF IInv, TypeOK, Rows, Row
  <2>2. SweptStatus \in Statuses /\ SweptStatus = "expired"
    BY DEF SweptStatus, Statuses
  <2> QED
    BY <1>1, <1>4, <2>1, <2>2, UpdateEffect DEF IInv
<1> QED
  BY <1>2, <1>3, <1>4 DEF MarkExpired

\* One step on the whole table: which rows appear, and how a row moves.
RowMoves ==
  \A e \in Rows : e \in Rows' =>
    /\ row'[e].cm = row[e].cm
    /\ row'[e].status # row[e].status => <<row[e].status, row'[e].status>> \in Moves
    /\ (row[e].status = "ready" /\ row'[e].status = "ready") => row'[e].expires = row[e].expires

RowAppears ==
  /\ Rows' \subseteq used'
  /\ used \subseteq used'
  /\ \A e \in Rows' : e \notin Rows =>
       /\ e \notin used /\ row'[e].status = "pending" /\ MayRequest(row'[e].cm)
       /\ \A d \in Rows' : d \notin Rows => d = e

LEMMA SameTable ==
  ASSUME IInv, UNCHANGED <<row, used>>
  PROVE  RowMoves /\ RowAppears
  BY DEF IInv, NamesAreUsed, RowMoves, RowAppears, Rows

LEMMA TableStep ==
  ASSUME IInv, [Next]_vars
  PROVE  RowMoves /\ RowAppears
<1>0. CASE UNCHANGED vars
  BY <1>0, SameTable DEF vars
<1>1. CASE Tick \/ Crash \/ Sweep
  BY <1>1, SameTable DEF Tick, Crash, Sweep
<1>2. CASE MarkExpired
  <2>1. Rows' = Rows /\ used' = used
    BY <1>2, SweepEffect DEF MarkExpired
  <2>2. RowMoves
    BY <1>2, SweepEffect DEF RowMoves, Moves
  <2> QED
    BY <2>1, <2>2 DEF RowAppears, IInv, NamesAreUsed
<1>3. ASSUME NEW c \in Communities, DeleteCommunity(c)
      PROVE  RowMoves /\ RowAppears
  <2>1. Rows' \subseteq Rows /\ \A e \in Rows' : row'[e] = row[e]
    BY <1>3 DEF DeleteCommunity, Rows
  <2> QED
    BY <1>3, <2>1 DEF DeleteCommunity, RowMoves, RowAppears, IInv, NamesAreUsed
<1>4. ASSUME NEW c \in Communities, NEW e \in Exports, Request(c, e)
      PROVE  RowMoves /\ RowAppears
  <2>1. e \notin Rows /\ e \notin used
    BY <1>4 DEF Request, IInv, NamesAreUsed
  <2>2. \A d \in Exports : d # e => row'[d] = row[d]
    BY <1>4 DEF Request, IInv, TypeOK
  <2>3. row'[e] = [cm |-> c, status |-> "pending", at |-> clock, expires |-> 0]
    BY <1>4 DEF Request, IInv, TypeOK
  <2>4. Rows' \subseteq Rows \cup {e}
    BY <2>2 DEF Rows
  <2>5. RowMoves
    BY <2>1, <2>2, <2>4 DEF RowMoves, Rows
  <2>6. RowAppears
    BY <1>4, <2>1, <2>3, <2>4 DEF RowAppears, Request, IInv, NamesAreUsed
  <2> QED
    BY <2>5, <2>6
<1>5. ASSUME NEW e \in Exports, RemoveZip(e)
      PROVE  RowMoves /\ RowAppears
  BY <1>5, SameTable DEF RemoveZip
<1>6. ASSUME NEW w \in Workers,
             Select(w) \/ ClaimRaced(w) \/ Place(w) \/ BuildFails(w) \/ MarkReadyFails(w)
      PROVE  RowMoves /\ RowAppears
  BY <1>6, SameTable DEF Select, ClaimRaced, Place, BuildFails, MarkReadyFails
<1>7. ASSUME NEW w \in Workers,
             Claim(w) \/ ClaimLost(w) \/ Fail(w) \/ MarkReady(w)
      PROVE  RowMoves /\ RowAppears
  <2>1. Rows' = Rows /\ used' = used
    BY <1>7, WorkerEffect DEF Claim, ClaimLost, Fail, MarkReady
  <2>2. RowMoves
    <3> SUFFICES ASSUME NEW e \in Rows
                 PROVE  /\ row'[e].cm = row[e].cm
                        /\ row'[e].status # row[e].status =>
                             <<row[e].status, row'[e].status>> \in Moves
                        /\ (row[e].status = "ready" /\ row'[e].status = "ready") =>
                             row'[e].expires = row[e].expires
      BY DEF RowMoves
    <3>1. CASE e # worker[w].id
      BY <1>7, <3>1, WorkerEffect
    <3>2. CASE e = worker[w].id
      BY <1>7, <3>2, WorkerEffect DEF Moves
    <3> QED
      BY <3>1, <3>2
  <2> QED
    BY <2>1, <2>2 DEF RowAppears, IInv, NamesAreUsed
<1> QED
  BY <1>0, <1>1, <1>2, <1>3, <1>4, <1>5, <1>6, <1>7 DEF Next

-----------------------------------------------------------------------------
(* The conjuncts of the invariant, one lemma each.                         *)

LEMMA StepNames ==
  ASSUME IInv, [Next]_vars
  PROVE  NamesAreUsed'
<1>1. Rows' \subseteq used' /\ used \subseteq used'
  BY TableStep DEF RowAppears
<1>2. ASSUME NEW w \in Workers, worker'[w] # Resting
      PROVE  worker'[w].id \in used
  <2>1. CASE worker'[w] = worker[w]
    BY <1>2, <2>1 DEF IInv, NamesAreUsed
  <2>2. CASE Crash
    BY <1>2, <2>2 DEF Crash
  <2>3. ASSUME NEW v \in Workers,
               \/ Select(v) \/ Claim(v) \/ ClaimRaced(v) \/ ClaimLost(v) \/ Place(v)
               \/ BuildFails(v) \/ Fail(v) \/ MarkReady(v) \/ MarkReadyFails(v)
        PROVE  worker'[w].id \in used
    <3>1. CASE v # w
      BY <1>2, <2>1, <2>3, <3>1 DEF Select, Claim, ClaimRaced, ClaimLost, Place, BuildFails, Fail,
         MarkReady, MarkReadyFails, Goto, Rest, IInv, TypeOK
    <3>2. CASE v = w
      BY <1>2, <2>3, <3>2 DEF Select, Claim, ClaimRaced, ClaimLost, Place, BuildFails, Fail,
         MarkReady, MarkReadyFails, Goto, Rest, Resting, IInv, TypeOK, NamesAreUsed, WithStatus
    <3> QED
      BY <3>1, <3>2
  <2>4. CASE UNCHANGED worker
    BY <2>1, <2>4
  <2> QED
    BY <2>2, <2>3, <2>4 DEF Next, vars, Tick, Sweep, MarkExpired, DeleteCommunity, Request,
       RemoveZip
<1> QED
  BY <1>1, <1>2 DEF NamesAreUsed

\* The request's check and its insert are one transaction; no other step makes
\* a row active.
LEMMA StepUnique ==
  ASSUME IInv, [Next]_vars
  PROVE  ActiveIsUnique'
<1> SUFFICES ASSUME NEW d \in Rows', NEW e \in Rows', row'[d].cm = row'[e].cm,
                    row'[d].status \in Active, row'[e].status \in Active
             PROVE  d = e
  BY DEF ActiveIsUnique
<1>1. RowMoves /\ RowAppears
  BY TableStep
<1>2. ASSUME NEW x \in Rows, x \in Rows', row'[x].status \in Active
      PROVE  row[x].status \in Active /\ row[x].cm = row'[x].cm
  BY <1>1, <1>2 DEF RowMoves, Moves, Active
<1>3. CASE d \in Rows /\ e \in Rows
  BY <1>2, <1>3 DEF IInv, ActiveIsUnique
<1>4. CASE d \notin Rows /\ e \notin Rows
  BY <1>1, <1>4 DEF RowAppears
<1>5. CASE d \in Rows /\ e \notin Rows
  BY <1>1, <1>2, <1>5 DEF RowAppears, MayRequest, ActiveOf
<1>6. CASE d \notin Rows /\ e \in Rows
  BY <1>1, <1>2, <1>6 DEF RowAppears, MayRequest, ActiveOf
<1> QED
  BY <1>3, <1>4, <1>5, <1>6

\* The claim is the compare-and-set; whoever holds an id is the only one to move
\* its row.
LEMMA StepClaim ==
  ASSUME IInv, [Next]_vars
  PROVE  ClaimIsExclusive'
<1> SUFFICES ASSUME NEW w \in Workers, Building(w)'
             PROVE  /\ worker'[w].id \in Rows' => row'[worker'[w].id].status = "building"
                    /\ \A v \in Workers \ {w} : Building(v)' => worker'[v].id # worker'[w].id
  BY DEF ClaimIsExclusive
<1> DEFINE Goal == /\ worker'[w].id \in Rows' => row'[worker'[w].id].status = "building"
                   /\ \A v \in Workers \ {w} : Building(v)' => worker'[v].id # worker'[w].id
<1>t. worker \in [Workers -> Worker] /\ row \in [Exports -> Row \cup {NoRow}]
  BY DEF IInv, TypeOK
<1>h. ASSUME NEW v \in Workers, Building(v)
      PROVE  /\ worker[v].id \in used
             /\ worker[v].id \in Rows => row[worker[v].id].status = "building"
             /\ \A u \in Workers \ {v} : Building(u) => worker[u].id # worker[v].id
  BY <1>h DEF IInv, NamesAreUsed, ClaimIsExclusive, Building, Resting
<1>0. CASE UNCHANGED <<row, worker>>
  BY <1>0, <1>h DEF Building, Rows
<1>1. CASE Crash
  BY <1>1 DEF Crash, Building, Resting
<1>2. CASE MarkExpired
  BY <1>2, <1>h, SweepEffect DEF MarkExpired, Building
<1>3. ASSUME NEW c \in Communities, DeleteCommunity(c) PROVE Goal
  BY <1>3, <1>h DEF DeleteCommunity, Building, Rows
<1>4. ASSUME NEW c \in Communities, NEW e \in Exports, Request(c, e) PROVE Goal
  BY <1>4, <1>h, <1>t DEF Request, Building, Rows
<1>5. ASSUME NEW u \in Workers,
             Select(u) \/ ClaimRaced(u) \/ Place(u) \/ BuildFails(u) \/ MarkReadyFails(u)
      PROVE  Goal
  <2>1. UNCHANGED row /\ \A v \in Workers : Building(v)' => Building(v) /\ worker'[v].id = worker[v].id
    BY <1>5, <1>t DEF Select, ClaimRaced, Place, BuildFails, MarkReadyFails, Goto, Rest, Resting,
       Building
  <2> QED
    BY <2>1, <1>h DEF Rows
<1>6. ASSUME NEW u \in Workers, ClaimLost(u) \/ Fail(u) \/ MarkReady(u) PROVE Goal
  <2>1. \A v \in Workers : Building(v)' => v # u /\ Building(v) /\ worker'[v].id = worker[v].id
    BY <1>6, <1>t DEF ClaimLost, Fail, MarkReady, Rest, Resting, Building
  <2>2. worker[w].id # worker[u].id \/ worker[w].id \notin Rows
    <3>1. CASE ClaimLost(u)
      BY <2>1, <3>1, <1>h, WorkerEffect
    <3>2. CASE Fail(u) \/ MarkReady(u)
      <4>1. Building(u)
        BY <3>2 DEF Fail, MarkReady, Building
      <4> QED
        BY <4>1, <2>1, <1>h
    <3> QED
      BY <1>6, <3>1, <3>2
  <2> QED
    BY <1>6, <2>1, <2>2, <1>h, WorkerEffect
<1>7. ASSUME NEW u \in Workers, Claim(u) PROVE Goal
  <2>1. \A v \in Workers : v # u => worker'[v] = worker[v] /\ (Building(v)' <=> Building(v))
    BY <1>7, <1>t DEF Claim, Goto, Building
  <2>2. worker'[u].id = worker[u].id
    BY <1>7, <1>t DEF Claim, Goto
  <2>3. \A v \in Workers : Building(v) => worker[v].id # worker[u].id
    BY <1>7, <1>h, WorkerEffect
  <2>4. CASE w = u
    BY <1>7, <2>1, <2>2, <2>3, <2>4, WorkerEffect
  <2>5. CASE w # u
    BY <1>7, <1>h, <2>1, <2>2, <2>3, <2>5, WorkerEffect
  <2> QED
    BY <2>4, <2>5
<1> QED
  BY <1>0, <1>1, <1>2, <1>3, <1>4, <1>5, <1>6, <1>7 DEF Next, vars, Tick, Sweep, RemoveZip

\* The sweep takes files of ready rows only, and a held row is building.
LEMMA StepPlaced ==
  ASSUME IInv, [Next]_vars
  PROVE  PlacedHasZip'
<1> SUFFICES ASSUME NEW w \in Workers, worker'[w].st = "placed", worker'[w].id \in Rows'
             PROVE  worker'[w].id \in zip'
  BY DEF PlacedHasZip
<1>t. worker \in [Workers -> Worker]
  BY DEF IInv, TypeOK
<1>h. ASSUME worker[w].st = "placed", worker[w].id \in Rows
      PROVE  worker[w].id \in zip /\ row[worker[w].id].status = "building"
  BY <1>h DEF IInv, PlacedHasZip, ClaimIsExclusive, Building
<1>1. ASSUME NEW u \in Workers, Place(u)
      PROVE  worker'[w].id \in zip'
  <2>1. CASE u = w
    BY <1>1, <1>t, <2>1 DEF Place, Goto
  <2>2. CASE u # w
    BY <1>1, <1>t, <1>h, <2>2 DEF Place, Goto, Rows
  <2> QED
    BY <2>1, <2>2
<1>2. ASSUME NEW u \in Workers,
             \/ Select(u) \/ Claim(u) \/ ClaimRaced(u) \/ ClaimLost(u) \/ BuildFails(u)
             \/ Fail(u) \/ MarkReady(u) \/ MarkReadyFails(u)
      PROVE  worker'[w].id \in zip'
  <2>1. zip' = zip /\ worker'[w] = worker[w]
    BY <1>2, <1>t DEF Select, Claim, ClaimRaced, ClaimLost, BuildFails, Fail, MarkReady,
       MarkReadyFails, Goto, Rest, Resting
  <2>2. Rows' = Rows
    BY <1>2, WorkerEffect DEF Select, ClaimRaced, BuildFails, MarkReadyFails, Rows
  <2> QED
    BY <2>1, <2>2, <1>h
<1>3. ASSUME NEW c \in Communities, NEW e \in Exports, Request(c, e)
      PROVE  worker'[w].id \in zip'
  <2>1. worker[w].id \in used
    BY <1>3 DEF Request, IInv, NamesAreUsed, Resting
  <2>2. worker[w].id \in Rows
    BY <1>3, <2>1 DEF Request, IInv, TypeOK, Rows
  <2> QED
    BY <1>3, <1>h, <2>2 DEF Request
<1>4. ASSUME NEW c \in Communities, DeleteCommunity(c)
      PROVE  worker'[w].id \in zip'
  BY <1>4, <1>h DEF DeleteCommunity, Rows
<1>5. ASSUME NEW e \in Exports, RemoveZip(e)
      PROVE  worker'[w].id \in zip'
  <2>1. worker[w].id # e
    BY <1>5, <1>h DEF RemoveZip, IInv, VictimsAreDead, Rows
  <2> QED
    BY <1>5, <1>h, <2>1 DEF RemoveZip, Rows
<1>6. CASE MarkExpired
  BY <1>6, <1>h, SweepEffect DEF MarkExpired
<1>7. CASE Crash
  BY <1>7 DEF Crash, Resting
<1>8. CASE Tick \/ Sweep \/ UNCHANGED vars
  BY <1>8, <1>h DEF Tick, Sweep, vars, Rows
<1> QED
  BY <1>1, <1>2, <1>3, <1>4, <1>5, <1>6, <1>7, <1>8 DEF Next

\* Nothing brings a dead link back: a ready row only moves on, and the step that
\* moves it on takes it out of the sweep.
LEMMA StepVictims ==
  ASSUME IInv, [Next]_vars
  PROVE  VictimsAreDead'
<1> USE ExportConstants
<1>t. /\ victims \subseteq used /\ removed \in used \cup {NoExport} /\ used \subseteq Exports
      /\ clock \in Nat /\ row \in [Exports -> Row \cup {NoRow}]
  BY DEF IInv, TypeOK
<1>h. /\ removed \notin victims
      /\ \A e \in victims \cup {removed} :
           e \in Rows => row[e].status = "ready" /\ row[e].expires < clock
  BY DEF IInv, VictimsAreDead
<1>r. \A e \in Rows : row[e] \in Row
  BY <1>t DEF Rows
<1>0. CASE UNCHANGED <<clock, row, victims, removed>>
  BY <1>0, <1>h DEF VictimsAreDead, Rows
<1>1. CASE Tick
  <2>1. \A e \in Rows : row[e].expires \in Int
    BY <1>r DEF Row
  <2> QED
    BY <1>1, <1>h, <1>t, <2>1 DEF Tick, VictimsAreDead, Rows
<1>2. CASE Crash
  BY <1>2 DEF Crash, VictimsAreDead, Rows
<1>3. CASE Sweep
  BY <1>3 DEF Sweep, VictimsAreDead, Rows, WithStatus, Expired
<1>4. CASE MarkExpired
  BY <1>4, <1>h, <1>t, SweepEffect DEF MarkExpired, VictimsAreDead, Rows
<1>5. ASSUME NEW c \in Communities, DeleteCommunity(c)
      PROVE  VictimsAreDead'
  BY <1>5, <1>h DEF DeleteCommunity, VictimsAreDead, Rows
<1>6. ASSUME NEW c \in Communities, NEW e \in Exports, Request(c, e)
      PROVE  VictimsAreDead'
  BY <1>6, <1>h, <1>t DEF Request, VictimsAreDead, Rows
<1>7. ASSUME NEW e \in Exports, RemoveZip(e)
      PROVE  VictimsAreDead'
  BY <1>7, <1>h DEF RemoveZip, VictimsAreDead, Rows
<1>8. ASSUME NEW w \in Workers, Claim(w) \/ ClaimLost(w) \/ Fail(w) \/ MarkReady(w)
      PROVE  VictimsAreDead'
  <2>1. UNCHANGED <<clock, victims, removed>>
    BY <1>8 DEF Claim, ClaimLost, Fail, MarkReady
  <2>2. worker[w].id \in Rows => row[worker[w].id].status # "ready"
    BY <1>8, WorkerEffect
  <2> QED
    BY <1>8, <1>h, <2>1, <2>2, WorkerEffect DEF VictimsAreDead
<1> QED
  BY <1>0, <1>1, <1>2, <1>3, <1>4, <1>5, <1>6, <1>7, <1>8
     DEF Next, vars, Select, ClaimRaced, Place, BuildFails, MarkReadyFails

\* Either the link was good before the step, or MarkReady has just stamped it.
LEMMA StepReady ==
  ASSUME IInv, [Next]_vars
  PROVE  ReadyHasFile'
<1> SUFFICES ASSUME NEW e \in Exports, IsDownloadable(e)'
             PROVE  e \in zip'
  BY DEF ReadyHasFile
<1> USE ExportConstants
<1>1. /\ e \in Rows' /\ row'[e].status = "ready" /\ clock' < row'[e].expires
      /\ e \in Exports
  BY DEF IsDownloadable, WithStatus
<1>2. RowMoves /\ RowAppears
  BY TableStep
<1>3. e \in Rows
  BY <1>1, <1>2 DEF RowAppears
<1>4. CASE row[e].status = "ready"
  <2>1. row'[e].expires = row[e].expires
    BY <1>1, <1>2, <1>3, <1>4 DEF RowMoves
  <2>2. clock <= clock' /\ clock \in Int /\ clock' \in Int
    BY DEF IInv, TypeOK, Next, vars, Tick, Crash, Sweep, MarkExpired, DeleteCommunity, Request,
       RemoveZip, Select, Claim, ClaimRaced, ClaimLost, Place, BuildFails, Fail, MarkReady,
       MarkReadyFails
  <2>3. row[e].expires \in Int
    BY <1>3 DEF IInv, TypeOK, Rows, Row
  <2>4. clock < row[e].expires
    BY <1>1, <2>1, <2>2, <2>3
  <2>5. e \in zip
    BY <1>3, <1>4, <2>4 DEF IInv, ReadyHasFile, IsDownloadable, WithStatus
  <2>6. e \notin victims
    BY <1>3, <2>2, <2>3, <2>4 DEF IInv, VictimsAreDead
  <2> QED
    BY <2>5, <2>6 DEF Next, vars, Tick, Crash, Sweep, MarkExpired, DeleteCommunity, Request,
       RemoveZip, Select, Claim, ClaimRaced, ClaimLost, Place, BuildFails, Fail, MarkReady,
       MarkReadyFails
<1>5. CASE row[e].status # "ready"
  <2>1. ASSUME NEW w \in Workers, Claim(w) \/ ClaimLost(w) \/ Fail(w) \/ MarkReady(w)
        PROVE  e \in zip'
    <3>1. e = worker[w].id
      BY <1>1, <1>3, <1>5, <2>1, WorkerEffect
    <3>2. MarkReady(w)
      BY <1>1, <1>3, <2>1, <3>1, WorkerEffect
    <3> QED
      BY <1>3, <3>1, <3>2, WorkerEffect DEF MarkReady
  <2>2. ~ MarkExpired
    BY <1>1, <1>3, <1>5, SweepEffect
  <2>3. row'[e] # row[e]
    BY <1>1, <1>5
  <2>4. ASSUME NEW c \in Communities PROVE ~ DeleteCommunity(c)
    BY <1>1, <1>3, <2>3 DEF DeleteCommunity, Rows
  <2>5. ASSUME NEW c \in Communities, NEW d \in Exports PROVE ~ Request(c, d)
    BY <1>3, <2>3 DEF Request, IInv, NamesAreUsed, TypeOK
  <2> QED
    BY <2>1, <2>2, <2>3, <2>4, <2>5 DEF Next, vars, Tick, Crash, Sweep, RemoveZip, Select,
       ClaimRaced, Place, BuildFails, MarkReadyFails
<1> QED
  BY <1>4, <1>5

-----------------------------------------------------------------------------
(* The theorems.                                                           *)

\* The invariant holds in every reachable state: the initial state satisfies it
\* (InitInv) and each conjunct survives every step (the lemmas above).
THEOREM Invariance == Spec => []IInv
<1>1. IInv /\ [Next]_vars => IInv'
  BY StepType, StepNames, StepUnique, StepClaim, StepPlaced, StepVictims, StepReady DEF IInv
<1> QED
  BY <1>1, InitInv, PTL DEF Spec

\* Every value of the tables, the directory and the loops has its type.
THEOREM TypeCorrect == Spec => []TypeOK
<1>1. IInv => TypeOK
  BY DEF IInv
<1> QED
  BY <1>1, Invariance, PTL

\* A community never has two exports queued or being built (Repo.Request,
\* ErrInProgress).
THEOREM OneActiveHolds == Spec => []OneActive
<1>1. IInv => OneActive
  <2> SUFFICES ASSUME IInv, NEW c \in Communities
               PROVE  Cardinality(ActiveOf(c)) <= 1
    BY DEF OneActive
  <2>1. CASE ActiveOf(c) = {}
    <3>1. Cardinality({}) = 0
      BY FS_EmptySet
    <3> QED
      BY <2>1, <3>1
  <2>2. CASE ActiveOf(c) # {}
    <3>1. PICK e : e \in ActiveOf(c)
      BY <2>2
    <3>2. ActiveOf(c) = {e}
      BY <3>1 DEF IInv, ActiveIsUnique, ActiveOf
    <3>3. Cardinality({e}) = 1
      BY FS_Singleton
    <3> QED
      BY <3>2, <3>3
  <2> QED
    BY <2>1, <2>2
<1> QED
  BY <1>1, Invariance, PTL

\* However many processes drain the queue, an export that is being built belongs
\* to one of them (NextPending's conditional UPDATE).
THEOREM ClaimIsExclusiveHolds == Spec => []ClaimIsExclusive
<1>1. IInv => ClaimIsExclusive
  BY DEF IInv
<1> QED
  BY <1>1, Invariance, PTL

\* A link that validDownload accepts has its file, whatever the sweep does
\* meanwhile.
THEOREM ReadyHasFileHolds == Spec => []ReadyHasFile
<1>1. IInv => ReadyHasFile
  BY DEF IInv
<1> QED
  BY <1>1, Invariance, PTL

\* The status of an export only moves forward along its lifecycle.
THEOREM StatusMovesOnHolds == Spec => StatusMovesOn
<1> DEFINE Step == \A e \in Exports :
       (e \in Rows /\ row'[e] # NoRow /\ row'[e].status # row[e].status) =>
         <<row[e].status, row'[e].status>> \in Moves
<1>1. IInv /\ [Next]_vars => [Step]_vars
  BY TableStep DEF RowMoves, Rows
<1> QED
  BY <1>1, Invariance, PTL DEF Spec, StatusMovesOn
=============================================================================
