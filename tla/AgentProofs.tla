------------------------------ MODULE AgentProofs ------------------------------
(***************************************************************************)
(* Theorems about Agent, for any requests, streams and bounds.             *)
(***************************************************************************)
EXTENDS Agent, FiniteSetTheorems, TLAPS

\* The variables a step on the rows does not touch.
RowsOK ==
  /\ gone \in BOOLEAN /\ (gone => DOMAIN rows = {})
  /\ made \in 0 .. MaxRows
  /\ DOMAIN rows \subseteq 1 .. made /\ \A m \in DOMAIN rows : rows[m] \in Row
  /\ orphaned \subseteq DOMAIN rows

RunsOK ==
  /\ runs \in Seq(Run) /\ Len(runs) <= MaxRuns
  /\ active \in 0 .. Len(runs)
  /\ stopped \subseteq DOMAIN runs

OthersOK ==
  /\ req \in [Requests -> Request]
  /\ \A q \in Requests : req[q].step \in {"reset", "start"} => req[q].row \in 1 .. made
  /\ viewer \in [Viewers -> Viewer]
  /\ faults \in 0 .. MaxFaults

LEMMA TypeParts == TypeOK <=> RowsOK /\ RunsOK /\ OthersOK
  BY DEF TypeOK, RowsOK, RunsOK, OthersOK

\* The generation in flight is the last one that was started. One that has settled
\* knows how; one that was stopped in time settles as interrupted.
ActiveIsLast == active # 0 => active = Len(runs)
EndIsKnown ==
  \A g \in Live :
    /\ runs[g].step \in {"finish", "close"} => runs[g].end # "generating"
    /\ g \in stopped =>
         /\ runs[g].cancelled
         /\ runs[g].step \in {"finish", "close"} => runs[g].end = "interrupted"

\* A row is generating as long as the generation that writes it is at work.
AtWork ==
  \A m \in DOMAIN rows :
    /\ rows[m].by <= Len(runs)
    /\ rows[m].by \in DOMAIN runs /\ Filling(rows[m].by) => rows[m].status = "generating"

\* Every request that may yet add a row or a generation has its room.
BoundsOK ==
  /\ made + Cardinality(Inserting) <= MaxRows
  /\ Len(runs) + Cardinality(Asking) <= MaxRuns

IInv == /\ TypeOK /\ BoundsOK /\ OneGeneration /\ ActiveIsLast /\ EndIsKnown
        /\ AtWork /\ GeneratingIsOwned /\ StopIsObeyed

-----------------------------------------------------------------------------

LEMMA InitInv == Init => IInv
<1> SUFFICES ASSUME Init PROVE IInv
  OBVIOUS
<1> USE AgentConstants DEF Init
<1>1. RowsOK
  <2>1. DOMAIN rows = {}
    OBVIOUS
  <2>2. gone \in BOOLEAN
    BY Zenon
  <2>3. made \in 0 .. MaxRows
    OBVIOUS
  <2>4. orphaned = {}
    OBVIOUS
  <2> QED
    BY <2>1, <2>2, <2>3, <2>4 DEF RowsOK
<1>2. RunsOK
  BY DEF RunsOK
<1>3. OthersOK
  BY DEF OthersOK, Idle, Off, Request, Viewer
<1>4. Live = {}
  BY DEF Live
<1>5. OneGeneration /\ ActiveIsLast /\ EndIsKnown
  BY <1>4 DEF OneGeneration, ActiveIsLast, EndIsKnown
<1>6. AtWork /\ GeneratingIsOwned /\ StopIsObeyed
  BY DEF AtWork, GeneratingIsOwned, Unfinished, StopIsObeyed
<1>7. BoundsOK
  <2>1. Inserting = {} /\ Asking = {}
    BY DEF Inserting, Asking, Idle
  <2> QED
    BY <2>1, FS_EmptySet DEF BoundsOK
<1> QED
  BY <1>1, <1>2, <1>3, <1>5, <1>6, <1>7, TypeParts DEF IInv

-----------------------------------------------------------------------------
(* What steps have in common.                                              *)

LEMMA SameGone ==
  ASSUME RowsOK, gone' = gone, DOMAIN rows' = DOMAIN rows
  PROVE  gone' \in BOOLEAN /\ (gone' => DOMAIN rows' = {})
  BY Zenon DEF RowsOK

LEMMA FaultsType == ASSUME OthersOK, Fault \/ Well PROVE faults' \in 0 .. MaxFaults
  BY AgentConstants DEF OthersOK, Fault, Well

\* Generations change in place.
LEMMA RunsUpdate ==
  ASSUME RunsOK, NEW f \in [DOMAIN runs -> Run]
  PROVE  f \in Seq(Run) /\ Len(f) = Len(runs) /\ DOMAIN f = DOMAIN runs
  BY DEF RunsOK

\* Fields of a generation.
LEMMA RunFields ==
  ASSUME RunsOK, NEW g \in DOMAIN runs
  PROVE  /\ runs[g] \in Run
         /\ runs[g] = [row |-> runs[g].row, step |-> runs[g].step, end |-> runs[g].end,
                       cancelled |-> runs[g].cancelled]
         /\ g \in 1 .. Len(runs)
<1>1. runs[g] \in Run /\ g \in 1 .. Len(runs)
  BY DEF RunsOK
<1> QED
  BY <1>1 DEF Run

LEMMA StreamsType ==
  ASSUME OthersOK, NEW told \in BOOLEAN, Streams(told)
  PROVE  viewer' \in [Viewers -> Viewer]
<1>1. SUFFICES ASSUME NEW v \in Viewers, viewer[v].step # "off"
               PROVE  [viewer[v] EXCEPT !.ping = @ \/ told,
                                        !.fresh = @ /\ View' = View] \in Viewer
  <2>1. Off \in Viewer
    BY DEF Off, Viewer
  <2> QED
    BY <1>1, <2>1 DEF Streams
<1>2. PICK b \in BOOLEAN : b = (View' = View)
  OBVIOUS
<1>3. viewer[v] \in Viewer
  BY DEF OthersOK
<1>4. (viewer[v].ping \/ told) \in BOOLEAN /\ (viewer[v].fresh /\ b) \in BOOLEAN
  OBVIOUS
<1> QED
  BY <1>2, <1>3, <1>4 DEF Viewer

LEMMA BroadcastType ==
  ASSUME OthersOK, Broadcast \/ Silence PROVE viewer' \in [Viewers -> Viewer]
  BY StreamsType DEF Broadcast, Silence

\* A request takes its next step, or ends.
LEMMA ReqType ==
  ASSUME OthersOK, NEW q \in Requests, made' >= made, made \in Nat, made' \in Nat,
         NEW r \in Request, r.step \in {"reset", "start"} => r.row \in 1 .. made',
         req' = [req EXCEPT ![q] = r]
  PROVE  /\ req' \in [Requests -> Request]
         /\ \A p \in Requests : req'[p].step \in {"reset", "start"} => req'[p].row \in 1 .. made'
         /\ req'[q] = r /\ \A p \in Requests \ {q} : req'[p] = req[p]
<1>1. req' \in [Requests -> Request]
  BY DEF OthersOK
<1>2. req'[q] = r /\ \A p \in Requests \ {q} : req'[p] = req[p]
  BY DEF OthersOK
<1>3. ASSUME NEW p \in Requests, req'[p].step \in {"reset", "start"}
      PROVE  req'[p].row \in 1 .. made'
  BY <1>2, <1>3 DEF OthersOK
<1> QED
  BY <1>1, <1>2, <1>3

LEMMA EndType ==
  ASSUME OthersOK, NEW q \in Requests, made' >= made, made \in Nat, made' \in Nat, End(q)
  PROVE  /\ req' \in [Requests -> Request]
         /\ \A p \in Requests : req'[p].step \in {"reset", "start"} => req'[p].row \in 1 .. made'
         /\ req'[q] = Idle /\ \A p \in Requests \ {q} : req'[p] = req[p]
<1>1. Idle \in Request /\ Idle.step = "idle"
  BY DEF Idle, Request
<1>2. req' = [req EXCEPT ![q] = Idle]
  BY DEF End
<1> QED
  BY <1>1, <1>2, ReqType

LEMMA GotoType ==
  ASSUME OthersOK, NEW q \in Requests, made' >= made, made \in Nat, made' \in Nat,
         NEW s \in {"insert", "pick", "delete", "start"}, Goto(q, s),
         s = "start" => req[q].row \in 1 .. made
  PROVE  /\ req' \in [Requests -> Request]
         /\ \A p \in Requests : req'[p].step \in {"reset", "start"} => req'[p].row \in 1 .. made'
         /\ req'[q].step = s /\ req'[q].row = req[q].row
         /\ \A p \in Requests \ {q} : req'[p] = req[p]
<1>1. [req[q] EXCEPT !.step = s] \in Request
  BY DEF OthersOK, Request
<1>2. PICK r \in Request : r = [req[q] EXCEPT !.step = s]
  BY <1>1
<1>3. r.step = s /\ r.row = req[q].row
  BY <1>2 DEF OthersOK, Request
<1>4. req' = [req EXCEPT ![q] = r]
  BY <1>2 DEF Goto
<1>5. r.step \in {"reset", "start"} => r.row \in 1 .. made'
  BY <1>3
<1> QED
  BY <1>3, <1>4, <1>5, ReqType

\* Two sets that differ in one element at most.
LEMMA Differ ==
  ASSUME NEW S, NEW T, IsFiniteSet(S), IsFiniteSet(T), NEW q, S \ {q} = T \ {q}
  PROVE  /\ Cardinality(S) \in Nat /\ Cardinality(T) \in Nat
         /\ Cardinality(T) <= Cardinality(S) + 1
         /\ q \in S \/ q \notin T => Cardinality(T) <= Cardinality(S)
         /\ q \in S /\ q \notin T => Cardinality(T) = Cardinality(S) - 1
         /\ q \in S => Cardinality(S) > 0
<1>1. Cardinality(S) \in Nat /\ Cardinality(T) \in Nat
  BY FS_CardinalityType
<1>2. CASE q \in S /\ q \notin T
  <2>1. T = S \ {q}
    BY <1>2
  <2> QED
    BY <1>1, <1>2, <2>1, FS_RemoveElement
<1>3. CASE q \in S /\ q \in T
  <2>1. S = T
    BY <1>3
  <2>2. Cardinality(S \ {q}) = Cardinality(S) - 1 /\ Cardinality(S \ {q}) \in Nat
    BY <1>3, FS_RemoveElement, FS_CardinalityType
  <2> QED
    BY <1>1, <1>3, <2>1, <2>2
<1>4. CASE q \notin S /\ q \in T
  <2>1. T = S \cup {q}
    BY <1>4
  <2> QED
    BY <1>1, <1>4, <2>1, FS_AddElement
<1>5. CASE q \notin S /\ q \notin T
  <2>1. S = T
    BY <1>5
  <2> QED
    BY <1>1, <1>5, <2>1
<1> QED
  BY <1>2, <1>3, <1>4, <1>5

LEMMA Counts ==
  ASSUME NEW q \in Requests, \A p \in Requests \ {q} : req'[p] = req[p]
  PROVE  /\ Cardinality(Asking) \in Nat /\ Cardinality(Asking') \in Nat
         /\ Cardinality(Inserting) \in Nat /\ Cardinality(Inserting') \in Nat
         /\ Cardinality(Asking') <= Cardinality(Asking) + 1
         /\ Cardinality(Inserting') <= Cardinality(Inserting) + 1
         /\ q \in Asking \/ q \notin Asking' => Cardinality(Asking') <= Cardinality(Asking)
         /\ q \in Inserting \/ q \notin Inserting' =>
              Cardinality(Inserting') <= Cardinality(Inserting)
         /\ q \in Asking /\ q \notin Asking' =>
              Cardinality(Asking') = Cardinality(Asking) - 1
         /\ q \in Inserting /\ q \notin Inserting' =>
              Cardinality(Inserting') = Cardinality(Inserting) - 1
         /\ q \in Asking => Cardinality(Asking) > 0
         /\ q \in Inserting => Cardinality(Inserting) > 0
<1>1. /\ IsFiniteSet(Asking) /\ IsFiniteSet(Asking')
      /\ IsFiniteSet(Inserting) /\ IsFiniteSet(Inserting')
  <2>1. /\ Asking \subseteq Requests /\ Asking' \subseteq Requests
        /\ Inserting \subseteq Requests /\ Inserting' \subseteq Requests
    BY DEF Asking, Inserting
  <2> QED
    BY <2>1, AgentConstants, FS_Subset
<1>2. PICK A, B, I, J : A = Asking /\ B = Asking' /\ I = Inserting /\ J = Inserting'
  OBVIOUS
<1>3. A \ {q} = B \ {q} /\ I \ {q} = J \ {q}
  BY <1>2 DEF Asking, Inserting
<1>4. IsFiniteSet(A) /\ IsFiniteSet(B) /\ IsFiniteSet(I) /\ IsFiniteSet(J)
  BY <1>1, <1>2
<1>5. /\ Cardinality(A) \in Nat /\ Cardinality(B) \in Nat
      /\ Cardinality(B) <= Cardinality(A) + 1
      /\ q \in A \/ q \notin B => Cardinality(B) <= Cardinality(A)
      /\ q \in A /\ q \notin B => Cardinality(B) = Cardinality(A) - 1
      /\ q \in A => Cardinality(A) > 0
  BY <1>3, <1>4, Differ
<1>6. /\ Cardinality(I) \in Nat /\ Cardinality(J) \in Nat
      /\ Cardinality(J) <= Cardinality(I) + 1
      /\ q \in I \/ q \notin J => Cardinality(J) <= Cardinality(I)
      /\ q \in I /\ q \notin J => Cardinality(J) = Cardinality(I) - 1
      /\ q \in I => Cardinality(I) > 0
  BY <1>3, <1>4, Differ
<1> QED
  BY <1>2, <1>5, <1>6

-----------------------------------------------------------------------------
(* Steps that leave the rows and the generations alone.                    *)

LEMMA SameRows ==
  ASSUME IInv, UNCHANGED <<table, runs, active, stopped>>, OthersOK', BoundsOK',
         \A q \in Requests : req[q].step = "start" => req'[q] = req[q]
  PROVE  IInv'
<1> USE DEF IInv, table
<1>1. RowsOK'
  <2>1. RowsOK
    BY TypeParts
  <2> QED BY <2>1 DEF RowsOK
<1>2. RunsOK'
  BY TypeParts DEF RunsOK
<1>3. OneGeneration' /\ ActiveIsLast' /\ EndIsKnown'
  BY DEF OneGeneration, ActiveIsLast, EndIsKnown, Live
<1>4. AtWork' /\ StopIsObeyed'
  BY DEF AtWork, StopIsObeyed, Filling, Live
<1>5. GeneratingIsOwned'
  BY DEF GeneratingIsOwned, Unfinished, Filling, Live
<1>6. TypeOK'
  BY <1>1, <1>2, TypeParts DEF TypeOK, RowsOK, RunsOK, OthersOK
<1> QED
  BY <1>3, <1>4, <1>5, <1>6

LEMMA AskStep ==
  ASSUME IInv, NEW q \in Requests, PostSend(q) \/ PostRegenerate(q) \/ PickAnswer(q)
  PROVE  IInv'
<1> USE DEF IInv
<1>0. RowsOK /\ RunsOK /\ OthersOK /\ made \in Nat /\ Len(runs) \in Nat
  BY TypeParts DEF RowsOK, RunsOK
<1>1. UNCHANGED <<table, runs, active, stopped, viewer>> /\ (Fault \/ Well)
  BY DEF PostSend, PostRegenerate, PickAnswer
<1>2. UNCHANGED made /\ UNCHANGED runs
  BY <1>1 DEF table
<1>3. \/ PostSend(q) /\ Goto(q, "insert")
      \/ PostRegenerate(q) /\ Goto(q, "pick")
      \/ PickAnswer(q) /\ (End(q) \/ \E m \in DOMAIN rows :
            req' = [req EXCEPT ![q] = [step |-> "reset", row |-> m]])
  BY DEF PostSend, PostRegenerate, PickAnswer
<1>4. /\ req' \in [Requests -> Request]
      /\ \A p \in Requests : req'[p].step \in {"reset", "start"} => req'[p].row \in 1 .. made'
      /\ \A p \in Requests \ {q} : req'[p] = req[p]
  <2>1. CASE Goto(q, "insert") \/ Goto(q, "pick")
    BY <1>0, <1>2, <2>1, GotoType
  <2>2. CASE End(q)
    BY <1>0, <1>2, <2>2, EndType
  <2>3. ASSUME NEW m \in DOMAIN rows, req' = [req EXCEPT ![q] = [step |-> "reset", row |-> m]]
        PROVE  /\ req' \in [Requests -> Request]
               /\ \A p \in Requests : req'[p].step \in {"reset", "start"} => req'[p].row \in 1 .. made'
               /\ \A p \in Requests \ {q} : req'[p] = req[p]
    <3>1. [step |-> "reset", row |-> m] \in Request /\ m \in 1 .. made'
      BY <1>0, <1>2, AgentConstants DEF RowsOK, Request, RowIds
    <3>2. PICK r \in Request : r = [step |-> "reset", row |-> m]
      BY <3>1
    <3>3. req' = [req EXCEPT ![q] = r] /\ r.row \in 1 .. made' /\ made' >= made /\ made' \in Nat
      BY <1>0, <1>2, <2>3, <3>1, <3>2
    <3> QED
      BY <1>0, <3>3, ReqType
  <2> QED
    BY <1>3, <2>1, <2>2, <2>3
<1>5. OthersOK'
  BY <1>0, <1>1, <1>4, FaultsType DEF OthersOK
<1>6. BoundsOK'
  <2>1. CASE PostSend(q) /\ Goto(q, "insert")
    BY <1>0, <1>2, <1>4, <2>1, Counts, AgentConstants DEF PostSend, Spare, BoundsOK
  <2>2. CASE PostRegenerate(q) /\ Goto(q, "pick")
    <3>1. q \notin Inserting'
      BY <1>0, <2>2, GotoType, <1>2 DEF Inserting
    <3> QED
      BY <1>0, <1>2, <1>4, <2>2, <3>1, Counts, AgentConstants
         DEF PostRegenerate, Spare, BoundsOK
  <2>3. CASE PickAnswer(q)
    <3>1. q \in Asking
      BY <2>3 DEF PickAnswer, Asking
    <3>2. q \notin Inserting'
      <4>1. CASE End(q)
        BY <1>0, <1>2, <4>1, EndType DEF Inserting, Idle
      <4>2. ASSUME NEW m \in DOMAIN rows, req' = [req EXCEPT ![q] = [step |-> "reset", row |-> m]]
            PROVE  q \notin Inserting'
        BY <1>0, <4>2 DEF Inserting, OthersOK, Request
      <4> QED
        BY <2>3, <4>1, <4>2 DEF PickAnswer
    <3> QED
      BY <1>0, <1>2, <1>4, <3>1, <3>2, Counts, AgentConstants DEF BoundsOK
  <2> QED
    BY <1>3, <2>1, <2>2, <2>3
<1>7. req[q].step # "start"
  BY DEF PostSend, PostRegenerate, PickAnswer, Idle
<1> QED
  BY <1>1, <1>4, <1>5, <1>6, <1>7, SameRows

\* Steps of the streams.
LEMMA ViewerStep ==
  ASSUME IInv, NEW v \in Viewers, Connect(v) \/ Morph(v) \/ Wake(v) \/ Disconnect(v)
  PROVE  IInv'
<1>1. UNCHANGED <<table, runs, active, stopped, req>> /\ (Fault \/ Well)
  BY DEF Connect, Morph, Wake, Disconnect
<1>2. OthersOK /\ viewer[v] \in Viewer
  BY TypeParts DEF IInv, OthersOK
<1>3. viewer' \in [Viewers -> Viewer]
  <2>1. CASE Connect(v)
    BY <1>2, <2>1 DEF Connect, OthersOK, Viewer
  <2>2. CASE Morph(v)
    BY <1>2, <2>2 DEF Morph, OthersOK, Viewer
  <2>3. CASE Wake(v)
    BY <1>2, <2>3 DEF Wake, OthersOK, Viewer
  <2>4. CASE Disconnect(v)
    BY <1>2, <2>4 DEF Disconnect, OthersOK, Viewer, Off
  <2> QED
    BY <2>1, <2>2, <2>3, <2>4
<1>4. OthersOK'
  BY <1>1, <1>2, <1>3, FaultsType DEF OthersOK, table
<1>5. BoundsOK'
  BY <1>1 DEF IInv, BoundsOK, Asking, Inserting, table
<1> QED
  BY <1>1, <1>4, <1>5, SameRows

-----------------------------------------------------------------------------
(* Steps that change the rows and leave the generations alone.             *)

LEMMA SameRuns ==
  ASSUME IInv, UNCHANGED <<runs, active, stopped>>, RowsOK', OthersOK', BoundsOK',
         \A m \in DOMAIN rows' :
           \/ m \in DOMAIN rows /\ rows'[m] = rows[m]
           \/ rows'[m] = [status |-> "generating", by |-> 0],
         \A m \in DOMAIN rows' \ orphaned' :
           \/ m \in DOMAIN rows \ orphaned /\ rows'[m] = rows[m]
           \/ \E p \in Requests : req'[p].step = "start" /\ req'[p].row = m,
         \A p \in Requests : req[p].step = "start" =>
           req'[p] = req[p] \/ req[p].row \notin DOMAIN rows' \ orphaned'
  PROVE  IInv'
<1> USE DEF IInv
<1>1. RunsOK /\ RunsOK'
  BY TypeParts DEF RunsOK
<1>2. OneGeneration' /\ ActiveIsLast' /\ EndIsKnown'
  BY DEF OneGeneration, ActiveIsLast, EndIsKnown, Live
<1>3. \A g : Filling(g)' <=> Filling(g)
  BY DEF Filling, Live
<1>4. 0 \notin DOMAIN runs /\ 0 <= Len(runs) /\ stopped \subseteq DOMAIN runs
  BY <1>1 DEF RunsOK
<1>5. AtWork'
  BY <1>3, <1>4 DEF AtWork
<1>6. StopIsObeyed'
  BY <1>4 DEF StopIsObeyed
<1>7. ASSUME NEW m \in Unfinished' \ orphaned'
      PROVE  \/ \E g \in Live' : Filling(g)' /\ runs'[g].row = m
             \/ \E p \in Requests : req'[p].step = "start" /\ req'[p].row = m
  <2>1. m \in DOMAIN rows' \ orphaned' /\ rows'[m].status = "generating"
    BY <1>7 DEF Unfinished
  <2>2. CASE m \in DOMAIN rows \ orphaned /\ rows'[m] = rows[m]
    <3>1. m \in Unfinished \ orphaned
      BY <2>1, <2>2 DEF Unfinished
    <3>2. CASE \E g \in Live : Filling(g) /\ runs[g].row = m
      BY <3>2, <1>3 DEF Live
    <3>3. CASE \E p \in Requests : req[p].step = "start" /\ req[p].row = m
      BY <2>1, <3>3
    <3> QED
      BY <3>1, <3>2, <3>3 DEF GeneratingIsOwned
  <2> QED
    BY <2>1, <2>2
<1>8. GeneratingIsOwned'
  BY <1>7 DEF GeneratingIsOwned
<1>9. TypeOK'
  BY <1>1 DEF TypeOK, RowsOK, RunsOK, OthersOK
<1> QED
  BY <1>2, <1>5, <1>6, <1>8, <1>9

LEMMA InsertStep == ASSUME IInv, NEW q \in Requests, Insert(q) PROVE IInv'
<1> USE DEF IInv
<1>0. RowsOK /\ RunsOK /\ OthersOK /\ made \in Nat /\ Len(runs) \in Nat
  BY TypeParts DEF RowsOK, RunsOK
<1>1. /\ UNCHANGED <<gone, runs, active, stopped>> /\ (Fault \/ Well)
      /\ req[q].step = "insert" /\ q \in Inserting /\ q \in Asking
  BY DEF Insert, Inserting, Asking
<1>2. made + Cardinality(Inserting) <= MaxRows /\ Len(runs) + Cardinality(Asking) <= MaxRuns
  BY DEF BoundsOK
<1>3. CASE End(q) /\ UNCHANGED <<rows, made, orphaned, viewer>>
  <2>1. OthersOK' /\ req'[q] = Idle /\ \A p \in Requests \ {q} : req'[p] = req[p]
    BY <1>0, <1>1, <1>3, EndType, FaultsType DEF OthersOK
  <2>2. BoundsOK'
    <3>1. q \notin Inserting' /\ q \notin Asking'
      BY <2>1 DEF Inserting, Asking, Idle
    <3>2. UNCHANGED made /\ UNCHANGED runs
      BY <1>1, <1>3
    <3> QED
      BY <1>0, <1>1, <1>2, <2>1, <3>1, <3>2, Counts, AgentConstants DEF BoundsOK
  <2> QED
    BY <1>1, <1>3, <2>1, <2>2, SameRows DEF table
<1>4. CASE /\ Placeholder /\ (Broadcast \/ Silence)
           /\ \/ UNCHANGED orphaned
                 /\ req' = [req EXCEPT ![q] = [step |-> "start", row |-> made + 1]]
              \/ orphaned' = orphaned \cup {made + 1} /\ End(q)
  <2>1. made' = made + 1 /\ made + 1 <= MaxRows /\ made' \in Nat
    <3>1. made' = made + 1
      BY <1>4 DEF Placeholder
    <3>2. IsFiniteSet(Inserting)
      BY AgentConstants, FS_Subset DEF Inserting
    <3>3. Cardinality(Inserting) \in Nat /\ Cardinality(Inserting) # 0
      BY <1>1, <3>2, FS_CardinalityType, FS_EmptySet
    <3> QED
      BY <1>0, <1>2, <3>1, <3>3, AgentConstants
  <2>2. /\ ~gone /\ DOMAIN rows' = DOMAIN rows \cup {made + 1}
        /\ rows'[made + 1] = [status |-> "generating", by |-> 0]
        /\ \A m \in DOMAIN rows : m # made + 1 /\ rows'[m] = rows[m]
    BY <1>0, <1>4 DEF Placeholder, RowsOK
  <2>3. /\ req' \in [Requests -> Request]
        /\ \A p \in Requests : req'[p].step \in {"reset", "start"} => req'[p].row \in 1 .. made'
        /\ \A p \in Requests \ {q} : req'[p] = req[p]
        /\ \/ UNCHANGED orphaned /\ req'[q] = [step |-> "start", row |-> made + 1]
           \/ orphaned' = orphaned \cup {made + 1} /\ req'[q] = Idle
    <3>1. CASE orphaned' = orphaned \cup {made + 1} /\ End(q)
      BY <1>0, <2>1, <3>1, EndType
    <3>2. CASE UNCHANGED orphaned /\ req' = [req EXCEPT ![q] = [step |-> "start", row |-> made + 1]]
      <4>1. [step |-> "start", row |-> made + 1] \in Request
        BY <1>0, <2>1, AgentConstants DEF Request, RowIds
      <4>2. PICK r \in Request : r = [step |-> "start", row |-> made + 1]
        BY <4>1
      <4>3. req' = [req EXCEPT ![q] = r] /\ r.row \in 1 .. made' /\ made' >= made
        BY <1>0, <2>1, <3>2, <4>2
      <4>4. req'[q] = r
        BY <1>0, <2>1, <4>3, ReqType
      <4> QED
        BY <1>0, <2>1, <3>2, <4>2, <4>3, <4>4, ReqType
    <3> QED
      BY <1>4, <3>1, <3>2
  <2>4. RowsOK'
    <3>1. [status |-> "generating", by |-> 0] \in Row
      BY DEF Row, Statuses
    <3>2. DOMAIN rows' \subseteq 1 .. made' /\ orphaned' \subseteq DOMAIN rows'
      BY <1>0, <2>1, <2>2, <2>3 DEF RowsOK
    <3>3. \A m \in DOMAIN rows' : rows'[m] \in Row
      BY <1>0, <2>2, <3>1 DEF RowsOK
    <3>4. gone' \in BOOLEAN /\ ~gone'
      BY <1>0, <1>1, <2>2, Zenon DEF RowsOK
    <3>5. made' \in 0 .. MaxRows
      BY <2>1, AgentConstants
    <3> QED
      BY <3>2, <3>3, <3>4, <3>5 DEF RowsOK
  <2>5. OthersOK'
    BY <1>0, <1>1, <1>4, <2>3, FaultsType, BroadcastType DEF OthersOK
  <2>6. BoundsOK'
    <3>1. q \notin Inserting'
      BY <2>3 DEF Inserting, Idle
    <3> QED
      BY <1>0, <1>1, <1>2, <2>1, <2>3, <3>1, Counts, AgentConstants DEF BoundsOK
  <2> QED
    BY <1>1, <2>2, <2>3, <2>4, <2>5, <2>6, SameRuns
<1> QED
  BY <1>3, <1>4 DEF Insert

LEMMA ResetStep == ASSUME IInv, NEW q \in Requests, ResetAnswer(q) PROVE IInv'
<1> USE DEF IInv
<1>0. RowsOK /\ RunsOK /\ OthersOK /\ made \in Nat /\ Len(runs) \in Nat
  BY TypeParts DEF RowsOK, RunsOK
<1>1. /\ UNCHANGED <<gone, made, runs, active, orphaned, stopped>> /\ (Fault \/ Well)
      /\ req[q].step = "reset" /\ q \notin Inserting /\ q \in Asking /\ Silence
      /\ req[q].row \in 1 .. made
  BY <1>0 DEF ResetAnswer, Inserting, Asking, OthersOK
<1>2. DOMAIN rows' = DOMAIN rows /\ \A m \in DOMAIN rows :
        \/ rows'[m] = rows[m] /\ (m # req[q].row \/ End(q))
        \/ rows'[m] = [status |-> "generating", by |-> 0] /\ m = req[q].row /\ Goto(q, "start")
  BY <1>0 DEF ResetAnswer, RowsOK, Row
<1>3. Goto(q, "start") \/ End(q)
  BY DEF ResetAnswer
<1>4. /\ req' \in [Requests -> Request]
      /\ \A p \in Requests : req'[p].step \in {"reset", "start"} => req'[p].row \in 1 .. made'
      /\ \A p \in Requests \ {q} : req'[p] = req[p]
      /\ q \notin Inserting'
  <2>1. CASE End(q)
    BY <1>0, <1>1, <2>1, EndType DEF Inserting, Idle
  <2>2. CASE Goto(q, "start")
    BY <1>0, <1>1, <2>2, GotoType DEF Inserting
  <2> QED
    BY <1>3, <2>1, <2>2
<1>5. RowsOK'
  <2>1. [status |-> "generating", by |-> 0] \in Row
    BY DEF Row, Statuses
  <2>2. \A m \in DOMAIN rows' : rows'[m] \in Row
    BY <1>0, <1>2, <2>1 DEF RowsOK
  <2>3. gone' \in BOOLEAN
    BY <1>0, <1>1, Zenon DEF RowsOK
  <2> QED
    BY <1>0, <1>1, <1>2, <2>2, <2>3 DEF RowsOK
<1>6. OthersOK'
  BY <1>0, <1>1, <1>4, FaultsType, BroadcastType DEF OthersOK
<1>7. BoundsOK'
  BY <1>0, <1>1, <1>4, Counts, AgentConstants DEF BoundsOK
<1>8. \A m \in DOMAIN rows' :
        \/ m \in DOMAIN rows /\ rows'[m] = rows[m]
        \/ \E p \in Requests : req'[p].step = "start" /\ req'[p].row = m
  <2>1. ASSUME Goto(q, "start")
        PROVE  req'[q].step = "start" /\ req'[q].row = req[q].row
    BY <1>0, <1>1, <2>1, GotoType
  <2> QED
    BY <1>2, <2>1
<1> QED
  BY <1>1, <1>2, <1>4, <1>5, <1>6, <1>7, <1>8, SameRuns

LEMMA DeleteStep == ASSUME IInv, NEW q \in Requests, DeleteThread(q) PROVE IInv'
<1> USE DEF IInv
<1>0. RowsOK /\ RunsOK /\ OthersOK /\ made \in Nat /\ Len(runs) \in Nat
  BY TypeParts DEF RowsOK, RunsOK
<1>1. /\ UNCHANGED <<made, runs, active, stopped>> /\ (Fault \/ Well) /\ End(q) /\ Silence
      /\ req[q].step = "delete"
  BY DEF DeleteThread
<1>2. \/ gone' = TRUE /\ DOMAIN rows' = {} /\ orphaned' = {}
      \/ UNCHANGED <<gone, rows, orphaned>>
  BY DEF DeleteThread
<1>3. OthersOK' /\ req'[q] = Idle /\ \A p \in Requests \ {q} : req'[p] = req[p]
  BY <1>0, <1>1, EndType, FaultsType, BroadcastType DEF OthersOK
<1>4. RowsOK'
  <2>1. gone' \in BOOLEAN /\ (gone' => DOMAIN rows' = {})
    <3>1. CASE gone' = TRUE /\ DOMAIN rows' = {}
      BY <3>1, Zenon
    <3>2. CASE UNCHANGED <<gone, rows, orphaned>>
      <4>1. gone' = gone /\ rows' = rows
        BY <3>2
      <4> QED
        BY <1>0, <4>1, Zenon DEF RowsOK
    <3> QED
      BY <1>2, <3>1, <3>2
  <2> QED
    BY <1>0, <1>1, <1>2, <2>1 DEF RowsOK
<1>5. BoundsOK'
  <2>1. q \notin Inserting' /\ q \notin Asking'
    BY <1>3 DEF Inserting, Asking, Idle
  <2> QED
    BY <1>0, <1>1, <1>3, <2>1, Counts, AgentConstants DEF BoundsOK
<1> QED
  BY <1>1, <1>2, <1>3, <1>4, <1>5, SameRuns

-----------------------------------------------------------------------------
(* A generation starts.                                                    *)

LEMMA Started ==
  ASSUME IInv, NEW q \in Requests, req[q].step = "start", MayStart, End(q), Well,
         runs' = Append(runs, [row |-> req[q].row, step |-> "turn", end |-> "generating",
                               cancelled |-> FALSE]),
         active' = Len(runs) + 1, orphaned' = orphaned \ {req[q].row},
         UNCHANGED <<gone, rows, made, viewer, stopped>>
  PROVE  IInv'
<1> USE DEF IInv
<1>0. RowsOK /\ RunsOK /\ OthersOK /\ made \in Nat /\ Len(runs) \in Nat /\ made' = made
  BY TypeParts DEF RowsOK, RunsOK
<1>1. q \in Asking /\ q \notin Inserting /\ req[q].row \in 1 .. made
  BY <1>0 DEF Asking, Inserting, OthersOK
<1>2. PICK n : n = Len(runs) + 1
  OBVIOUS
<1>3. req[q].row \in RowIds
  BY <1>0, <1>1, AgentConstants DEF RowsOK, RowIds
<1>4. PICK r \in Run : /\ r.row = req[q].row /\ r.step = "turn" /\ ~r.cancelled
                       /\ r = [row |-> req[q].row, step |-> "turn", end |-> "generating",
                               cancelled |-> FALSE]
  <2>1. [row |-> req[q].row, step |-> "turn", end |-> "generating", cancelled |-> FALSE] \in Run
    BY <1>3 DEF Run, Statuses
  <2> QED
    BY <2>1
<1>5. /\ runs' \in Seq(Run) /\ Len(runs') = n /\ DOMAIN runs' = DOMAIN runs \cup {n}
      /\ runs'[n] = r /\ \A g \in DOMAIN runs : g # n /\ runs'[g] = runs[g]
  BY <1>0, <1>2, <1>4 DEF RunsOK
<1>6. /\ req' \in [Requests -> Request]
      /\ \A p \in Requests : req'[p].step \in {"reset", "start"} => req'[p].row \in 1 .. made'
      /\ req'[q] = Idle /\ \A p \in Requests \ {q} : req'[p] = req[p]
  BY <1>0, EndType
<1>7. Len(runs) + 1 <= MaxRuns /\ BoundsOK'
  <2>1. q \notin Inserting' /\ q \notin Asking'
    BY <1>6 DEF Inserting, Asking, Idle
  <2> QED
    BY <1>0, <1>1, <1>2, <1>5, <1>6, <2>1, Counts, AgentConstants DEF BoundsOK
<1>8. TypeOK'
  <2>1. RowsOK'
    BY <1>0 DEF RowsOK
  <2>2. RunsOK'
    BY <1>0, <1>2, <1>5, <1>7 DEF RunsOK
  <2>3. OthersOK'
    BY <1>0, <1>6, FaultsType DEF OthersOK
  <2> QED
    BY <2>1, <2>2, <2>3 DEF TypeOK, RowsOK, RunsOK, OthersOK
<1>9. Live = {}
  BY <1>0 DEF OneGeneration, Live, MayStart, RunsOK
<1>10. Live' = {n}
  BY <1>4, <1>5, <1>9 DEF Live
<1>11. OneGeneration' /\ ActiveIsLast'
  BY <1>2, <1>5, <1>10 DEF OneGeneration, ActiveIsLast
<1>12. EndIsKnown'
  BY <1>0, <1>4, <1>5, <1>10 DEF EndIsKnown, RunsOK
<1>13. AtWork'
  <2>1. ASSUME NEW m \in DOMAIN rows
        PROVE  rows[m].by <= Len(runs') /\ rows[m].by \notin Live'
    <3>1. rows[m].by \in Int /\ rows[m].by <= Len(runs)
      BY <1>0 DEF AtWork, RowsOK, Row, RunIds
    <3> QED
      BY <1>0, <1>2, <1>5, <1>10, <3>1
  <2> QED
    BY <2>1 DEF AtWork, Filling
<1>14. ASSUME NEW m \in Unfinished' \ orphaned'
       PROVE  \/ \E g \in Live' : Filling(g)' /\ runs'[g].row = m
              \/ \E p \in Requests : req'[p].step = "start" /\ req'[p].row = m
  <2>1. CASE m = req[q].row
    BY <1>4, <1>5, <1>10, <2>1 DEF Filling
  <2>2. CASE m # req[q].row
    <3>1. m \in Unfinished \ orphaned
      BY <1>14, <2>2 DEF Unfinished
    <3>2. PICK p \in Requests : req[p].step = "start" /\ req[p].row = m
      BY <1>9, <3>1 DEF GeneratingIsOwned
    <3> QED
      BY <1>6, <2>2, <3>2
  <2> QED
    BY <2>1, <2>2
<1>15. GeneratingIsOwned' /\ StopIsObeyed'
  BY <1>14 DEF GeneratingIsOwned, StopIsObeyed
<1> QED
  BY <1>7, <1>8, <1>11, <1>12, <1>13, <1>15

LEMMA StartStep == ASSUME IInv, NEW q \in Requests, Start(q) PROVE IInv'
<1>1. CASE /\ Fault \/ Well
           /\ orphaned' = orphaned \cup ({req[q].row} \cap DOMAIN rows)
           /\ UNCHANGED <<runs, active>>
  <2> USE DEF IInv
  <2>0. RowsOK /\ RunsOK /\ OthersOK /\ made \in Nat /\ Len(runs) \in Nat
    BY TypeParts DEF RowsOK, RunsOK
  <2>1. /\ UNCHANGED <<gone, rows, made, viewer, runs, active, stopped>> /\ End(q)
        /\ req[q].step = "start" /\ made' = made /\ rows' = rows
    BY <1>1 DEF Start
  <2>2. OthersOK' /\ req'[q] = Idle /\ \A p \in Requests \ {q} : req'[p] = req[p]
    BY <1>1, <2>0, <2>1, EndType, FaultsType DEF OthersOK
  <2>3. RowsOK'
    BY <1>1, <2>0, <2>1 DEF RowsOK
  <2>4. BoundsOK'
    <3>1. q \notin Inserting' /\ q \notin Asking'
      BY <2>2 DEF Inserting, Asking, Idle
    <3> QED
      BY <2>0, <2>1, <2>2, <3>1, Counts, AgentConstants DEF BoundsOK
  <2>5. req[q].row \notin DOMAIN rows' \ orphaned'
    BY <1>1, <2>1
  <2> QED
    BY <1>1, <2>1, <2>2, <2>3, <2>4, <2>5, SameRuns
<1>2. CASE /\ MayStart /\ Well
           /\ runs' = Append(runs, [row |-> req[q].row, step |-> "turn", end |-> "generating",
                                    cancelled |-> FALSE])
           /\ active' = Len(runs) + 1
           /\ orphaned' = orphaned \ {req[q].row}
  BY <1>2, Started DEF Start
<1> QED
  BY <1>1, <1>2 DEF Start

-----------------------------------------------------------------------------
(* A generation is stopped.                                                *)

LEMMA CancelStep ==
  ASSUME IInv, Cancel, UNCHANGED table, OthersOK', BoundsOK',
         \A p \in Requests : req[p].step = "start" => req'[p] = req[p]
  PROVE  IInv'
<1> USE DEF IInv
<1>0. RowsOK /\ RunsOK
  BY TypeParts
<1>1. /\ UNCHANGED <<rows, orphaned>> /\ active' = active
      /\ runs' = [g \in DOMAIN runs |-> IF g = active THEN [runs[g] EXCEPT !.cancelled = TRUE]
                                        ELSE runs[g]]
      /\ stopped' = stopped \cup {g \in DOMAIN runs : g = active /\ runs[g].step \in {"turn", "tools"}}
  BY DEF Cancel, AfterStop, table
<1>2. /\ runs' \in Seq(Run) /\ Len(runs') = Len(runs) /\ DOMAIN runs' = DOMAIN runs
      /\ \A g \in DOMAIN runs :
           /\ runs'[g].row = runs[g].row /\ runs'[g].step = runs[g].step
           /\ runs'[g].end = runs[g].end
           /\ runs[g].cancelled \/ g = active => runs'[g].cancelled
  <2>1. PICK f : f = runs'
    OBVIOUS
  <2>2. \A g \in DOMAIN runs : [runs[g] EXCEPT !.cancelled = TRUE] \in Run /\ runs[g] \in Run
    <3>1. \A g \in DOMAIN runs : runs[g] \in Run
      BY <1>0, RunFields
    <3>2. \A r \in Run : [r EXCEPT !.cancelled = TRUE] \in Run
      BY DEF Run
    <3> QED
      BY <3>1, <3>2
  <2>3. f \in [DOMAIN runs -> Run]
    BY <1>1, <2>1, <2>2
  <2>4. \A g \in DOMAIN runs :
          /\ f[g].row = runs[g].row /\ f[g].step = runs[g].step
          /\ f[g].end = runs[g].end
          /\ runs[g].cancelled \/ g = active => f[g].cancelled
    BY <1>1, <2>1, <2>2 DEF Run
  <2> QED
    BY <1>0, <2>1, <2>3, <2>4, RunsUpdate
<1>3. TypeOK'
  <2>1. RowsOK'
    BY <1>0 DEF RowsOK, table
  <2>2. RunsOK'
    BY <1>0, <1>1, <1>2 DEF RunsOK
  <2> QED
    BY <2>1, <2>2 DEF TypeOK, RowsOK, RunsOK, OthersOK
<1>4. Live' = Live /\ \A g : Filling(g)' <=> Filling(g)
  BY <1>2 DEF Live, Filling
<1>5. OneGeneration' /\ ActiveIsLast'
  BY <1>1, <1>2, <1>4 DEF OneGeneration, ActiveIsLast
<1>6. EndIsKnown'
  BY <1>1, <1>2, <1>4 DEF EndIsKnown, Live
<1>7. AtWork'
  BY <1>1, <1>2, <1>4 DEF AtWork
<1>8. GeneratingIsOwned'
  BY <1>1, <1>2, <1>4 DEF GeneratingIsOwned, Unfinished, Live
<1>9. StopIsObeyed'
  BY <1>1 DEF StopIsObeyed, AtWork, Filling, Live
<1> QED
  BY <1>3, <1>5, <1>6, <1>7, <1>8, <1>9

LEMMA PostStopStep == ASSUME IInv, PostStop PROVE IInv'
<1>1. Cancel /\ Well /\ UNCHANGED <<table, req, viewer>> /\ Len(runs') = Len(runs)
  BY TypeParts DEF PostStop, Cancel, IInv, RunsOK
<1>2. OthersOK'
  BY <1>1, TypeParts, FaultsType DEF IInv, OthersOK, table
<1>3. BoundsOK'
  BY <1>1 DEF IInv, BoundsOK, Asking, Inserting, table
<1> QED
  BY <1>1, <1>2, <1>3, CancelStep

LEMMA PostDeleteStep == ASSUME IInv, NEW q \in Requests, PostDelete(q) PROVE IInv'
<1>0. RowsOK /\ RunsOK /\ OthersOK /\ made \in Nat /\ Len(runs) \in Nat
  BY TypeParts DEF RowsOK, RunsOK, IInv
<1>1. /\ Cancel /\ Well /\ UNCHANGED <<table, viewer>> /\ Len(runs') = Len(runs) /\ made' = made
      /\ req[q] = Idle /\ Goto(q, "delete")
  BY <1>0 DEF PostDelete, Cancel, RunsOK, table
<1>2. /\ req' \in [Requests -> Request]
      /\ \A p \in Requests : req'[p].step \in {"reset", "start"} => req'[p].row \in 1 .. made'
      /\ req'[q].step = "delete" /\ \A p \in Requests \ {q} : req'[p] = req[p]
  BY <1>0, <1>1, GotoType
<1>3. OthersOK'
  BY <1>0, <1>1, <1>2, FaultsType DEF OthersOK
<1>4. BoundsOK'
  <2>1. q \notin Inserting' /\ q \notin Asking'
    BY <1>2 DEF Inserting, Asking
  <2> QED
    BY <1>0, <1>1, <1>2, <2>1, Counts, AgentConstants DEF BoundsOK, IInv
<1>5. req[q].step # "start"
  BY <1>1 DEF Idle
<1> QED
  BY <1>1, <1>2, <1>3, <1>4, <1>5, CancelStep

-----------------------------------------------------------------------------
(* A generation at work.                                                   *)

\* What every step of a generation does to it.
LEMMA RunStep ==
  ASSUME RunsOK, NEW g \in DOMAIN runs, NEW r \in Run, r.row = runs[g].row,
         runs' = [runs EXCEPT ![g] = r]
  PROVE  /\ runs' \in Seq(Run) /\ Len(runs') = Len(runs) /\ DOMAIN runs' = DOMAIN runs
         /\ runs'[g] = r /\ \A h \in DOMAIN runs : h # g => runs'[h] = runs[h]
         /\ \A h \in DOMAIN runs : runs'[h].row = runs[h].row
  BY DEF RunsOK

\* A generation moves on.
LEMMA Stepped ==
  ASSUME NEW x \in Run, NEW e \in Statuses
  PROVE  \E r \in Run : /\ r = [x EXCEPT !.step = "finish", !.end = e]
                        /\ r.row = x.row /\ r.cancelled = x.cancelled
                        /\ r.step = "finish" /\ r.end = e
<1>1. [x EXCEPT !.step = "finish", !.end = e] \in Run
  BY DEF Run
<1>2. PICK r \in Run : r = [x EXCEPT !.step = "finish", !.end = e]
  BY <1>1
<1>3. r.row = x.row /\ r.cancelled = x.cancelled /\ r.step = "finish" /\ r.end = e
  BY <1>2 DEF Run
<1> QED
  BY <1>2, <1>3

LEMMA Moved ==
  ASSUME NEW x \in Run, NEW s \in {"turn", "tools", "finish", "close"}
  PROVE  \E r \in Run : /\ r = [x EXCEPT !.step = s]
                        /\ r.row = x.row /\ r.cancelled = x.cancelled /\ r.step = s
                        /\ r.end = x.end
<1>1. [x EXCEPT !.step = s] \in Run
  BY DEF Run
<1>2. PICK r \in Run : r = [x EXCEPT !.step = s]
  BY <1>1
<1>3. r.row = x.row /\ r.cancelled = x.cancelled /\ r.step = s /\ r.end = x.end
  BY <1>2 DEF Run
<1> QED
  BY <1>2, <1>3

LEMMA Write1 ==
  ASSUME RowsOK, RunsOK, NEW g \in DOMAIN runs, NEW s \in Statuses, Write(g, s)
  PROVE  /\ DOMAIN rows' = DOMAIN rows
         /\ \A m \in DOMAIN rows : rows'[m] \in Row
         /\ \A m \in DOMAIN rows : m # runs[g].row => rows'[m] = rows[m]
         /\ \A m \in DOMAIN rows : m = runs[g].row => rows'[m].status = s /\ rows'[m].by = g
<1>1. g \in RunIds
  BY AgentConstants DEF RunsOK, RunIds
<1>2. \A m \in DOMAIN rows : rows[m] \in Row
  BY DEF RowsOK
<1>3. \A x \in Row : LET y == [x EXCEPT !.status = s, !.by = g]
                     IN  y \in Row /\ y.status = s /\ y.by = g
  BY <1>1 DEF Row
<1> QED
  BY <1>2, <1>3 DEF Write

\* A step of generation g that leaves its rows alone or writes the one it fills.
LEMMA Working ==
  ASSUME IInv, NEW g \in DOMAIN runs, runs[g].step \in {"turn", "tools"},
         Well \/ Fault, NEW r \in Run, r.row = runs[g].row, r.cancelled = runs[g].cancelled,
         runs' = [runs EXCEPT ![g] = r],
         r.step \in {"turn", "tools", "finish"},
         r.step = "finish" => /\ r.end # "generating"
                              /\ r.cancelled => r.end = "interrupted",
         Write(g, "generating") \/ UNCHANGED rows,
         Broadcast \/ UNCHANGED viewer,
         UNCHANGED <<gone, made, active, req, orphaned, stopped>>
  PROVE  IInv'
<1> USE DEF IInv
<1>0. RowsOK /\ RunsOK /\ OthersOK /\ made' = made /\ gone' = gone
  BY TypeParts
<1>1. /\ runs' \in Seq(Run) /\ Len(runs') = Len(runs) /\ DOMAIN runs' = DOMAIN runs
      /\ runs'[g] = r /\ \A h \in DOMAIN runs : h # g => runs'[h] = runs[h]
      /\ \A h \in DOMAIN runs : runs'[h].row = runs[h].row
  BY <1>0, RunStep
<1>2. /\ DOMAIN rows' = DOMAIN rows
      /\ \A m \in DOMAIN rows : rows'[m] \in Row
      /\ \A m \in DOMAIN rows : m # runs[g].row => rows'[m] = rows[m]
      /\ \A m \in DOMAIN rows : m = runs[g].row =>
           rows'[m] = rows[m] \/ (rows'[m].status = "generating" /\ rows'[m].by = g)
  <2>1. CASE Write(g, "generating")
    BY <1>0, <2>1, Write1 DEF Statuses
  <2>2. CASE UNCHANGED rows
    BY <1>0, <2>2 DEF RowsOK
  <2> QED
    BY <2>1, <2>2
<1>3. TypeOK'
  <2>1. RowsOK'
    <3>1. gone' = gone /\ DOMAIN rows' = DOMAIN rows
      BY <1>0, <1>2
    <3>2. gone' \in BOOLEAN /\ (gone' => DOMAIN rows' = {})
      BY <1>0, <3>1, SameGone
    <3> QED
      BY <1>0, <1>2, <3>2 DEF RowsOK
  <2>2. RunsOK'
    BY <1>0, <1>1 DEF RunsOK
  <2>3. OthersOK'
    BY <1>0, FaultsType, BroadcastType DEF OthersOK
  <2> QED
    BY <2>1, <2>2, <2>3 DEF TypeOK, RowsOK, RunsOK, OthersOK
<1>4. BoundsOK'
  BY <1>0, <1>1 DEF BoundsOK, Asking, Inserting
<1>5. Live' = Live /\ g \in Live /\ \A h : Filling(h)' <=> Filling(h)
  BY <1>1 DEF Live, Filling
<1>6. OneGeneration' /\ ActiveIsLast'
  BY <1>1, <1>5 DEF OneGeneration, ActiveIsLast
<1>7. EndIsKnown'
  BY <1>1, <1>5 DEF EndIsKnown, Live
<1>8. g <= Len(runs) /\ Filling(g)
  BY <1>0, <1>5 DEF RunsOK, Filling
<1>9. AtWork'
  BY <1>1, <1>2, <1>5, <1>8 DEF AtWork
<1>10. ASSUME NEW m \in Unfinished' \ orphaned'
       PROVE  \/ \E h \in Live' : Filling(h)' /\ runs'[h].row = m
              \/ \E p \in Requests : req'[p].step = "start" /\ req'[p].row = m
  <2>1. CASE m = runs[g].row
    BY <1>1, <1>5, <1>8, <2>1
  <2>2. CASE m # runs[g].row
    <3>1. m \in Unfinished \ orphaned
      BY <1>2, <1>10, <2>2 DEF Unfinished
    <3> QED
      BY <1>1, <1>5, <3>1 DEF GeneratingIsOwned, Live
  <2> QED
    BY <2>1, <2>2
<1>11. GeneratingIsOwned'
  BY <1>10 DEF GeneratingIsOwned
<1>12. StopIsObeyed'
  BY <1>2 DEF StopIsObeyed
<1> QED
  BY <1>3, <1>4, <1>6, <1>7, <1>9, <1>11, <1>12

LEMMA FlushStep == ASSUME IInv, NEW g \in DOMAIN runs, Flush(g) PROVE IInv'
<1>1. RunsOK
  BY TypeParts DEF IInv
<1>2. PICK r \in Run : r = runs[g]
  BY <1>1, RunFields
<1>3. runs' = [runs EXCEPT ![g] = r]
  BY <1>1, <1>2 DEF Flush, RunsOK
<1>4. r.step = "turn"
  BY <1>2 DEF Flush
<1> QED
  BY <1>2, <1>3, <1>4, Working DEF Flush

LEMMA TurnEndStep == ASSUME IInv, NEW g \in DOMAIN runs, TurnEnd(g) PROVE IInv'
<1>1. RunsOK /\ runs[g] \in Run /\ runs[g].step = "turn"
  BY TypeParts, RunFields DEF IInv, TurnEnd
<1>2. ASSUME NEW s \in Outcomes(g),
             runs' = [runs EXCEPT ![g].step = "finish", ![g].end = s]
      PROVE  IInv'
  <2>1. s \in Statuses /\ s # "generating" /\ (runs[g].cancelled => s = "interrupted")
    BY DEF Outcomes, Statuses
  <2>2. PICK r \in Run : /\ r = [runs[g] EXCEPT !.step = "finish", !.end = s]
                         /\ r.row = runs[g].row /\ r.cancelled = runs[g].cancelled
                         /\ r.step = "finish" /\ r.end = s
    BY <1>1, <2>1, Stepped
  <2>3. runs' = [runs EXCEPT ![g] = r]
    BY <1>1, <1>2, <2>2 DEF RunsOK
  <2> QED
    BY <1>1, <2>1, <2>2, <2>3, Working DEF TurnEnd, table
<1>3. CASE Move(g, "tools")
  <2>1. PICK r \in Run : /\ r = [runs[g] EXCEPT !.step = "tools"]
                         /\ r.row = runs[g].row /\ r.cancelled = runs[g].cancelled
                         /\ r.step = "tools"
    BY <1>1, Moved
  <2>2. runs' = [runs EXCEPT ![g] = r]
    BY <1>3, <2>1 DEF Move
  <2> QED
    BY <1>1, <2>1, <2>2, Working DEF TurnEnd, table
<1> QED
  BY <1>2, <1>3 DEF TurnEnd

LEMMA CallToolsStep == ASSUME IInv, NEW g \in DOMAIN runs, CallTools(g) PROVE IInv'
<1>1. RunsOK /\ runs[g] \in Run /\ runs[g].step = "tools"
  BY TypeParts, RunFields DEF IInv, CallTools
<1>2. PICK r \in Run : /\ r = [runs[g] EXCEPT !.step = "turn"]
                       /\ r.row = runs[g].row /\ r.cancelled = runs[g].cancelled
                       /\ r.step = "turn"
  BY <1>1, Moved
<1>3. runs' = [runs EXCEPT ![g] = r]
  BY <1>2 DEF CallTools, Move
<1> QED
  BY <1>1, <1>2, <1>3, Working DEF CallTools

LEMMA FinishStep == ASSUME IInv, NEW g \in DOMAIN runs, Finish(g) PROVE IInv'
<1> USE DEF IInv
<1>0. /\ RowsOK /\ RunsOK /\ OthersOK /\ made' = made /\ gone' = gone
      /\ runs[g] \in Run /\ runs[g].step = "finish" /\ (Well \/ Fault)
      /\ UNCHANGED <<active, req, stopped>>
  BY TypeParts, RunFields DEF Finish
<1>1. PICK r \in Run : /\ r = [runs[g] EXCEPT !.step = "close"]
                       /\ r.row = runs[g].row /\ r.cancelled = runs[g].cancelled
                       /\ r.step = "close" /\ r.end = runs[g].end
  BY <1>0, Moved
<1>2. /\ runs' \in Seq(Run) /\ Len(runs') = Len(runs) /\ DOMAIN runs' = DOMAIN runs
      /\ runs'[g] = r /\ \A h \in DOMAIN runs : h # g => runs'[h] = runs[h]
      /\ \A h \in DOMAIN runs : runs'[h].row = runs[h].row
  <2>1. runs' = [runs EXCEPT ![g] = r]
    BY <1>1 DEF Finish, Move
  <2> QED
    BY <1>0, <1>1, <2>1, RunStep
<1>3. g \in Live /\ g <= Len(runs) /\ Filling(g) /\ Live' = Live
  <2>1. g \in Live /\ Filling(g)
    BY <1>0 DEF Live, Filling
  <2>2. Live' = Live
    BY <1>0, <1>1, <1>2 DEF Live
  <2>3. g <= Len(runs)
    BY <1>0 DEF RunsOK
  <2> QED
    BY <2>1, <2>2, <2>3
<1>4. \A h : Filling(h)' => Filling(h) /\ h # g
  BY <1>1, <1>2, <1>3 DEF Filling, Live
<1>5. \A h \in Live : h = g
  BY <1>3 DEF OneGeneration
<1>6. /\ runs[g].end \in Statuses \ {"generating"}
      /\ g \in stopped => runs[g].end = "interrupted"
  BY <1>0, <1>3 DEF EndIsKnown, Run
<1>7. /\ DOMAIN rows' = DOMAIN rows
      /\ \A m \in DOMAIN rows : rows'[m] \in Row
      /\ \A m \in DOMAIN rows : m # runs[g].row =>
           rows'[m] = rows[m] /\ (m \in orphaned' <=> m \in orphaned)
      /\ \A m \in DOMAIN rows : m = runs[g].row =>
           \/ rows'[m] = rows[m] /\ m \in orphaned'
           \/ rows'[m].status = runs[g].end /\ rows'[m].by = g
      /\ orphaned' \subseteq DOMAIN rows
  <2>1. CASE Write(g, runs[g].end) /\ orphaned' = orphaned \ {runs[g].row}
    <3>1. PICK s \in Statuses : s = runs[g].end
      BY <1>6
    <3> QED
      BY <1>0, <2>1, <3>1, Write1 DEF RowsOK
  <2>2. CASE UNCHANGED rows /\ orphaned' = orphaned \cup ({runs[g].row} \cap DOMAIN rows)
    BY <1>0, <2>2 DEF RowsOK
  <2> QED
    BY <2>1, <2>2 DEF Finish
<1>8. TypeOK'
  <2>1. RowsOK'
    <3>1. gone' = gone /\ DOMAIN rows' = DOMAIN rows
      BY <1>0, <1>7
    <3>2. gone' \in BOOLEAN /\ (gone' => DOMAIN rows' = {})
      BY <1>0, <3>1, SameGone
    <3> QED
      BY <1>0, <1>7, <3>2 DEF RowsOK
  <2>2. RunsOK'
    BY <1>0, <1>2 DEF RunsOK
  <2>3. OthersOK'
    BY <1>0, FaultsType, BroadcastType DEF OthersOK, Finish, LastWake
  <2> QED
    BY <2>1, <2>2, <2>3 DEF TypeOK, RowsOK, RunsOK, OthersOK
<1>9. BoundsOK'
  BY <1>0, <1>2 DEF BoundsOK, Asking, Inserting
<1>10. OneGeneration' /\ ActiveIsLast'
  BY <1>0, <1>2, <1>3 DEF OneGeneration, ActiveIsLast
<1>11. EndIsKnown'
  BY <1>0, <1>1, <1>2, <1>3, <1>6 DEF EndIsKnown, Live
<1>12. AtWork'
  <2>1. \A h : ~Filling(h)'
    BY <1>4, <1>5 DEF Filling
  <2>2. \A m \in DOMAIN rows' : rows'[m].by <= Len(runs')
    BY <1>2, <1>3, <1>7 DEF AtWork
  <2> QED
    BY <2>1, <2>2 DEF AtWork
<1>13. ASSUME NEW m \in Unfinished' \ orphaned'
       PROVE  \E p \in Requests : req'[p].step = "start" /\ req'[p].row = m
  <2>1. m # runs[g].row
    BY <1>6, <1>7, <1>13 DEF Unfinished
  <2>2. m \in Unfinished \ orphaned
    BY <1>7, <1>13, <2>1 DEF Unfinished
  <2>3. ~\E h \in Live : Filling(h) /\ runs[h].row = m
    BY <1>5, <2>1
  <2> QED
    BY <1>0, <2>2, <2>3 DEF GeneratingIsOwned
<1>14. GeneratingIsOwned'
  BY <1>13 DEF GeneratingIsOwned
<1>15. StopIsObeyed'
  BY <1>0, <1>6, <1>7 DEF StopIsObeyed
<1> QED
  BY <1>8, <1>9, <1>10, <1>11, <1>12, <1>14, <1>15

LEMMA CloseStep == ASSUME IInv, NEW g \in DOMAIN runs, Close(g) PROVE IInv'
<1> USE DEF IInv
<1>0. /\ RowsOK /\ RunsOK /\ OthersOK /\ UNCHANGED <<table, req, viewer, stopped>> /\ Well
      /\ runs[g] \in Run /\ runs[g].step = "close" /\ active' = 0
  BY TypeParts, RunFields DEF Close
<1>1. PICK r \in Run : r = Over(runs[g].row) /\ r.row = runs[g].row /\ r.step = "over"
  <2>1. Over(runs[g].row) \in Run
    BY <1>0 DEF Over, Run, Statuses
  <2> QED
    BY <2>1 DEF Over
<1>2. /\ runs' \in Seq(Run) /\ Len(runs') = Len(runs) /\ DOMAIN runs' = DOMAIN runs
      /\ runs'[g] = r /\ \A h \in DOMAIN runs : h # g => runs'[h] = runs[h]
  <2>1. runs' = [runs EXCEPT ![g] = r]
    BY <1>1 DEF Close
  <2> QED
    BY <1>0, <1>1, <2>1, RunStep
<1>3. Live' = {} /\ \A h \in Live : h = g
  <2>1. \A h \in Live : h = g
    BY <1>0 DEF OneGeneration, Live
  <2> QED
    BY <1>1, <1>2, <2>1 DEF Live
<1>4. TypeOK'
  <2>1. RowsOK'
    BY <1>0 DEF RowsOK, table
  <2>2. RunsOK'
    BY <1>0, <1>2 DEF RunsOK
  <2>3. OthersOK'
    BY <1>0, FaultsType DEF OthersOK, table
  <2> QED
    BY <2>1, <2>2, <2>3 DEF TypeOK, RowsOK, RunsOK, OthersOK
<1>5. BoundsOK'
  BY <1>0, <1>2 DEF BoundsOK, Asking, Inserting, table
<1>6. OneGeneration' /\ ActiveIsLast' /\ EndIsKnown'
  BY <1>0, <1>3 DEF OneGeneration, ActiveIsLast, EndIsKnown
<1>7. AtWork' /\ StopIsObeyed'
  BY <1>0, <1>2, <1>3 DEF AtWork, Filling, StopIsObeyed, table
<1>8. GeneratingIsOwned'
  <2>1. \A h \in Live : ~Filling(h)
    BY <1>0, <1>3 DEF Filling
  <2> QED
    BY <1>0, <2>1 DEF GeneratingIsOwned, Unfinished, table
<1> QED
  BY <1>4, <1>5, <1>6, <1>7, <1>8

LEMMA RestartStep == ASSUME IInv, Restart PROVE IInv'
<1> USE DEF IInv
<1>0. RowsOK /\ RunsOK /\ OthersOK
  BY TypeParts
<1>1. /\ UNCHANGED <<gone, made, stopped>> /\ Fault /\ active' = 0
      /\ req' = [q \in Requests |-> Idle] /\ viewer' = [v \in Viewers |-> Off]
      /\ runs' = [g \in DOMAIN runs |-> Over(runs[g].row)]
      /\ \/ rows' = Healed /\ orphaned' = {}
         \/ UNCHANGED rows /\ orphaned' = Unfinished
  BY DEF Restart
<1>2. /\ runs' \in Seq(Run) /\ Len(runs') = Len(runs) /\ DOMAIN runs' = DOMAIN runs
      /\ \A g \in DOMAIN runs : runs'[g].step = "over"
  <2>1. PICK f : f = runs'
    OBVIOUS
  <2>2. \A g \in DOMAIN runs : Over(runs[g].row) \in Run /\ Over(runs[g].row).step = "over"
    <3>1. \A g \in DOMAIN runs : runs[g] \in Run
      BY <1>0, RunFields
    <3> QED
      BY <3>1 DEF Over, Run, Statuses
  <2>3. f \in [DOMAIN runs -> Run] /\ \A g \in DOMAIN runs : f[g].step = "over"
    BY <1>1, <2>1, <2>2
  <2> QED
    BY <1>0, <2>1, <2>3, RunsUpdate
<1>3. Live' = {}
  BY <1>2 DEF Live
<1>4. /\ DOMAIN rows' = DOMAIN rows /\ orphaned' \subseteq DOMAIN rows
      /\ \A m \in DOMAIN rows :
           /\ rows'[m] \in Row /\ rows'[m].by = rows[m].by
           /\ rows'[m].status \in {rows[m].status, "interrupted"}
           /\ rows'[m].status = "generating" => m \in orphaned'
  <2>1. \A m \in DOMAIN rows : rows[m] \in Row
    BY <1>0 DEF RowsOK
  <2>2. CASE rows' = Healed /\ orphaned' = {}
    <3>1. \A x \in Row : LET y == [x EXCEPT !.status = "interrupted"]
                         IN  y \in Row /\ y.by = x.by /\ y.status = "interrupted"
      BY DEF Row, Statuses
    <3> QED
      BY <2>1, <2>2, <3>1 DEF Healed, Unfinished
  <2>3. CASE UNCHANGED rows /\ orphaned' = Unfinished
    BY <2>1, <2>3 DEF Unfinished
  <2> QED
    BY <1>1, <2>2, <2>3
<1>5. TypeOK'
  <2>1. RowsOK'
    <3>1. gone' = gone /\ DOMAIN rows' = DOMAIN rows
      BY <1>1, <1>4
    <3>2. gone' \in BOOLEAN /\ (gone' => DOMAIN rows' = {})
      BY <1>0, <3>1, SameGone
    <3> QED
      BY <1>0, <1>1, <1>4, <3>2 DEF RowsOK
  <2>2. RunsOK'
    BY <1>0, <1>1, <1>2 DEF RunsOK
  <2>3. OthersOK'
    BY <1>0, <1>1, FaultsType DEF OthersOK, Idle, Request, Off, Viewer
  <2> QED
    BY <2>1, <2>2, <2>3 DEF TypeOK, RowsOK, RunsOK, OthersOK
<1>6. BoundsOK'
  <2>1. Inserting' = {} /\ Asking' = {}
    BY <1>1 DEF Inserting, Asking, Idle
  <2>2. Cardinality(Inserting') = 0 /\ Cardinality(Asking') = 0
    BY <2>1, FS_EmptySet
  <2> QED
    BY <1>0, <1>1, <1>2, <2>2, AgentConstants DEF BoundsOK, RowsOK, RunsOK
<1>7. OneGeneration' /\ ActiveIsLast' /\ EndIsKnown'
  BY <1>1, <1>3 DEF OneGeneration, ActiveIsLast, EndIsKnown
<1>8. AtWork'
  BY <1>2, <1>3, <1>4 DEF AtWork, Filling
<1>9. GeneratingIsOwned'
  BY <1>4 DEF GeneratingIsOwned, Unfinished
<1>10. StopIsObeyed'
  BY <1>1, <1>4 DEF StopIsObeyed
<1> QED
  BY <1>5, <1>6, <1>7, <1>8, <1>9, <1>10

LEMMA NextInv == IInv /\ [Next]_vars => IInv'
<1> SUFFICES ASSUME IInv, [Next]_vars PROVE IInv'
  OBVIOUS
<1>1. ASSUME NEW q \in Requests, Serve(q) PROVE IInv'
  BY <1>1, InsertStep, AskStep, ResetStep, StartStep, DeleteStep DEF Serve
<1>2. ASSUME NEW q \in Requests, Ask(q) PROVE IInv'
  BY <1>2, AskStep, PostDeleteStep DEF Ask
<1>3. CASE PostStop
  BY <1>3, PostStopStep
<1>4. ASSUME NEW g \in DOMAIN runs,
             Flush(g) \/ TurnEnd(g) \/ CallTools(g) \/ Finish(g) \/ Close(g)
      PROVE  IInv'
  BY <1>4, FlushStep, TurnEndStep, CallToolsStep, FinishStep, CloseStep
<1>5. ASSUME NEW v \in Viewers, Connect(v) \/ Watch(v) \/ Disconnect(v) PROVE IInv'
  BY <1>5, ViewerStep DEF Watch
<1>6. CASE Restart
  BY <1>6, RestartStep
<1>7. CASE UNCHANGED vars
  <2>1. UNCHANGED <<table, runs, active, stopped, req, viewer, faults>>
    BY <1>7 DEF vars, table
  <2>2. OthersOK' /\ BoundsOK'
    BY <2>1, TypeParts DEF IInv, OthersOK, BoundsOK, Asking, Inserting, table
  <2> QED
    BY <2>1, <2>2, SameRows
<1> QED
  BY <1>1, <1>2, <1>3, <1>4, <1>5, <1>6, <1>7 DEF Next

LEMMA Invariance == Spec => []IInv
<1> QED
  BY InitInv, NextInv, PTL DEF Spec

-----------------------------------------------------------------------------

\* Every variable stays in its type: above all, no row outlives the thread, and a
\* request that is to fill a row names one that was inserted.
THEOREM Typed == Spec => []TypeOK
<1>1. IInv => TypeOK
  BY DEF IInv
<1> QED
  BY <1>1, Invariance, PTL

\* One generation at a time fills a thread, and Runner.active names it, so that
\* Stop reaches it: across requests that asked IsRunning long ago, stops, deletions
\* and restarts.
THEOREM OneAtATime == Spec => []OneGeneration
<1>1. IInv => OneGeneration
  BY DEF IInv
<1> QED
  BY <1>1, Invariance, PTL

\* A generating row has a generation that fills it or a request about to start one,
\* unless a statement or a start failed.
THEOREM NoneIsForgotten == Spec => []GeneratingIsOwned
<1>1. IInv => GeneratingIsOwned
  BY DEF IInv
<1> QED
  BY <1>1, Invariance, PTL

\* What a member stopped in time is never recorded as an answer or an error.
THEOREM StopHolds == Spec => []StopIsObeyed
<1>1. IInv => StopIsObeyed
  BY DEF IInv
<1> QED
  BY <1>1, Invariance, PTL

\* The clauses of NoLateWrite, for one row and one step.
Timely(m) ==
  \/ rows'[m].by = 0 /\ rows'[m].status = "generating"
  \/ rows'[m].by = rows[m].by /\ rows[m].status = "generating"
  \/ rows'[m].by \in LastFor(m) /\ rows'[m].by # rows[m].by

\* A generation writes only while it is the last one of all.
LEMMA WriterIsLast ==
  ASSUME IInv, NEW g \in Live PROVE g \in LastFor(runs[g].row)
<1>1. RunsOK
  BY TypeParts DEF IInv
<1>2. g \in DOMAIN runs /\ g = active /\ g = Len(runs)
  BY <1>1 DEF IInv, OneGeneration, ActiveIsLast, Live, RunsOK
<1>3. \A h \in DOMAIN runs : h <= g
  BY <1>1, <1>2 DEF RunsOK
<1> QED
  BY <1>2, <1>3 DEF LastFor

LEMMA WriteIsTimely ==
  ASSUME IInv, NEW g \in DOMAIN runs, runs[g].step # "over", runs[g].step # "close",
         NEW s \in Statuses, Write(g, s), NEW m \in DOMAIN rows, rows'[m] # rows[m]
  PROVE  Timely(m)
<1>1. RowsOK /\ RunsOK
  BY TypeParts DEF IInv
<1>2. m = runs[g].row /\ rows'[m].by = g
  BY <1>1, Write1
<1>3. g \in Live /\ Filling(g)
  BY DEF Live, Filling
<1>4. CASE rows[m].by = g
  BY <1>2, <1>3, <1>4 DEF IInv, AtWork, Timely
<1>5. CASE rows[m].by # g
  BY <1>2, <1>3, <1>5, WriterIsLast DEF Timely
<1> QED
  BY <1>4, <1>5

LEMMA StepIsTimely ==
  ASSUME IInv, [Next]_vars, NEW m \in DOMAIN rows \cap DOMAIN rows', rows'[m] # rows[m]
  PROVE  Timely(m)
<1>1. RowsOK /\ rows[m] \in Row
  BY TypeParts DEF IInv, RowsOK
<1>2. ASSUME NEW q \in Requests, Serve(q) PROVE Timely(m)
  <2>1. CASE Insert(q)
    BY <1>1, <2>1 DEF Insert, Placeholder, Timely
  <2>2. CASE PickAnswer(q) \/ Start(q)
    BY <2>2 DEF PickAnswer, Start, table
  <2>3. CASE ResetAnswer(q)
    BY <1>1, <2>3 DEF ResetAnswer, Timely, Row
  <2>4. CASE DeleteThread(q)
    BY <2>4 DEF DeleteThread
  <2> QED
    BY <1>2, <2>1, <2>2, <2>3, <2>4 DEF Serve
<1>3. ASSUME NEW q \in Requests, Ask(q) PROVE FALSE
  BY <1>3 DEF Ask, PostSend, PostRegenerate, PostDelete, table
<1>4. CASE PostStop
  BY <1>4 DEF PostStop, table
<1>5. ASSUME NEW g \in DOMAIN runs,
             Flush(g) \/ TurnEnd(g) \/ CallTools(g) \/ Finish(g) \/ Close(g)
      PROVE  Timely(m)
  <2>1. CASE Flush(g) \/ CallTools(g)
    <3>1. Write(g, "generating") /\ runs[g].step \in {"turn", "tools"}
      BY <2>1 DEF Flush, CallTools
    <3> QED
      BY <3>1, WriteIsTimely DEF Statuses
  <2>2. CASE Finish(g)
    <3>1. Write(g, runs[g].end) /\ runs[g].step = "finish"
      BY <2>2 DEF Finish
    <3>2. runs[g].end \in Statuses
      BY TypeParts, RunFields DEF IInv, Run
    <3> QED
      BY <3>1, <3>2, WriteIsTimely
  <2>3. CASE TurnEnd(g) \/ Close(g)
    BY <2>3 DEF TurnEnd, Close, table
  <2> QED
    BY <1>5, <2>1, <2>2, <2>3
<1>6. ASSUME NEW v \in Viewers, Connect(v) \/ Watch(v) \/ Disconnect(v) PROVE FALSE
  BY <1>6 DEF Connect, Watch, Morph, Wake, Disconnect, table
<1>7. CASE Restart
  BY <1>1, <1>7 DEF Restart, Healed, Unfinished, Row, Timely
<1>8. CASE UNCHANGED vars
  BY <1>8 DEF vars
<1> QED
  BY <1>2, <1>3, <1>4, <1>5, <1>6, <1>7, <1>8 DEF Next

\* The text of a row is that of the last generation started for it, which writes no
\* more once it has settled the row.
THEOREM TextIsTheLast == Spec => NoLateWrite
<1>1. IInv /\ [Next]_vars =>
        [\A m \in DOMAIN rows \cap DOMAIN rows' :
           rows'[m] # rows[m] =>
             \/ rows'[m].by = 0 /\ rows'[m].status = "generating"
             \/ rows'[m].by = rows[m].by /\ rows[m].status = "generating"
             \/ rows'[m].by \in LastFor(m) /\ rows'[m].by # rows[m].by]_vars
  BY StepIsTimely DEF Timely
<1> QED
  BY <1>1, Invariance, PTL DEF Spec, NoLateWrite
=============================================================================
