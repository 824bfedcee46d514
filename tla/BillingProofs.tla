----------------------------- MODULE BillingProofs -----------------------------
(***************************************************************************)
(* What holds of Billing for any subscriptions, goroutines and bounds.     *)
(***************************************************************************)
EXTENDS Billing, TLAPS

\* What is proved of the stored row holds of every copy a settings page has loaded.
PaidFor(r) ==
  Grants(r.status) => \E e \in Range(done) : /\ events[e].sub = r.sub
                                             /\ GivesAccess(events[e])
ShownActive(r) == Authorized(r) => r.standing = "active"

CopiesOK == \A p \in Savers : PaidFor(save[p].copy) /\ ShownActive(save[p].copy)

IInv == TypeOK /\ EventAppliedOnce /\ PaidFor(row) /\ ShownActive(row) /\ CopiesOK

\* No step takes back an event or the application of one.
Grown ==
  /\ Range(done) \subseteq Range(done')
  /\ \A e \in DOMAIN events : e \in DOMAIN events' /\ events'[e] = events[e]

-----------------------------------------------------------------------------
(* Operators.                                                              *)

\* The range of a sequence that grows by one element.
LEMMA RangeAppend ==
  ASSUME NEW S, NEW s \in Seq(S), NEW x \in S
  PROVE  Range(Append(s, x)) = Range(s) \cup {x}
<1>1. /\ DOMAIN s = 1 .. Len(s)
      /\ DOMAIN Append(s, x) = 1 .. Len(s) + 1
      /\ \A i \in 1 .. Len(s) : Append(s, x)[i] = s[i]
      /\ Append(s, x)[Len(s) + 1] = x
      /\ Len(s) \in Nat
  OBVIOUS
<1>2. ASSUME NEW y \in Range(Append(s, x)) PROVE y \in Range(s) \cup {x}
  <2>1. PICK i \in 1 .. Len(s) + 1 : y = Append(s, x)[i]
    BY <1>1, <1>2 DEF Range
  <2>2. CASE i = Len(s) + 1
    BY <2>1, <2>2, <1>1
  <2>3. CASE i # Len(s) + 1
    <3>1. i \in 1 .. Len(s)
      BY <2>3, <1>1
    <3> QED BY <3>1, <2>1, <1>1 DEF Range
  <2> QED BY <2>2, <2>3
<1>3. ASSUME NEW y \in Range(s) PROVE y \in Range(Append(s, x))
  <2>1. PICK i \in 1 .. Len(s) : y = s[i]
    BY <1>1, <1>3 DEF Range
  <2>2. i \in 1 .. Len(s) + 1
    BY <1>1
  <2> QED BY <2>1, <2>2, <1>1 DEF Range
<1>4. x \in Range(Append(s, x))
  <2>1. Len(s) + 1 \in 1 .. Len(s) + 1
    BY <1>1
  <2> QED BY <2>1, <1>1 DEF Range
<1> QED BY <1>2, <1>3, <1>4

\* What the settings pages make of a row keeps its Stripe columns, and shows the
\* community as active when it is authorised.
LEMMA OverlayKeeps ==
  ASSUME NEW r \in Row, NEW edit \in Edits, ShownActive(r)
  PROVE  /\ Overlay(edit, r) \in Row
         /\ Overlay(edit, r).sub = r.sub /\ Overlay(edit, r).status = r.status
         /\ ShownActive(Overlay(edit, r))
<1>1. CASE edit = "request"
  BY <1>1 DEF Overlay, Row, Standings, ShownActive, Authorized, Grants
<1>2. CASE edit = "cancel"
  BY <1>2 DEF Overlay, Row, Standings, ShownActive, Authorized, Grants
<1>3. CASE edit = "grant"
  BY <1>3 DEF Overlay, Row, Standings, ShownActive, Authorized, Grants
<1>4. CASE edit = "revoke"
  BY <1>4 DEF Overlay, Row, Standings, ShownActive, Authorized, Grants
<1>5. CASE edit = "form"
  BY <1>5 DEF Overlay
<1> QED BY <1>1, <1>2, <1>3, <1>4, <1>5 DEF Edits

\* Both statements of the webhook: what they make of the row.
LEMMA LinkKeeps ==
  ASSUME row \in Row, ShownActive(row), NEW s \in Subs, NEW payment \in Payments
  PROVE  LET r == Link(s, Paid(payment)) IN
         /\ r \in Row /\ ShownActive(r)
         /\ Grants(r.status) => r.sub = s /\ payment = "paid"
<1>1. Paid(payment) \in Statuses /\ (Grants(Paid(payment)) => payment = "paid")
  BY DEF Paid, Grants, Statuses
<1>2. \A st \in Statuses : LET r == Link(s, st) IN
         r \in Row /\ ShownActive(r) /\ r.sub = s /\ r.status = st
  BY DEF Link, Row, Standings, ShownActive, Authorized, Grants, Statuses
<1> QED BY <1>1, <1>2

LEMMA SetStatusKeeps ==
  ASSUME row \in Row, ShownActive(row), NEW s \in Subs, NEW status \in Statuses
  PROVE  LET r == SetStatus(s, status) IN
         /\ r \in Row /\ ShownActive(r)
         /\ r = row \/ (r.sub = s /\ r.status = status)
<1>1. CASE Current(s)
  BY <1>1 DEF SetStatus, StandingWith, Row, Standings, ShownActive, Authorized, Grants, Statuses
<1>2. CASE ~Current(s)
  BY <1>2 DEF SetStatus
<1> QED BY <1>1, <1>2

\* A row that was paid for stays so while events and applications only grow.
LEMMA PaidForStays ==
  ASSUME IInv, Grown, NEW r, PaidFor(r)
  PROVE  Grants(r.status) => \E e \in Range(done') : /\ events'[e].sub = r.sub
                                                     /\ GivesAccess(events'[e])
<1> SUFFICES ASSUME Grants(r.status)
             PROVE  \E e \in Range(done') : events'[e].sub = r.sub /\ GivesAccess(events'[e])
  OBVIOUS
<1>1. PICK e \in Range(done) : events[e].sub = r.sub /\ GivesAccess(events[e])
  BY DEF PaidFor
<1>2. e \in DOMAIN events
  BY DEF IInv, TypeOK, EventAppliedOnce
<1> QED BY <1>1, <1>2 DEF Grown

-----------------------------------------------------------------------------
(* The initial states.                                                     *)

LEMMA InitIInv == Init => IInv
<1> SUFFICES ASSUME Init PROVE IInv
  OBVIOUS
<1> USE BillingConstants
<1>1. /\ \A p \in Savers : save[p] = Idle
      /\ \A h \in Handlers : hook[h] = Free
      /\ ~Grants(Asked.status) /\ ~Authorized(Asked) /\ Asked \in Row
      /\ Linked \in Row /\ Linked.standing = "active" /\ Linked.sub = Old
  BY DEF Init, Asked, Linked, Row, Statuses, Standings, Grants, Authorized
<1>0. /\ hook \in [Handlers -> Hook] /\ \A h \in Handlers : hook[h].step = "idle"
      /\ save \in [Savers -> Save]
      /\ edits \in 0 .. MaxEdits /\ faults \in 0 .. MaxFaults
      /\ lost = {} /\ overwritten \in BOOLEAN
  <2>1. Free \in Hook /\ Free.step = "idle"
    BY DEF Hook, Free
  <2>2. Idle \in Save
    BY <1>1 DEF Save, Idle
  <2>3. hook = [h \in Handlers |-> Free] /\ save = [p \in Savers |-> Idle]
    BY DEF Init
  <2>4. edits = 0 /\ faults = 0 /\ lost = {} /\ overwritten = FALSE
    BY DEF Init
  <2>5. hook \in [Handlers -> Hook] /\ \A h \in Handlers : hook[h].step = "idle"
    BY <2>1, <2>3
  <2>6. save \in [Savers -> Save]
    BY <2>2, <2>3
  <2>7. edits \in 0 .. MaxEdits /\ faults \in 0 .. MaxFaults
    BY <2>4
  <2> QED BY <2>4, <2>5, <2>6, <2>7
<1>2. CASE row = Asked /\ stripe = [s \in Subs |-> "none"] /\ events = <<>> /\ acked = {}
           /\ claimed = {} /\ done = <<>>
  <2>1. TypeOK
    <3>1. stripe \in [Subs -> Statuses]
      BY <1>2 DEF Statuses
    <3>2. events \in Seq(Event) /\ Len(events) = 0 /\ done \in Seq(Ids)
      BY <1>2
    <3> QED BY <1>0, <1>1, <1>2, <3>1, <3>2 DEF TypeOK
  <2>2. EventAppliedOnce
    BY <1>1, <1>2 DEF EventAppliedOnce, Range, Holds, Free
  <2> QED BY <1>1, <1>2, <2>1, <2>2 DEF IInv, PaidFor, ShownActive, CopiesOK, Idle
<1>3. CASE /\ row = Linked
           /\ stripe = [s \in Subs |-> IF s = Old THEN "active" ELSE "none"]
           /\ events = <<Completed(Old, "paid")>>
           /\ acked = {1} /\ claimed = {1} /\ done = <<1>>
  <2>0. DOMAIN events = {1} /\ Len(events) = 1 /\ 1 \in Ids /\ DOMAIN done = {1} /\ done[1] = 1
        /\ events[1] = Completed(Old, "paid") /\ Completed(Old, "paid") \in Event
        /\ events[1].sub = Old /\ GivesAccess(events[1])
    BY <1>3 DEF Ids, Completed, Event, Payments, GivesAccess
  <2>1. Range(done) = {1}
    BY <2>0 DEF Range
  <2>2. TypeOK
    <3>1. events \in Seq(Event) /\ Len(events) <= MaxEvents
      BY <1>3, <2>0
    <3>2. done \in Seq(Ids)
      BY <1>3, <2>0
    <3>3. stripe \in [Subs -> Statuses]
      BY <1>3 DEF Statuses
    <3> QED BY <1>0, <1>1, <1>3, <2>0, <3>1, <3>2, <3>3 DEF TypeOK
  <2>3. EventAppliedOnce
    <3>1. ~InHand(1)
      BY <1>1 DEF InHand, Holds, Free
    <3>2. \A h \in Handlers, e \in Ids : ~Holds(h, e)
      BY <1>1 DEF Holds, Free
    <3> QED BY <1>3, <2>0, <2>1, <3>1, <3>2 DEF EventAppliedOnce
  <2>4. PaidFor(row)
    BY <1>3, <2>0, <2>1 DEF PaidFor, Linked
  <2> QED BY <1>1, <1>3, <2>2, <2>3, <2>4 DEF IInv, PaidFor, ShownActive, CopiesOK, Idle
<1> QED BY <1>2, <1>3 DEF Init

-----------------------------------------------------------------------------
(* What the steps have in common.                                          *)

\* A stored row that no statement writes keeps what is proved of it.
LEMMA RowStays ==
  ASSUME IInv, Grown, row' = row
  PROVE  PaidFor(row)' /\ ShownActive(row)'
<1>1. PaidFor(row) /\ ShownActive(row)
  BY DEF IInv
<1>2. Grants(row.status) => \E e \in Range(done') : events'[e].sub = row.sub /\ GivesAccess(events'[e])
  BY <1>1, PaidForStays
<1>3. PaidFor(row)'
  BY <1>2 DEF PaidFor, Range, Grants, GivesAccess
<1> QED BY <1>1, <1>3 DEF ShownActive, Authorized, Grants

\* So do the copies the settings pages hold.
LEMMA CopiesStay ==
  ASSUME IInv, Grown, save' = save
  PROVE  CopiesOK'
<1> SUFFICES ASSUME NEW p \in Savers
             PROVE  PaidFor(save[p].copy)' /\ ShownActive(save[p].copy)'
  BY DEF CopiesOK
<1> DEFINE r == save[p].copy
<1>1. PaidFor(r) /\ ShownActive(r)
  BY DEF IInv, CopiesOK
<1>2. Grants(r.status) => \E e \in Range(done') : events'[e].sub = r.sub /\ GivesAccess(events'[e])
  BY <1>1, PaidForStays
<1>3. PaidFor(r)'
  BY <1>2 DEF PaidFor, Range, Grants, GivesAccess
<1> QED BY <1>1, <1>3 DEF ShownActive, Authorized, Grants

\* Nobody takes an event in hand, nothing is applied, and the claims of what was
\* applied stay.
LEMMA NothingApplied ==
  ASSUME IInv, done' = done, Range(done) \subseteq claimed',
         \A k \in Handlers, e \in Ids : Holds(k, e)' => Holds(k, e)
  PROVE  EventAppliedOnce'
<1>1. EventAppliedOnce /\ claimed \subseteq Ids
  BY BillingConstants DEF IInv, TypeOK, Ids
<1>2. \A e \in Range(done) : e \in Ids
  BY <1>1 DEF EventAppliedOnce
<1>3. \A e \in Range(done) : ~InHand(e)'
  BY <1>1, <1>2 DEF EventAppliedOnce, InHand
<1>4. Range(done)' = Range(done)
  BY DEF Range
<1> QED BY <1>1, <1>3, <1>4 DEF EventAppliedOnce

\* What a goroutine has in hand is claimed, by it alone, and was not applied yet.
LEMMA HeldIsClaimed ==
  ASSUME IInv, NEW h \in Handlers, hook[h].step # "idle"
  PROVE  /\ hook[h].event \in Ids /\ hook[h].event \in DOMAIN events
         /\ hook[h].event \in claimed /\ hook[h].event \notin Range(done)
         /\ Holds(h, hook[h].event)
         /\ \A k \in Handlers : Holds(k, hook[h].event) => k = h
<1>1. hook[h].event \in claimed /\ claimed \subseteq DOMAIN events /\ DOMAIN events \subseteq Ids
  BY BillingConstants DEF IInv, TypeOK, Ids
<1>2. Holds(h, hook[h].event)
  BY DEF Holds
<1> QED BY <1>1, <1>2 DEF IInv, EventAppliedOnce, InHand

\* Handlers that let go of their event.
LEMMA HookFreed ==
  ASSUME IInv, NEW h \in Handlers, hook' = [hook EXCEPT ![h] = Free]
  PROVE  /\ hook' \in [Handlers -> Hook]
         /\ \A k \in Handlers : hook'[k] = IF k = h THEN Free ELSE hook[k]
         /\ \A k \in Handlers, e \in Ids : Holds(k, e)' => Holds(k, e) /\ k # h
<1>1. Free \in Hook /\ Free.step = "idle"
  BY DEF Hook, Free
<1>2. hook \in [Handlers -> Hook]
  BY DEF IInv, TypeOK
<1>3. \A k \in Handlers : hook'[k] = IF k = h THEN Free ELSE hook[k]
  BY <1>2
<1> QED BY <1>1, <1>2, <1>3 DEF Holds

\* An event is applied, or passed over, and answered.
LEMMA FinishKeeps ==
  ASSUME IInv, NEW h \in Handlers, hook[h].step # "idle",
         hook' = [hook EXCEPT ![h] = Free], Finish(h), UNCHANGED <<events, claimed>>
  PROVE  EventAppliedOnce' /\ done' \in Seq(Ids) /\ Grown /\ hook[h].event \in Range(done')
<1>0. PICK e \in Ids : e = hook[h].event
  BY HeldIsClaimed
<1>1. done \in Seq(Ids) /\ e \in Ids /\ e \in claimed /\ e \notin Range(done)
  BY <1>0, HeldIsClaimed DEF IInv, TypeOK
<1>2. done' = Append(done, e)
  BY <1>0 DEF Finish
<1>3. done' \in Seq(Ids) /\ Range(done') = Range(done) \cup {e}
  BY <1>1, <1>2, RangeAppend
<1>4. Grown
  BY <1>3 DEF Grown
<1>5. \A i, j \in DOMAIN done' : done'[i] = done'[j] => i = j
  <2>1. /\ DOMAIN done = 1 .. Len(done) /\ DOMAIN done' = 1 .. Len(done) + 1
        /\ done'[Len(done) + 1] = e /\ Len(done) \in Nat
        /\ \A i \in 1 .. Len(done) : done'[i] = done[i]
    BY <1>1, <1>2
  <2>2. \A i \in 1 .. Len(done) : done[i] # e
    BY <1>1, <2>1 DEF Range
  <2>3. \A i, j \in 1 .. Len(done) : done[i] = done[j] => i = j
    BY <2>1 DEF IInv, EventAppliedOnce
  <2> QED BY <2>1, <2>2, <2>3
<1>6. \A x \in Range(done') : x \in claimed' /\ ~InHand(x)'
  <2>1. \A x \in Range(done) : x \in Ids /\ x \in claimed /\ ~InHand(x)
    BY BillingConstants DEF IInv, TypeOK, EventAppliedOnce, Ids
  <2>2. \A k \in Handlers : ~Holds(k, e)'
    BY <1>0, HeldIsClaimed, HookFreed
  <2>3. \A x \in Range(done) : ~InHand(x)'
    BY <2>1, HookFreed DEF InHand
  <2> QED BY <1>1, <1>3, <2>1, <2>2, <2>3 DEF InHand
<1>7. \A k, l \in Handlers, x \in Ids : Holds(k, x)' /\ Holds(l, x)' => k = l
  BY HookFreed DEF IInv, EventAppliedOnce
<1>8. Range(done)' = Range(done')
  BY DEF Range
<1> QED BY <1>0, <1>1, <1>3, <1>4, <1>5, <1>6, <1>7, <1>8 DEF EventAppliedOnce

-----------------------------------------------------------------------------
(* The steps.                                                              *)

\* What Stripe emits is new.
LEMMA StripeKeeps ==
  ASSUME IInv, NEW s \in Subs, NEW status \in Statuses,
         Change(s, status) \/ \E payment \in Payments : Checkout(s, status, payment)
  PROVE  IInv'
<1>1. UNCHANGED <<acked, row, claimed, hook, save, edits, done, lost, overwritten, faults>>
  BY DEF Checkout, Change, Well, handled
<1>2. /\ stripe' \in [Subs -> Statuses]
      /\ events' \in Seq(Event) /\ Len(events') <= MaxEvents
      /\ Len(events') >= Len(events)
      /\ \A e \in 1 .. Len(events) : events'[e] = events[e]
  <2>1. /\ events \in Seq(Event) /\ stripe \in [Subs -> Statuses] /\ MaxEvents \in Nat
        /\ Len(events) \in Nat
    BY BillingConstants DEF IInv, TypeOK
  <2>2. ASSUME NEW payment \in Payments, Checkout(s, status, payment)
        PROVE  /\ stripe' \in [Subs -> Statuses]
               /\ events' \in Seq(Event) /\ Len(events') <= MaxEvents
               /\ Len(events') >= Len(events)
               /\ \A e \in 1 .. Len(events) : events'[e] = events[e]
    <3>1. PICK a \in Event, b \in Event : events' = events \o <<a, b>>
      <4>1. Lifecycle(s, status) \in Event /\ Completed(s, payment) \in Event
        BY DEF Lifecycle, Completed, Event
      <4> QED BY <4>1, <2>2 DEF Checkout
    <3>2. Len(events) + 2 <= MaxEvents /\ stripe' = [stripe EXCEPT ![s] = status]
      BY <2>2 DEF Checkout
    <3>3. <<a, b>> \in Seq(Event) /\ Len(<<a, b>>) = 2
      OBVIOUS
    <3> QED BY <2>1, <3>1, <3>2, <3>3
  <2>3. CASE Change(s, status)
    <3>1. PICK a \in Event : events' = Append(events, a)
      BY <2>3 DEF Change, Lifecycle, Event
    <3>2. Len(events) < MaxEvents /\ stripe' = [stripe EXCEPT ![s] = status]
      BY <2>3 DEF Change
    <3> QED BY <2>1, <3>1, <3>2
  <2> QED BY <2>2, <2>3
<1>3. /\ DOMAIN events \subseteq DOMAIN events'
      /\ \A e \in DOMAIN events : events'[e] = events[e]
  <2>1. events \in Seq(Event)
    BY DEF IInv, TypeOK
  <2>2. /\ DOMAIN events = 1 .. Len(events) /\ DOMAIN events' = 1 .. Len(events')
        /\ Len(events) \in Nat /\ Len(events') \in Nat
    BY <1>2, <2>1
  <2> QED BY <1>2, <2>2
<1>4. Grown
  BY <1>1, <1>3 DEF Grown
<1>5. TypeOK'
  BY <1>1, <1>2, <1>3 DEF IInv, TypeOK
<1>6. EventAppliedOnce'
  BY <1>1, NothingApplied DEF IInv, EventAppliedOnce, Holds
<1> QED BY <1>1, <1>4, <1>5, <1>6, RowStays, CopiesStay DEF IInv

\* A claim is taken only of an event that nobody has.
LEMMA DeliverKeeps ==
  ASSUME IInv, NEW h \in Handlers, NEW e \in Ids, Deliver(h, e)
  PROVE  IInv'
<1>1. /\ UNCHANGED <<stripe, events, save, edits, row, done, lost, overwritten>>
      /\ hook[h] = Free /\ e \in DOMAIN events
  BY DEF Deliver, mirror, handled
<1>2. Grown
  BY <1>1 DEF Grown
<1>3. faults' \in 0 .. MaxFaults
  BY BillingConstants DEF Deliver, Well, Fault, IInv, TypeOK
<1>4. CASE e \notin claimed /\ claimed' = claimed \cup {e} /\ UNCHANGED acked
           /\ \E step \in {"lookup", "apply"} :
                hook' = [hook EXCEPT ![h] = [step |-> step, event |-> e]]
  <2>1. PICK step \in {"lookup", "apply"} :
          hook' = [hook EXCEPT ![h] = [step |-> step, event |-> e]]
    BY <1>4
  <2>2. [step |-> step, event |-> e] \in Hook
    BY DEF Hook
  <2>3. /\ hook' \in [Handlers -> Hook]
        /\ \A k \in Handlers : hook'[k] = IF k = h THEN [step |-> step, event |-> e] ELSE hook[k]
    BY <2>1, <2>2 DEF IInv, TypeOK
  <2>4. \A k \in Handlers : hook'[k].step # "idle" => hook'[k].event \in claimed'
    BY <1>4, <2>3 DEF IInv, TypeOK
  <2>5. TypeOK'
    BY <1>1, <1>3, <1>4, <2>3, <2>4 DEF IInv, TypeOK
  <2>6. \A k \in Handlers : ~Holds(k, e)
    BY <1>4 DEF Holds, IInv, TypeOK
  <2>7. e \notin Range(done) /\ \A x \in Range(done) : x \in claimed /\ ~InHand(x)
    BY <1>4 DEF IInv, EventAppliedOnce
  <2>8. \A k \in Handlers, x \in Ids : Holds(k, x)' <=> \/ k # h /\ Holds(k, x)
                                                        \/ k = h /\ x = e
    BY <2>3, <1>1 DEF Holds, Free
  <2>9. \A x \in Range(done) : x \in Ids /\ x # e
    BY <2>7, BillingConstants DEF IInv, TypeOK, Ids
  <2>10. Range(done)' = Range(done)
    BY <1>1 DEF Range
  <2>11. \A x \in Range(done) : x \in claimed' /\ ~InHand(x)'
    BY <1>4, <2>7, <2>8, <2>9 DEF InHand
  <2>12. \A k, l \in Handlers, x \in Ids : Holds(k, x)' /\ Holds(l, x)' => k = l
    BY <2>6, <2>8 DEF IInv, EventAppliedOnce
  <2>13. EventAppliedOnce'
    BY <1>1, <2>10, <2>11, <2>12 DEF IInv, EventAppliedOnce
  <2> QED BY <1>1, <1>2, <2>5, <2>13, RowStays, CopiesStay DEF IInv
<1>5. CASE UNCHANGED <<claimed, hook>> /\ acked' \subseteq acked \cup {e}
  <2>1. TypeOK'
    BY <1>1, <1>3, <1>5 DEF IInv, TypeOK
  <2>2. EventAppliedOnce'
    BY <1>1, <1>5, NothingApplied DEF IInv, EventAppliedOnce, Holds
  <2> QED BY <1>1, <1>2, <2>1, <2>2, RowStays, CopiesStay DEF IInv
<1> QED BY <1>4, <1>5 DEF Deliver, Fresh

\* A goroutine that goes on with its event.
LEMMA GotoKeeps ==
  ASSUME IInv, NEW h \in Handlers, hook[h].step # "idle", NEW s \in {"apply", "release"}, Goto(h, s),
         UNCHANGED <<events, claimed, done>>
  PROVE  /\ EventAppliedOnce' /\ Grown
         /\ hook' \in [Handlers -> Hook]
         /\ \A k \in Handlers : hook'[k].step # "idle" => hook'[k].event \in claimed'
<1>1. hook \in [Handlers -> Hook] /\ hook[h] \in Hook
  BY DEF IInv, TypeOK
<1>2. [hook[h] EXCEPT !.step = s] \in Hook /\ [hook[h] EXCEPT !.step = s].event = hook[h].event
      /\ [hook[h] EXCEPT !.step = s].step = s
  BY <1>1 DEF Hook
<1>3. /\ hook' \in [Handlers -> Hook]
      /\ \A k \in Handlers : hook'[k] = IF k = h THEN [hook[h] EXCEPT !.step = s] ELSE hook[k]
  BY <1>1, <1>2 DEF Goto
<1>4. \A k \in Handlers, x \in Ids : Holds(k, x)' => Holds(k, x)
  BY <1>2, <1>3 DEF Holds
<1>5. EventAppliedOnce'
  BY <1>4, NothingApplied DEF IInv, EventAppliedOnce
<1>6. \A k \in Handlers : hook'[k].step # "idle" => hook'[k].event \in claimed'
  BY <1>2, <1>3 DEF IInv, TypeOK
<1> QED BY <1>3, <1>5, <1>6 DEF Grown

\* A goroutine that is done with its request, without having applied anything.
LEMMA LetGo ==
  ASSUME IInv, NEW h \in Handlers, hook[h].step # "idle",
         hook' = [hook EXCEPT ![h] = Free], UNCHANGED <<events, done>>,
         claimed' \in {claimed, claimed \ {hook[h].event}}
  PROVE  /\ EventAppliedOnce' /\ Grown
         /\ \A k \in Handlers : hook'[k].step # "idle" => hook'[k].event \in claimed'
<1>1. Range(done) \subseteq claimed'
  BY HeldIsClaimed DEF IInv, EventAppliedOnce
<1>2. EventAppliedOnce'
  BY <1>1, HookFreed, NothingApplied
<1>3. ASSUME NEW k \in Handlers, hook'[k].step # "idle"
      PROVE  hook'[k].event \in claimed'
  <2>1. k # h /\ hook'[k] = hook[k]
    BY <1>3, HookFreed DEF Free
  <2>2. hook[k].event \in claimed
    BY <1>3, <2>1 DEF IInv, TypeOK
  <2>3. hook[k].event # hook[h].event
    BY <1>3, <2>1, HeldIsClaimed DEF Holds
  <2> QED BY <2>1, <2>2, <2>3
<1> QED BY <1>2, <1>3 DEF Grown

LEMMA LookupKeeps ==
  ASSUME IInv, NEW h \in Handlers, Lookup(h)
  PROVE  IInv'
<1>1. /\ UNCHANGED <<stripe, events, save, edits, row, claimed, overwritten>>
      /\ hook[h].step = "lookup"
  BY DEF Lookup, mirror
<1>2. faults' \in 0 .. MaxFaults
  BY BillingConstants DEF Lookup, Well, Fault, IInv, TypeOK
<1>3. hook[h].step # "idle" /\ hook[h].event \in DOMAIN events
  BY <1>1, HeldIsClaimed
<1>4. CASE Goto(h, "apply") /\ UNCHANGED <<acked, done, lost>>
  <2>1. /\ EventAppliedOnce' /\ Grown /\ hook' \in [Handlers -> Hook]
        /\ \A k \in Handlers : hook'[k].step # "idle" => hook'[k].event \in claimed'
    BY <1>1, <1>3, <1>4, GotoKeeps
  <2>2. TypeOK'
    BY <1>1, <1>2, <1>4, <2>1 DEF IInv, TypeOK
  <2> QED BY <1>1, <2>1, <2>2, RowStays, CopiesStay DEF IInv
<1>5. CASE Answer(h) /\ Finish(h)
  <2>1. EventAppliedOnce' /\ done' \in Seq(Ids) /\ Grown
    BY <1>1, <1>3, <1>5, FinishKeeps DEF Answer
  <2>2. \A k \in Handlers : hook'[k].step # "idle" => hook'[k].event \in claimed'
    BY <1>1, <1>5, HookFreed DEF Answer, Free, IInv, TypeOK
  <2>3. TypeOK'
    BY <1>1, <1>2, <1>3, <1>5, <2>1, <2>2, HookFreed DEF Answer, Finish, IInv, TypeOK
  <2> QED BY <1>1, <2>1, <2>3, RowStays, CopiesStay DEF IInv
<1>6. CASE Answer(h) /\ Lose(h)
  <2>1. EventAppliedOnce' /\ Grown
        /\ \A k \in Handlers : hook'[k].step # "idle" => hook'[k].event \in claimed'
    BY <1>1, <1>3, <1>6, LetGo DEF Answer, Lose
  <2>2. TypeOK'
    BY <1>1, <1>2, <1>3, <1>6, <2>1, HookFreed DEF Answer, Lose, IInv, TypeOK
  <2> QED BY <1>1, <2>1, <2>2, RowStays, CopiesStay DEF IInv
<1> QED BY <1>4, <1>5, <1>6 DEF Lookup, handled

\* The event that made the row grant access is among those applied.
LEMMA ApplyKeeps ==
  ASSUME IInv, NEW h \in Handlers, Apply(h)
  PROVE  IInv'
<1>1. /\ UNCHANGED <<stripe, events, save, edits, claimed>>
      /\ hook[h].step = "apply" /\ overwritten' \in BOOLEAN
  BY DEF Apply, mirror, IInv, TypeOK
<1>2. faults' \in 0 .. MaxFaults
  BY BillingConstants DEF Apply, Well, Fault, IInv, TypeOK
<1>3. hook[h].step # "idle" /\ hook[h].event \in DOMAIN events
  BY <1>1, HeldIsClaimed
<1>4. CASE /\ row' = IF events[hook[h].event].type = "checkout"
                     THEN Link(events[hook[h].event].sub, Paid(events[hook[h].event].payment))
                     ELSE SetStatus(events[hook[h].event].sub, events[hook[h].event].status)
           /\ Answer(h) /\ Finish(h)
  <2>1. EventAppliedOnce' /\ done' \in Seq(Ids) /\ Grown /\ hook[h].event \in Range(done')
    BY <1>1, <1>3, <1>4, FinishKeeps DEF Answer
  <2>2. \A k \in Handlers : hook'[k].step # "idle" => hook'[k].event \in claimed'
    BY <1>1, <1>4, HookFreed DEF Answer, Free, IInv, TypeOK
  <2>3. PICK e \in DOMAIN events : e = hook[h].event
    BY <1>3
  <2>4. /\ events[e] \in Event /\ events[e].sub \in Subs
        /\ IF events[e].type = "checkout" THEN events[e].payment \in Payments
           ELSE events[e].status \in Statuses
    <3>1. events[e] \in Event
      BY DEF IInv, TypeOK
    <3> QED BY <3>1 DEF Event
  <2>5. row \in Row /\ ShownActive(row)
    BY DEF IInv, TypeOK
  <2>6. /\ row' \in Row /\ (Authorized(row') => row'.standing = "active")
        /\ \/ row' = row
           \/ Grants(row'.status) => row'.sub = events[e].sub /\ GivesAccess(events[e])
    <3>1. CASE events[e].type = "checkout"
      <4>1. row' = Link(events[e].sub, Paid(events[e].payment))
        BY <1>4, <2>3, <3>1
      <4> QED BY <2>4, <2>5, <3>1, <4>1, LinkKeeps DEF ShownActive, GivesAccess
    <3>2. CASE events[e].type # "checkout"
      <4>1. row' = SetStatus(events[e].sub, events[e].status)
        BY <1>4, <2>3, <3>2
      <4> QED BY <2>4, <2>5, <3>2, <4>1, SetStatusKeeps DEF ShownActive, GivesAccess
    <3> QED BY <3>1, <3>2
  <2>7. PaidFor(row)'
    <3>1. CASE row' = row
      BY <2>1, <3>1, RowStays
    <3>2. CASE Grants(row'.status) => row'.sub = events[e].sub /\ GivesAccess(events[e])
      <4>1. e \in Range(done')
        BY <2>1, <2>3
      <4> QED BY <1>1, <3>2, <4>1 DEF PaidFor, Range, Grants, GivesAccess
    <3> QED BY <2>6, <3>1, <3>2
  <2>8. ShownActive(row)'
    BY <2>6 DEF ShownActive, Authorized, Grants
  <2>9. TypeOK'
    BY <1>1, <1>2, <1>3, <1>4, <2>1, <2>2, <2>6, HookFreed DEF Answer, Finish, IInv, TypeOK
  <2> QED BY <1>1, <2>1, <2>7, <2>8, <2>9, CopiesStay DEF IInv
<1>5. CASE Goto(h, "release") /\ UNCHANGED <<acked, row, done, lost>>
  <2>1. /\ EventAppliedOnce' /\ Grown /\ hook' \in [Handlers -> Hook]
        /\ \A k \in Handlers : hook'[k].step # "idle" => hook'[k].event \in claimed'
    BY <1>1, <1>3, <1>5, GotoKeeps
  <2>2. TypeOK'
    BY <1>1, <1>2, <1>5, <2>1 DEF IInv, TypeOK
  <2> QED BY <1>1, <1>5, <2>1, <2>2, RowStays, CopiesStay DEF IInv
<1>6. CASE Refuse(h) /\ Lose(h) /\ UNCHANGED row
  <2>1. EventAppliedOnce' /\ Grown
        /\ \A k \in Handlers : hook'[k].step # "idle" => hook'[k].event \in claimed'
    BY <1>1, <1>3, <1>6, LetGo DEF Refuse, Lose
  <2>2. TypeOK'
    BY <1>1, <1>2, <1>3, <1>6, <2>1, HookFreed DEF Refuse, Lose, IInv, TypeOK
  <2> QED BY <1>1, <1>6, <2>1, <2>2, RowStays, CopiesStay DEF IInv
<1> QED BY <1>4, <1>5, <1>6 DEF Apply, handled

LEMMA ReleaseKeeps ==
  ASSUME IInv, NEW h \in Handlers, Release(h)
  PROVE  IInv'
<1>1. /\ UNCHANGED <<stripe, events, acked, save, edits, row, done, overwritten>>
      /\ hook[h].step = "release" /\ hook' = [hook EXCEPT ![h] = Free]
      /\ claimed' \in {claimed, claimed \ {hook[h].event}}
      /\ lost' \in {lost, lost \cup {hook[h].event}}
  BY DEF Release, Refuse, Unmark, Lose, mirror, handled
<1>2. faults' \in 0 .. MaxFaults
  BY BillingConstants DEF Release, Well, Fault, IInv, TypeOK
<1>3. hook[h].step # "idle" /\ hook[h].event \in DOMAIN events
  BY <1>1, HeldIsClaimed
<1>4. EventAppliedOnce' /\ Grown
      /\ \A k \in Handlers : hook'[k].step # "idle" => hook'[k].event \in claimed'
  BY <1>1, <1>3, LetGo
<1>5. hook' \in [Handlers -> Hook]
  BY <1>1, HookFreed
<1>6. claimed' \subseteq DOMAIN events' /\ lost' \subseteq DOMAIN events'
  BY <1>1, <1>3 DEF IInv, TypeOK
<1>7. TypeOK'
  BY <1>1, <1>2, <1>4, <1>5, <1>6 DEF IInv, TypeOK
<1> QED BY <1>1, <1>4, <1>7, RowStays, CopiesStay DEF IInv

\* A settings page holds what the row was, or what it was made of.
LEMMA SettingsKeeps ==
  ASSUME IInv, NEW p \in Savers, Settings(p)
  PROVE  IInv'
<1>1. /\ UNCHANGED <<stripe, events, acked, row, claimed, hook, done, lost, overwritten, faults>>
      /\ edits < MaxEdits /\ edits' = edits + 1
      /\ save' = [save EXCEPT ![p] = [busy |-> TRUE, copy |-> row]]
  BY DEF Settings, Well, handled
<1>2. Grown
  BY <1>1 DEF Grown
<1>3. PaidFor(row)' /\ ShownActive(row)'
  BY <1>1, <1>2, RowStays
<1>4. [busy |-> TRUE, copy |-> row] \in Save
  BY DEF Save, IInv, TypeOK
<1>5. /\ save' \in [Savers -> Save]
      /\ \A q \in Savers : save'[q] = IF q = p THEN [busy |-> TRUE, copy |-> row] ELSE save[q]
  BY <1>1, <1>4 DEF IInv, TypeOK
<1>6. TypeOK'
  BY <1>1, <1>5, BillingConstants DEF IInv, TypeOK
<1>7. EventAppliedOnce'
  BY <1>1, NothingApplied DEF IInv, EventAppliedOnce, Holds
<1>8. Range(done') = Range(done) /\ events' = events
  BY <1>1
<1>9. \A q \in Savers : /\ PaidFor(save'[q].copy) /\ ShownActive(save'[q].copy)
  BY <1>5 DEF IInv, CopiesOK
<1>10. CopiesOK'
  BY <1>8, <1>9 DEF CopiesOK, PaidFor, ShownActive, Range, Authorized, Grants
<1> QED BY <1>3, <1>6, <1>7, <1>10 DEF IInv

LEMMA SaveSettingsKeeps ==
  ASSUME IInv, NEW p \in Savers, NEW edit \in Edits, SaveSettings(p, edit)
  PROVE  IInv'
<1>1. /\ UNCHANGED <<stripe, events, acked, claimed, hook, edits, done, lost>>
      /\ save' = [save EXCEPT ![p] = Idle]
      /\ row' \in {row, Overlay(edit, save[p].copy)}
  BY DEF SaveSettings, handled
<1>2. faults' \in 0 .. MaxFaults
  BY BillingConstants DEF SaveSettings, Well, Fault, IInv, TypeOK
<1>3. overwritten' \in BOOLEAN
  BY DEF SaveSettings, IInv, TypeOK
<1>4. /\ save[p].copy \in Row
      /\ PaidFor(save[p].copy) /\ ShownActive(save[p].copy)
  BY DEF IInv, TypeOK, Save, CopiesOK
<1>5. row' \in Row /\ PaidFor(row') /\ ShownActive(row')
  <2>1. CASE row' = row
    BY <2>1 DEF IInv, TypeOK
  <2>2. CASE row' = Overlay(edit, save[p].copy)
    <3>1. /\ row' \in Row /\ ShownActive(row')
          /\ row'.sub = save[p].copy.sub /\ row'.status = save[p].copy.status
      BY <1>4, <2>2, OverlayKeeps
    <3> QED BY <1>4, <3>1 DEF PaidFor
  <2> QED BY <1>1, <2>1, <2>2
<1>6. Asked \in Row /\ PaidFor(Asked) /\ ShownActive(Asked) /\ Idle \in Save /\ Idle.copy = Asked
  BY DEF Asked, Row, Statuses, Standings, PaidFor, ShownActive, Authorized, Grants, Idle, Save
<1>7. /\ save' \in [Savers -> Save]
      /\ \A q \in Savers : save'[q] = IF q = p THEN Idle ELSE save[q]
  BY <1>1, <1>6 DEF IInv, TypeOK
<1>8. TypeOK'
  BY <1>1, <1>2, <1>3, <1>5, <1>7 DEF IInv, TypeOK
<1>9. EventAppliedOnce'
  BY <1>1, NothingApplied DEF IInv, EventAppliedOnce, Holds
<1>10. \A q \in Savers : PaidFor(save'[q].copy) /\ ShownActive(save'[q].copy)
  BY <1>6, <1>7 DEF IInv, CopiesOK
<1>11. CopiesOK' /\ PaidFor(row)' /\ ShownActive(row)'
  BY <1>1, <1>5, <1>10 DEF CopiesOK, PaidFor, ShownActive, Range, Authorized, Grants
<1> QED BY <1>8, <1>9, <1>11 DEF IInv

LEMMA CrashKeeps == ASSUME IInv, Crash PROVE IInv'
<1>1. /\ UNCHANGED <<stripe, events, acked, row, claimed, edits, done, overwritten>>
      /\ hook' = [h \in Handlers |-> Free] /\ save' = [p \in Savers |-> Idle]
      /\ lost' \subseteq DOMAIN events
  BY DEF Crash, IInv, TypeOK
<1>2. faults' \in 0 .. MaxFaults
  BY BillingConstants DEF Crash, Fault, IInv, TypeOK
<1>3. /\ Free \in Hook /\ Free.step = "idle" /\ Idle \in Save /\ Idle.copy = Asked
      /\ PaidFor(Asked)' /\ ShownActive(Asked)'
  BY DEF Asked, Row, Statuses, Standings, PaidFor, ShownActive, Authorized, Grants, Idle, Save, Free, Hook
<1>4. Grown
  BY <1>1 DEF Grown
<1>5. /\ hook' \in [Handlers -> Hook] /\ save' \in [Savers -> Save]
      /\ \A h \in Handlers : hook'[h].step = "idle"
  BY <1>1, <1>3
<1>6. TypeOK'
  BY <1>1, <1>2, <1>5 DEF IInv, TypeOK
<1>7. EventAppliedOnce'
  BY <1>1, <1>5, NothingApplied DEF IInv, EventAppliedOnce, Holds
<1>8. \A p \in Savers : save'[p].copy = Asked
  BY <1>1, <1>3
<1>9. CopiesOK'
  BY <1>3, <1>8 DEF CopiesOK, PaidFor, ShownActive, Asked
<1> QED BY <1>1, <1>4, <1>6, <1>7, <1>9, RowStays DEF IInv

LEMMA StutterKeeps == ASSUME IInv, UNCHANGED vars PROVE IInv'
<1>1. UNCHANGED <<stripe, events, acked, row, claimed, hook, save, edits, faults, done, lost, overwritten>>
  BY DEF vars, handled
<1>2. Grown
  BY <1>1 DEF Grown
<1>3. TypeOK'
  BY <1>1 DEF IInv, TypeOK
<1>4. EventAppliedOnce'
  BY <1>1, NothingApplied DEF IInv, EventAppliedOnce, Holds
<1> QED BY <1>1, <1>2, <1>3, <1>4, RowStays, CopiesStay DEF IInv

LEMMA NextIInv == IInv /\ [Next]_vars => IInv'
<1> SUFFICES ASSUME IInv, [Next]_vars PROVE IInv'
  OBVIOUS
<1>1. CASE \E s \in Subs, status \in Statuses :
             Change(s, status) \/ \E payment \in Payments : Checkout(s, status, payment)
  BY <1>1, StripeKeeps
<1>2. CASE \E h \in Handlers : Serve(h) \/ \E e \in Ids : Deliver(h, e)
  BY <1>2, DeliverKeeps, LookupKeeps, ApplyKeeps, ReleaseKeeps DEF Serve
<1>3. CASE \E p \in Savers : Settings(p) \/ \E edit \in Edits : SaveSettings(p, edit)
  BY <1>3, SaveSettingsKeeps, SettingsKeeps
<1>4. CASE Crash
  BY <1>4, CrashKeeps
<1>5. CASE UNCHANGED vars
  BY <1>5, StutterKeeps
<1> QED BY <1>1, <1>2, <1>3, <1>4, <1>5 DEF Next

-----------------------------------------------------------------------------
(* Theorems.                                                               *)

LEMMA Invariant == Spec => []IInv
<1> QED BY InitIInv, NextIInv, PTL DEF Spec

\* Every state is well-typed, and what a goroutine has in hand is claimed.
THEOREM TypeCorrect == Spec => []TypeOK
<1>1. IInv => TypeOK
  BY DEF IInv
<1> QED BY <1>1, Invariant, PTL

\* For any number of deliveries and goroutines, crashes and failed releases of the
\* claim: an event is in one hand, and applied once.
THEOREM AppliedOnce == Spec => []EventAppliedOnce
<1>1. IInv => EventAppliedOnce
  BY DEF IInv
<1> QED BY <1>1, Invariant, PTL

\* For any subscriptions, events in any order and settings pages in between: access
\* granted by a subscription was paid for by that one.
THEOREM AccessIsPaid == Spec => []AccessWasPaid
<1>1. IInv => AccessWasPaid
  BY DEF IInv, PaidFor, AccessWasPaid
<1> QED BY <1>1, Invariant, PTL

\* For the same: a community with access is shown as active.
THEOREM AuthorizedShown == Spec => []AuthorizedIsActive
<1>1. IInv => AuthorizedIsActive
  BY DEF IInv, ShownActive, AuthorizedIsActive
<1> QED BY <1>1, Invariant, PTL

-----------------------------------------------------------------------------
(* The last element of a set in a sequence.                                *)

\* Only the elements the sequence has matter.
LEMMA LastInSame ==
  ASSUME NEW d, NEW e, NEW E, NEW F, LastIn(d, e, E),
         \A i \in DOMAIN d : d[i] \in E <=> d[i] \in F
  PROVE  LastIn(d, e, F)
BY DEF LastIn

\* An element that is appended is the last one of its sets.
LEMMA LastAppended ==
  ASSUME NEW S, NEW d \in Seq(S), NEW e \in S, NEW E, e \in E
  PROVE  /\ LastIn(Append(d, e), e, E)
         /\ \A c : LastIn(Append(d, e), c, E) => c = e
<1>1. /\ DOMAIN d = 1 .. Len(d) /\ DOMAIN Append(d, e) = 1 .. Len(d) + 1 /\ Len(d) \in Nat
      /\ Append(d, e)[Len(d) + 1] = e
  OBVIOUS
<1> QED BY <1>1 DEF LastIn

\* It changes nothing for the others.
LEMMA LastKept ==
  ASSUME NEW S, NEW d \in Seq(S), NEW e \in S, NEW E, e \notin E
  PROVE  \A c : LastIn(Append(d, e), c, E) <=> LastIn(d, c, E)
<1>1. /\ DOMAIN d = 1 .. Len(d) /\ DOMAIN Append(d, e) = 1 .. Len(d) + 1 /\ Len(d) \in Nat
      /\ Append(d, e)[Len(d) + 1] = e
      /\ \A i \in 1 .. Len(d) : Append(d, e)[i] = d[i]
  OBVIOUS
<1>2. ASSUME NEW c, LastIn(Append(d, e), c, E) PROVE LastIn(d, c, E)
  <2>1. PICK i \in 1 .. Len(d) + 1 :
          /\ c \in E /\ Append(d, e)[i] = c
          /\ \A j \in 1 .. Len(d) + 1 : Append(d, e)[j] \in E => j <= i
    BY <1>1, <1>2 DEF LastIn
  <2>2. i \in 1 .. Len(d)
    BY <1>1, <2>1
  <2>3. d[i] = c /\ \A j \in 1 .. Len(d) : d[j] \in E => j <= i
    BY <1>1, <2>1, <2>2
  <2> QED BY <1>1, <2>1, <2>2, <2>3 DEF LastIn
<1>3. ASSUME NEW c, LastIn(d, c, E) PROVE LastIn(Append(d, e), c, E)
  <2>1. PICK i \in 1 .. Len(d) : /\ c \in E /\ d[i] = c
                                 /\ \A j \in 1 .. Len(d) : d[j] \in E => j <= i
    BY <1>1, <1>3 DEF LastIn
  <2>2. i \in 1 .. Len(d) + 1 /\ Append(d, e)[i] = c
    BY <1>1, <2>1
  <2>3. ASSUME NEW j \in 1 .. Len(d) + 1, Append(d, e)[j] \in E PROVE j <= i
    BY <1>1, <2>1, <2>3
  <2> QED BY <1>1, <2>1, <2>2, <2>3 DEF LastIn
<1> QED BY <1>2, <1>3

LEMMA LastIsOne ==
  ASSUME NEW S, NEW d \in Seq(S), NEW c, NEW e, NEW E, LastIn(d, c, E), LastIn(d, e, E)
  PROVE  c = e
<1>1. PICK i \in 1 .. Len(d) : c = d[i] /\ \A j \in 1 .. Len(d) : d[j] \in E => j <= i
  BY DEF LastIn
<1>2. PICK k \in 1 .. Len(d) : e = d[k] /\ \A j \in 1 .. Len(d) : d[j] \in E => j <= k
  BY DEF LastIn
<1>3. i <= k /\ k <= i
  BY <1>1, <1>2 DEF LastIn
<1> QED BY <1>1, <1>2, <1>3

-----------------------------------------------------------------------------
(* The row is the last report.                                             *)

\* What Stripe says of a subscription is what its last lifecycle event says.
Updates(s) == {e \in EventsOf(s) : events[e].type = "lifecycle"}
Latest(e, E) == e \in E /\ \A d \in E : d <= e
StripeIsLatest ==
  \A s \in Subs : \A e \in Updates(s) : Latest(e, Updates(s)) => events[e].status = stripe[s]

Linkings == Checkouts \cap Range(done)

\* The old subscription has events only when it was linked from the start.
OldLinked == stripe[Old] # "none" \/ EventsOf(Old) # {} => Linkings # {}

\* Only events without a community are looked up.
LookupOK ==
  \A h \in Handlers : hook[h].step = "lookup" =>
    /\ events[hook[h].event].type = "lifecycle"
    /\ events[hook[h].event].sub = Old

OfLastCheckout == \A c \in Checkouts : LastIn(done, c, Checkouts) => row.sub = events[c].sub
SaysAs(l) ==
  /\ l \in EventsOf(row.sub) /\ LastIn(done, l, EventsOf(row.sub))
  /\ Grants(row.status) = GivesAccess(events[l])

\* RowIsLastReport, with what keeps it: before the first event the row is of no
\* subscription, and once linked it is of the customer of its subscription.
Followed ==
  ~overwritten =>
    \/ done = <<>> /\ row.sub = None
    \/ /\ done # <<>> /\ OfLastCheckout /\ \E l \in Ids : SaysAs(l)
       /\ Linkings # {} => row.cust = row.sub

FollowInv == StripeIsLatest /\ OldLinked /\ LookupOK /\ Followed

\* The Stripe columns stay.
SameColumns == row'.sub = row.sub /\ row'.cust = row.cust /\ row'.status = row.status

\* Handled events are events.
LEMMA DoneIsEmitted ==
  ASSUME IInv
  PROVE  /\ Range(done) \subseteq DOMAIN events /\ DOMAIN events = 1 .. Len(events)
         /\ DOMAIN events \subseteq Ids /\ done \in Seq(Ids) /\ Len(events) \in Nat
         /\ \A e \in DOMAIN events : events[e] \in Event /\ events[e].sub \in Subs
         /\ \A i \in DOMAIN done : done[i] \in DOMAIN events
<1>1. /\ events \in Seq(Event) /\ done \in Seq(Ids) /\ claimed \subseteq DOMAIN events
      /\ Range(done) \subseteq claimed /\ Len(events) <= MaxEvents /\ MaxEvents \in Nat
  BY BillingConstants DEF IInv, TypeOK, EventAppliedOnce
<1>2. \A e \in DOMAIN events : events[e] \in Event
  BY <1>1
<1>3. \A v \in Event : v.sub \in Subs
  BY DEF Event
<1>4. \A i \in DOMAIN done : done[i] \in Range(done)
  BY DEF Range
<1> QED BY <1>1, <1>2, <1>3, <1>4 DEF Ids

\* Nothing is handled, and the columns stay: so does what the row follows.
LEMMA FollowStays ==
  ASSUME IInv, Grown, done' = done, SameColumns, ~overwritten' => ~overwritten, Followed
  PROVE  Followed'
<1> SUFFICES ASSUME ~overwritten', done # <<>>
             PROVE  /\ OfLastCheckout' /\ \E l \in Ids : SaysAs(l)'
                    /\ Linkings' # {} => row'.cust = row'.sub
  BY DEF Followed, SameColumns
<1>1. /\ OfLastCheckout /\ \E l \in Ids : SaysAs(l)
      /\ Linkings # {} => row.cust = row.sub
  BY DEF Followed
<1>2. \A i \in DOMAIN done : /\ done[i] \in DOMAIN events /\ done[i] \in DOMAIN events'
                             /\ events'[done[i]] = events[done[i]]
  BY DoneIsEmitted DEF Grown
<1>3. \A i \in DOMAIN done : /\ done[i] \in Checkouts' <=> done[i] \in Checkouts
                             /\ \A s : done[i] \in EventsOf(s)' <=> done[i] \in EventsOf(s)
  BY <1>2 DEF Checkouts, EventsOf
<1>4. OfLastCheckout'
  <2> SUFFICES ASSUME NEW c, LastIn(done, c, Checkouts')
               PROVE  row'.sub = events'[c].sub
    BY DEF OfLastCheckout, LastIn
  <2>1. LastIn(done, c, Checkouts)
    BY <1>3, LastInSame
  <2>2. c \in Checkouts /\ events'[c] = events[c]
    BY <1>2, <2>1 DEF LastIn
  <2> QED BY <1>1, <2>1, <2>2 DEF OfLastCheckout, SameColumns
<1>5. PICK l \in Ids : SaysAs(l)
  BY <1>1
<1>6. SaysAs(l)'
  <2>1. l \in DOMAIN events /\ l \in DOMAIN events' /\ events'[l] = events[l]
    BY <1>2, <1>5 DEF SaysAs, LastIn
  <2>2. l \in EventsOf(row.sub)'
    BY <1>5, <2>1 DEF SaysAs, EventsOf, SameColumns
  <2>3. LastIn(done, l, EventsOf(row.sub)')
    <3>1. \A i \in DOMAIN done : done[i] \in EventsOf(row.sub) <=> done[i] \in EventsOf(row.sub)'
      BY <1>2 DEF EventsOf, SameColumns
    <3> QED BY <1>5, <3>1, LastInSame DEF SaysAs
  <2>4. Grants(row'.status) = GivesAccess(events'[l])
    BY <1>5, <2>1 DEF SaysAs, SameColumns
  <2> QED BY <2>2, <2>3, <2>4 DEF SaysAs, Grants, GivesAccess
<1>7. Linkings' = Linkings
  BY <1>3 DEF Linkings, Range
<1> QED BY <1>1, <1>4, <1>6, <1>7 DEF SameColumns

\* A checkout is handled: the row is of its subscription, and says what it says.
LEMMA CheckoutFollowed ==
  ASSUME IInv, NEW e \in Checkouts, done' = Append(done, e), events' = events,
         row'.sub = events[e].sub, row'.cust = events[e].sub,
         Grants(row'.status) = GivesAccess(events[e])
  PROVE  Followed'
<1>1. e \in Ids /\ done \in Seq(Ids) /\ e \in DOMAIN events
  BY DoneIsEmitted DEF Checkouts
<1>2. Checkouts' = Checkouts /\ \A s : EventsOf(s)' = EventsOf(s)
  BY DEF Checkouts, EventsOf
<1>3. OfLastCheckout'
  BY <1>1, <1>2, LastAppended DEF OfLastCheckout
<1>4. SaysAs(e)'
  <2>1. e \in EventsOf(events[e].sub) /\ LastIn(done', e, EventsOf(events[e].sub))
    BY <1>1, LastAppended DEF EventsOf
  <2>2. EventsOf(row.sub)' = EventsOf(events[e].sub)
    BY DEF EventsOf
  <2> QED BY <2>1, <2>2 DEF SaysAs, Grants, GivesAccess
<1>5. done' # <<>>
  BY <1>1
<1> QED BY <1>1, <1>3, <1>4, <1>5 DEF Followed

\* A lifecycle event is handled: it is written to the row of its subscription, or of
\* none, and passed over by that of another.
LEMMA LifecycleFollowed ==
  ASSUME IInv, Followed, NEW e \in DOMAIN events \ Checkouts,
         done' = Append(done, e), events' = events, overwritten' = overwritten,
         \/ /\ row.sub \in {None, events[e].sub} /\ row'.sub = events[e].sub
            /\ row'.cust = row.cust /\ Grants(row'.status) = GivesAccess(events[e])
         \/ row.sub \notin {None, events[e].sub} /\ SameColumns
         \/ row.cust # events[e].sub /\ Linkings # {} /\ SameColumns
  PROVE  Followed'
<1> SUFFICES ASSUME ~overwritten
             PROVE  /\ done' # <<>> /\ OfLastCheckout' /\ \E l \in Ids : SaysAs(l)'
                    /\ Linkings' # {} => row'.cust = row'.sub
  BY DEF Followed
<1>1. /\ e \in Ids /\ done \in Seq(Ids) /\ e \in DOMAIN events
      /\ events[e].sub \in Subs /\ events[e].sub # None
  BY DoneIsEmitted, BillingConstants
<1>2. Checkouts' = Checkouts /\ \A s : EventsOf(s)' = EventsOf(s)
  BY DEF Checkouts, EventsOf
<1>3. done' # <<>> /\ Linkings' = Linkings
  <2>1. Range(done)' = Range(done) \cup {e}
    BY <1>1, RangeAppend DEF Range
  <2> QED BY <1>1, <1>2, <2>1 DEF Linkings
<1>4. \A c : LastIn(done', c, Checkouts) <=> LastIn(done, c, Checkouts)
  BY <1>1, LastKept
<1>5. CASE done = <<>>
  <2>1. row.sub = None /\ Linkings = {}
    BY <1>5 DEF Followed, Linkings, Range
  <2>2. row'.sub = events[e].sub /\ Grants(row'.status) = GivesAccess(events[e])
    BY <2>1
  <2>3. OfLastCheckout'
    BY <1>2, <1>4, <1>5 DEF OfLastCheckout, LastIn
  <2>4. SaysAs(e)'
    <3>1. e \in EventsOf(events[e].sub) /\ LastIn(done', e, EventsOf(events[e].sub))
      BY <1>1, LastAppended DEF EventsOf
    <3>2. EventsOf(row.sub)' = EventsOf(events[e].sub)
      BY <2>2 DEF EventsOf
    <3> QED BY <2>2, <3>1, <3>2 DEF SaysAs, Grants, GivesAccess
  <2> QED BY <1>1, <1>3, <2>1, <2>3, <2>4
<1>6. CASE done # <<>>
  <2>1. /\ OfLastCheckout /\ \E l \in Ids : SaysAs(l)
        /\ Linkings # {} => row.cust = row.sub
    BY <1>6 DEF Followed
  <2>2. PICK l \in Ids : SaysAs(l)
    BY <2>1
  <2>3. l \in DOMAIN events /\ events[l].sub = row.sub /\ row.sub # None
    BY <2>2, DoneIsEmitted, BillingConstants DEF SaysAs, EventsOf
  <2>4. row'.sub = row.sub /\ row'.cust = row.cust
    BY <2>3 DEF SameColumns
  <2>5. OfLastCheckout'
    BY <1>2, <1>4, <2>1, <2>4 DEF OfLastCheckout
  <2>6. EventsOf(row.sub)' = EventsOf(row.sub)
    BY <2>4 DEF EventsOf
  <2>7. CASE row.sub = events[e].sub
    <3>1. Grants(row'.status) = GivesAccess(events[e])
      BY <2>1, <2>7
    <3>2. e \in EventsOf(row.sub) /\ LastIn(done', e, EventsOf(row.sub))
      BY <1>1, <2>7, LastAppended DEF EventsOf
    <3>3. SaysAs(e)'
      BY <2>6, <3>1, <3>2 DEF SaysAs, Grants, GivesAccess
    <3> QED BY <1>1, <1>3, <2>1, <2>4, <2>5, <3>3
  <2>8. CASE row.sub # events[e].sub
    <3>1. row'.status = row.status
      BY <2>3, <2>8 DEF SameColumns
    <3>2. e \notin EventsOf(row.sub)
      BY <2>8 DEF EventsOf
    <3>3. LastIn(done', l, EventsOf(row.sub))
      BY <1>1, <2>2, <3>2, LastKept DEF SaysAs
    <3>4. SaysAs(l)'
      BY <2>2, <2>6, <3>1, <3>3 DEF SaysAs, Grants, GivesAccess
    <3> QED BY <1>3, <2>1, <2>4, <2>5, <3>4
  <2> QED BY <2>7, <2>8
<1> QED BY <1>5, <1>6

-----------------------------------------------------------------------------
(* Step by step.                                                           *)

\* Nobody begins a lookup.
LEMMA LookupStays ==
  ASSUME IInv, Grown, LookupOK,
         \A k \in Handlers : hook'[k].step = "lookup" => hook'[k] = hook[k]
  PROVE  LookupOK'
<1> SUFFICES ASSUME NEW k \in Handlers, hook'[k].step = "lookup"
             PROVE  /\ events'[hook'[k].event].type = "lifecycle"
                    /\ events'[hook'[k].event].sub = Old
  BY DEF LookupOK
<1>1. hook'[k] = hook[k] /\ hook[k].step # "idle"
  OBVIOUS
<1>2. hook[k].event \in DOMAIN events
  BY <1>1, HeldIsClaimed
<1> QED
  BY <1>1, <1>2 DEF LookupOK, Grown

\* What Stripe emits comes after all it has emitted: the lifecycle event with its new
\* status, and after that of a new subscription the checkout.
LEMMA Emitted ==
  ASSUME IInv, NEW s \in Subs, NEW status \in Statuses,
         Change(s, status) \/ \E payment \in Payments : Checkout(s, status, payment)
  PROVE  /\ Grown /\ stripe' = [stripe EXCEPT ![s] = status]
         /\ stripe[s] = "none" => s # Old
         /\ \E n \in {1, 2} :
              /\ DOMAIN events' = 1 .. Len(events) + n
              /\ events'[Len(events) + 1] = Lifecycle(s, status)
              /\ n = 2 => /\ events'[Len(events) + 2].type = "checkout"
                          /\ events'[Len(events) + 2].sub = s
<1>1. events \in Seq(Event) /\ Len(events) \in Nat /\ DOMAIN events = 1 .. Len(events)
  BY DEF IInv, TypeOK
<1>2. ASSUME NEW payment \in Payments, Checkout(s, status, payment)
      PROVE  /\ Grown /\ stripe' = [stripe EXCEPT ![s] = status]
             /\ stripe[s] = "none" => s # Old
             /\ DOMAIN events' = 1 .. Len(events) + 2
             /\ events'[Len(events) + 1] = Lifecycle(s, status)
             /\ events'[Len(events) + 2].type = "checkout"
             /\ events'[Len(events) + 2].sub = s
  <2>1. PICK a \in Event, b \in Event : /\ events' = events \o <<a, b>>
                                        /\ a = Lifecycle(s, status) /\ b = Completed(s, payment)
    <3>1. Lifecycle(s, status) \in Event /\ Completed(s, payment) \in Event
      BY DEF Lifecycle, Completed, Event
    <3> QED BY <3>1, <1>2 DEF Checkout
  <2>2. <<a, b>> \in Seq(Event) /\ Len(<<a, b>>) = 2
    OBVIOUS
  <2>3. /\ DOMAIN events' = 1 .. Len(events) + 2
        /\ \A e \in 1 .. Len(events) : events'[e] = events[e]
        /\ events'[Len(events) + 1] = a /\ events'[Len(events) + 2] = b
    BY <1>1, <2>1, <2>2
  <2>4. /\ Grown /\ stripe' = [stripe EXCEPT ![s] = status]
        /\ stripe[s] = "none" => s # Old
    BY <1>1, <1>2, <2>3 DEF Checkout, Grown, handled
  <2>5. b.type = "checkout" /\ b.sub = s
    BY <2>1 DEF Completed
  <2> QED BY <2>1, <2>3, <2>4, <2>5
<1>3. CASE Change(s, status)
  <2>1. PICK a \in Event : events' = Append(events, a) /\ a = Lifecycle(s, status)
    <3>1. Lifecycle(s, status) \in Event
      BY DEF Lifecycle, Event
    <3> QED BY <3>1, <1>3 DEF Change
  <2>2. /\ DOMAIN events' = 1 .. Len(events) + 1
        /\ \A e \in 1 .. Len(events) : events'[e] = events[e]
        /\ events'[Len(events) + 1] = a
    BY <1>1, <2>1
  <2>3. /\ Grown /\ stripe' = [stripe EXCEPT ![s] = status]
        /\ stripe[s] = "none" => s # Old
    BY <1>1, <1>3, <2>2 DEF Change, Grown, handled
  <2> QED BY <2>1, <2>2, <2>3
<1> QED BY <1>2, <1>3

LEMMA StripeFollows ==
  ASSUME IInv, FollowInv, NEW s \in Subs, NEW status \in Statuses,
         Change(s, status) \/ \E payment \in Payments : Checkout(s, status, payment)
  PROVE  FollowInv'
<1>1. UNCHANGED <<row, hook, done, overwritten>>
  BY DEF Checkout, Change, handled
<1>2. /\ Grown /\ stripe' = [stripe EXCEPT ![s] = status] /\ stripe \in [Subs -> Statuses]
      /\ stripe[s] = "none" => s # Old
  BY Emitted DEF IInv, TypeOK
<1>3. PICK n \in {1, 2} : /\ DOMAIN events' = 1 .. Len(events) + n
                          /\ events'[Len(events) + 1] = Lifecycle(s, status)
                          /\ n = 2 => /\ events'[Len(events) + 2].type = "checkout"
                                      /\ events'[Len(events) + 2].sub = s
  BY Emitted
<1>4. /\ Len(events) \in Nat /\ DOMAIN events = 1 .. Len(events)
      /\ Range(done) \subseteq DOMAIN events
  BY DoneIsEmitted
<1>5. \A e \in DOMAIN events : e \in DOMAIN events' /\ events'[e] = events[e]
  BY <1>2 DEF Grown
<1>6. \A e \in DOMAIN events' \ DOMAIN events :
        /\ events'[e].sub = s
        /\ events'[e].type = "lifecycle" => e = Len(events) + 1 /\ events'[e].status = status
  <2>1. \A e \in DOMAIN events' \ DOMAIN events :
          e = Len(events) + 1 \/ (n = 2 /\ e = Len(events) + 2)
    BY <1>3, <1>4
  <2>2. /\ events'[Len(events) + 1].sub = s /\ events'[Len(events) + 1].status = status
    BY <1>3 DEF Lifecycle
  <2> QED BY <1>3, <2>1, <2>2
<1>7. StripeIsLatest'
  <2> SUFFICES ASSUME NEW u \in Subs, NEW e \in Updates(u)', Latest(e, Updates(u)')
               PROVE  events'[e].status = stripe'[u]
    BY DEF StripeIsLatest, Latest
  <2>0. e \in DOMAIN events' /\ events'[e].sub = u /\ events'[e].type = "lifecycle"
    BY DEF Updates, EventsOf
  <2>1. CASE u = s
    <3>1. Len(events) + 1 \in Updates(s)'
      BY <1>3, <1>4 DEF Updates, EventsOf, Lifecycle
    <3>2. e >= Len(events) + 1
      BY <2>1, <3>1 DEF Latest
    <3>3. e \notin DOMAIN events
      BY <1>4, <3>2
    <3> QED BY <1>2, <1>6, <2>0, <2>1, <3>3
  <2>2. CASE u # s
    <3>1. e \in DOMAIN events /\ events'[e] = events[e]
      BY <1>5, <1>6, <2>0, <2>2
    <3>2. e \in Updates(u) /\ Updates(u) \subseteq Updates(u)'
      BY <1>5, <2>0, <3>1 DEF Updates, EventsOf
    <3>3. events[e].status = stripe[u]
      BY <3>2 DEF FollowInv, StripeIsLatest, Latest
    <3> QED BY <1>2, <2>2, <3>1, <3>3
  <2> QED BY <2>1, <2>2
<1>8. OldLinked'
  <2>1. Linkings \subseteq Linkings'
    BY <1>1, <1>4, <1>5 DEF Linkings, Checkouts, Range
  <2>2. CASE s = Old
    BY <1>2, <2>1, <2>2 DEF FollowInv, OldLinked
  <2>3. CASE s # Old
    <3>1. stripe'[Old] = stripe[Old]
      BY <1>2, <2>3, BillingConstants
    <3>2. EventsOf(Old)' \subseteq EventsOf(Old)
      BY <1>5, <1>6, <2>3 DEF EventsOf
    <3> QED BY <2>1, <3>1, <3>2 DEF FollowInv, OldLinked
  <2> QED BY <2>2, <2>3
<1>9. LookupOK'
  BY <1>1, <1>2, LookupStays DEF FollowInv
<1>10. Followed'
  BY <1>1, <1>2, FollowStays DEF FollowInv, SameColumns
<1> QED BY <1>7, <1>8, <1>9, <1>10 DEF FollowInv

\* Nothing is emitted or handled.
LEMMA QuietFollows ==
  ASSUME IInv, FollowInv, UNCHANGED <<stripe, events, done>>, LookupOK',
         SameColumns, ~overwritten' => ~overwritten
  PROVE  FollowInv'
<1>1. Grown
  BY DEF Grown
<1>2. Followed'
  BY <1>1, FollowStays DEF FollowInv
<1> QED
  BY <1>2 DEF FollowInv, StripeIsLatest, OldLinked, Linkings, Checkouts, EventsOf, Updates, Latest, Range

\* An event is handled.
LEMMA HandledFollows ==
  ASSUME IInv, FollowInv, NEW e \in DOMAIN events, done' = Append(done, e),
         UNCHANGED <<stripe, events>>, LookupOK', Followed'
  PROVE  FollowInv'
<1>0. done \in Seq(Ids) /\ e \in Ids
  BY DoneIsEmitted
<1>1. Range(done)' = Range(done) \cup {e}
  BY <1>0, RangeAppend DEF Range
<1>2. Linkings \subseteq Linkings'
  BY <1>1 DEF Linkings, Checkouts
<1> QED BY <1>2 DEF FollowInv, StripeIsLatest, OldLinked, EventsOf, Updates, Latest

LEMMA DeliverFollows ==
  ASSUME IInv, FollowInv, NEW h \in Handlers, NEW e \in Ids, Deliver(h, e)
  PROVE  FollowInv'
<1>1. UNCHANGED <<stripe, events, done, row, overwritten>> /\ hook \in [Handlers -> Hook]
  BY DEF Deliver, mirror, handled, IInv, TypeOK
<1>2. CASE UNCHANGED hook
  <2>1. LookupOK'
    BY <1>1, <1>2 DEF FollowInv, LookupOK
  <2> QED BY <1>1, <2>1, QuietFollows DEF SameColumns
<1>3. CASE hook' = [hook EXCEPT ![h] =
             [step |-> IF events[e].type = "lifecycle" /\ events[e].sub = Old
                       THEN "lookup" ELSE "apply", event |-> e]]
  <2>1. LookupOK'
    BY <1>1, <1>3 DEF FollowInv, LookupOK
  <2> QED BY <1>1, <2>1, QuietFollows DEF SameColumns
<1> QED BY <1>2, <1>3 DEF Deliver

\* A request that is answered or goes on, but not to a lookup.
LEMMA LetGoLookup ==
  ASSUME IInv, FollowInv, NEW h \in Handlers, UNCHANGED events,
         \/ hook' = [hook EXCEPT ![h] = Free]
         \/ \E s \in {"apply", "release"} : Goto(h, s)
  PROVE  LookupOK'
<1>1. hook \in [Handlers -> Hook]
  BY DEF IInv, TypeOK
<1>2. \A k \in Handlers : hook'[k].step = "lookup" => hook'[k] = hook[k]
  <2>1. CASE hook' = [hook EXCEPT ![h] = Free]
    BY <1>1, <2>1 DEF Free
  <2>2. ASSUME NEW s \in {"apply", "release"}, Goto(h, s)
        PROVE  \A k \in Handlers : hook'[k].step = "lookup" => hook'[k] = hook[k]
    <3>1. hook'[h].step = s /\ \A k \in Handlers \ {h} : hook'[k] = hook[k]
      BY <1>1, <2>2 DEF Goto, Hook
    <3> QED BY <3>1
  <2> QED BY <2>1, <2>2
<1> QED BY <1>2 DEF FollowInv, LookupOK

LEMMA LookupFollows ==
  ASSUME IInv, FollowInv, NEW h \in Handlers, Lookup(h)
  PROVE  FollowInv'
<1>1. UNCHANGED <<stripe, events, row, overwritten>> /\ hook[h].step = "lookup"
  BY DEF Lookup, mirror
<1>2. CASE (Goto(h, "apply") \/ Answer(h)) /\ UNCHANGED done
  <2>1. LookupOK'
    BY <1>1, <1>2, LetGoLookup DEF Answer
  <2> QED BY <1>1, <1>2, <2>1, QuietFollows DEF SameColumns
<1>3. CASE row.cust # Old /\ Answer(h) /\ Finish(h)
  <2>1. PICK e \in DOMAIN events : e = hook[h].event
    BY <1>1, HeldIsClaimed
  <2>2. events[e].sub = Old /\ e \notin Checkouts
    BY <1>1, <2>1 DEF FollowInv, LookupOK, Checkouts
  <2>3. Linkings # {}
    BY <2>2 DEF FollowInv, OldLinked, EventsOf
  <2>4. done' = Append(done, e)
    BY <1>3, <2>1 DEF Finish
  <2>5. Followed'
    BY <1>1, <1>3, <2>2, <2>3, <2>4, LifecycleFollowed DEF FollowInv, SameColumns
  <2>6. LookupOK'
    BY <1>1, <1>3, LetGoLookup DEF Answer
  <2> QED BY <1>1, <2>4, <2>5, <2>6, HandledFollows
<1> QED BY <1>2, <1>3 DEF Lookup, Lose, handled

LEMMA ApplyFollows ==
  ASSUME IInv, FollowInv, NEW h \in Handlers, Apply(h)
  PROVE  FollowInv'
<1>1. UNCHANGED <<stripe, events>> /\ hook[h].step = "apply" /\ row \in Row
  BY DEF Apply, mirror, IInv, TypeOK
<1>2. PICK e \in DOMAIN events : e = hook[h].event
  BY <1>1, HeldIsClaimed
<1>3. CASE /\ row' = IF events[e].type = "checkout" THEN Link(events[e].sub, Paid(events[e].payment))
                     ELSE SetStatus(events[e].sub, events[e].status)
           /\ overwritten' = (overwritten /\ events[e].type # "checkout")
           /\ Answer(h) /\ Finish(h)
  <2>1. done' = Append(done, e)
    BY <1>2, <1>3 DEF Finish
  <2>2. ASSUME e \in Checkouts PROVE Followed'
    <3>1. row' = Link(events[e].sub, Paid(events[e].payment))
      BY <1>3, <2>2 DEF Checkouts
    <3>2. /\ row'.sub = events[e].sub /\ row'.cust = events[e].sub
          /\ row'.status = Paid(events[e].payment)
      BY <1>1, <3>1 DEF Link, Row
    <3>3. Grants(Paid(events[e].payment)) = GivesAccess(events[e])
      BY <2>2 DEF Paid, Grants, GivesAccess, Checkouts
    <3>4. Grants(row'.status) = GivesAccess(events[e])
      BY <3>2, <3>3
    <3> QED BY <1>1, <2>1, <2>2, <3>2, <3>4, CheckoutFollowed
  <2>3. ASSUME e \notin Checkouts PROVE Followed'
    <3>1. row' = SetStatus(events[e].sub, events[e].status)
      BY <1>3, <2>3 DEF Checkouts
    <3>2. overwritten' = overwritten
      <4>1. events[e].type # "checkout"
        BY <2>3 DEF Checkouts
      <4>2. overwritten \in BOOLEAN
        BY DEF IInv, TypeOK
      <4> QED BY <1>3, <4>1, <4>2
    <3>3. CASE row.sub \in {None, events[e].sub}
      <4>1. /\ row'.sub = events[e].sub /\ row'.cust = row.cust
            /\ row'.status = events[e].status
        BY <1>1, <3>1, <3>3 DEF SetStatus, Current, Row
      <4>2. Grants(row'.status) = GivesAccess(events[e])
        BY <2>3, <4>1 DEF GivesAccess, Checkouts
      <4> QED BY <1>1, <2>1, <2>3, <3>2, <3>3, <4>1, <4>2, LifecycleFollowed DEF FollowInv
    <3>4. CASE row.sub \notin {None, events[e].sub}
      <4>1. SameColumns
        BY <3>1, <3>4 DEF SetStatus, Current, SameColumns
      <4> QED BY <1>1, <2>1, <2>3, <3>2, <3>4, <4>1, LifecycleFollowed DEF FollowInv
    <3> QED BY <3>3, <3>4
  <2>4. LookupOK'
    BY <1>1, <1>3, LetGoLookup DEF Answer
  <2> QED BY <1>1, <2>1, <2>2, <2>3, <2>4, HandledFollows
<1>4. CASE (Goto(h, "release") \/ Refuse(h)) /\ UNCHANGED <<row, done, overwritten>>
  <2>1. LookupOK'
    BY <1>1, <1>4, LetGoLookup DEF Refuse
  <2> QED BY <1>1, <1>4, <2>1, QuietFollows DEF SameColumns
<1> QED BY <1>2, <1>3, <1>4 DEF Apply, Lose, handled

LEMMA ReleaseFollows ==
  ASSUME IInv, FollowInv, NEW h \in Handlers, Release(h)
  PROVE  FollowInv'
<1>1. UNCHANGED <<stripe, events, row, done, overwritten>> /\ hook' = [hook EXCEPT ![h] = Free]
  BY DEF Release, Refuse, Lose, mirror, handled
<1>2. LookupOK'
  BY <1>1, LetGoLookup
<1> QED BY <1>1, <1>2, QuietFollows DEF SameColumns

\* A copy is saved that had the columns the row has, or the save is noted.
LEMMA SaveFollows ==
  ASSUME IInv, FollowInv, NEW p \in Savers, NEW edit \in Edits, SaveSettings(p, edit)
  PROVE  FollowInv'
<1>1. UNCHANGED <<stripe, events, hook, done>>
  BY DEF SaveSettings, handled
<1>2. LookupOK'
  BY <1>1 DEF FollowInv, LookupOK
<1>3. save[p].copy \in Row
  BY DEF IInv, TypeOK, Save
<1>4. /\ Overlay(edit, save[p].copy).sub = save[p].copy.sub
      /\ Overlay(edit, save[p].copy).cust = save[p].copy.cust
      /\ Overlay(edit, save[p].copy).status = save[p].copy.status
  BY <1>3 DEF Overlay, Row, Edits
<1>5. CASE UNCHANGED <<row, overwritten>>
  BY <1>1, <1>2, <1>5, QuietFollows DEF SameColumns
<1>6. CASE /\ row' = Overlay(edit, save[p].copy)
           /\ overwritten' = (overwritten \/ \E c \in {"sub", "cust", "status"} :
                                               save[p].copy[c] # row[c])
  <2>1. CASE overwritten'
    <3>1. Followed'
      BY <2>1 DEF Followed
    <3> QED
      BY <1>1, <1>2, <3>1
      DEF FollowInv, StripeIsLatest, OldLinked, Linkings, Checkouts, EventsOf, Updates, Latest, Range
  <2>2. CASE ~overwritten'
    <3>1. ~overwritten /\ \A c \in {"sub", "cust", "status"} : save[p].copy[c] = row[c]
      BY <1>6, <2>2, Zenon
    <3>2. SameColumns
      BY <1>4, <1>6, <3>1 DEF SameColumns
    <3> QED BY <1>1, <1>2, <3>1, <3>2, QuietFollows
  <2> QED BY <2>1, <2>2
<1> QED BY <1>5, <1>6 DEF SaveSettings

LEMMA FollowStep ==
  ASSUME IInv, FollowInv, [Next]_vars
  PROVE  FollowInv'
<1>1. CASE \E s \in Subs, status \in Statuses :
             Change(s, status) \/ \E payment \in Payments : Checkout(s, status, payment)
  BY <1>1, StripeFollows
<1>2. CASE \E h \in Handlers : Serve(h) \/ \E e \in Ids : Deliver(h, e)
  BY <1>2, DeliverFollows, LookupFollows, ApplyFollows, ReleaseFollows DEF Serve
<1>3. CASE \E p \in Savers, edit \in Edits : SaveSettings(p, edit)
  BY <1>3, SaveFollows
<1>4. CASE UNCHANGED vars \/ \E p \in Savers : Settings(p)
  <2>1. UNCHANGED <<stripe, events, hook, row, done, overwritten>>
    BY <1>4 DEF vars, handled, Settings
  <2>2. LookupOK'
    BY <2>1 DEF FollowInv, LookupOK
  <2> QED BY <2>1, <2>2, QuietFollows DEF SameColumns
<1>5. CASE Crash
  <2>1. UNCHANGED <<stripe, events, row, done, overwritten>> /\ hook' = [h \in Handlers |-> Free]
    BY <1>5 DEF Crash
  <2>2. LookupOK'
    BY <2>1 DEF LookupOK, Free
  <2> QED BY <2>1, <2>2, QuietFollows DEF SameColumns
<1> QED BY <1>1, <1>2, <1>3, <1>4, <1>5 DEF Next

LEMMA FollowInit == Init => FollowInv
<1> SUFFICES ASSUME Init PROVE FollowInv
  OBVIOUS
<1>1. LookupOK
  BY DEF Init, LookupOK, Free
<1>2. CASE /\ row = Asked /\ events = <<>> /\ done = <<>>
           /\ stripe = [s \in Subs |-> "none"]
  <2>1. StripeIsLatest /\ OldLinked
    BY <1>2, BillingConstants DEF StripeIsLatest, OldLinked, Updates, EventsOf
  <2> QED BY <1>1, <1>2, <2>1 DEF FollowInv, Followed, Asked
<1>3. CASE /\ row = Linked /\ done = <<1>> /\ events = <<Completed(Old, "paid")>>
  <2>1. /\ DOMAIN events = {1} /\ DOMAIN done = {1} /\ done[1] = 1 /\ 1 \in Ids
        /\ events[1].type = "checkout" /\ events[1].sub = Old /\ GivesAccess(events[1])
        /\ done # <<>>
    BY <1>3, BillingConstants DEF Ids, Completed, GivesAccess
  <2>2. Linkings = {1} /\ Checkouts = {1} /\ EventsOf(Old) = {1}
    BY <2>1 DEF Range, Checkouts, Linkings, EventsOf
  <2>3. row.sub = Old /\ row.cust = Old /\ Grants(row.status)
    BY <1>3 DEF Linked, Grants
  <2>4. OfLastCheckout
    BY <2>1, <2>2, <2>3 DEF OfLastCheckout
  <2>5. LastIn(done, 1, {1})
    BY <2>1 DEF LastIn
  <2>6. SaysAs(1)
    BY <2>1, <2>2, <2>3, <2>5 DEF SaysAs
  <2>7. StripeIsLatest /\ OldLinked
    BY <2>1, <2>2 DEF StripeIsLatest, OldLinked, Updates, EventsOf
  <2> QED BY <1>1, <2>1, <2>3, <2>4, <2>6, <2>7 DEF FollowInv, Followed
<1> QED BY <1>2, <1>3 DEF Init

\* For any subscriptions, goroutines, deliveries, failures and settings pages, and events
\* handled in any order: while no save has put older columns back, the row is of the
\* subscription whose checkout was handled last, and gives access just when the last
\* event handled of that one says so.
THEOREM LastReportStands == Spec => []RowIsLastReport
<1>1. IInv /\ FollowInv => RowIsLastReport
  BY DEF FollowInv, Followed, OfLastCheckout, SaysAs, RowIsLastReport
<1> QED BY <1>1, FollowInit, FollowStep, Invariant, PTL DEF Spec

\* What deliveries must do for the row to be right: whatever is lost or late of older
\* subscriptions, when the newest checkout is the last checkout handled, and the newest
\* lifecycle event of its subscription the last of its events that is handled, after the
\* checkout too, then the row is of that subscription and grants what Stripe says.
MirrorsStripe ==
  \A c \in Checkouts, l \in DOMAIN events :
    /\ ~overwritten
    /\ Latest(c, Checkouts) /\ LastIn(done, c, Checkouts)
    /\ Latest(l, Updates(events[c].sub)) /\ LastIn(done, l, EventsOf(events[c].sub))
    => row.sub = events[c].sub /\ Grants(row.status) = Grants(stripe[row.sub])

THEOREM RowMirrorsStripe == Spec => []MirrorsStripe
<1>1. IInv /\ FollowInv => MirrorsStripe
  <2> SUFFICES ASSUME IInv, FollowInv, NEW c \in Checkouts, NEW l \in DOMAIN events, ~overwritten,
                      LastIn(done, c, Checkouts), Latest(l, Updates(events[c].sub)),
                      LastIn(done, l, EventsOf(events[c].sub))
               PROVE  row.sub = events[c].sub /\ Grants(row.status) = Grants(stripe[row.sub])
    BY DEF MirrorsStripe
  <2>1. done \in Seq(Ids) /\ done # <<>> /\ events[c].sub \in Subs
    BY DoneIsEmitted DEF LastIn, Checkouts
  <2>2. row.sub = events[c].sub
    BY <2>1 DEF FollowInv, Followed, OfLastCheckout
  <2>3. PICK k \in Ids : SaysAs(k)
    BY <2>1 DEF FollowInv, Followed
  <2>4. k = l
    BY <2>1, <2>2, <2>3, LastIsOne DEF SaysAs
  <2>5. events[l].type = "lifecycle" /\ l \in Updates(events[c].sub)
    BY DEF Latest, Updates
  <2>6. Grants(row.status) = Grants(events[l].status)
    BY <2>3, <2>4, <2>5 DEF SaysAs, GivesAccess
  <2>7. events[l].status = stripe[events[c].sub]
    BY <2>1, <2>5 DEF FollowInv, StripeIsLatest
  <2> QED BY <2>2, <2>6, <2>7
<1> QED BY <1>1, FollowInit, FollowStep, Invariant, PTL DEF Spec
=============================================================================
