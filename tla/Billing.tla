-------------------------------- MODULE Billing --------------------------------
(***************************************************************************)
(* The platform-AI subscription of one community (internal/billing and     *)
(* internal/community). Stripe reports what happens to a subscription by   *)
(* events, at least once and in any order; the webhook claims an event,    *)
(* applies it and releases the claim when that fails. Meanwhile owner and  *)
(* operator load the settings row, change it and write it back whole.      *)
(***************************************************************************)
EXTENDS Integers, Sequences, FiniteSets, Functions

CONSTANTS
  Subs,      \* subscriptions; each has a Stripe customer of its own
  Old,       \* the one that predates the community_id in the metadata
  None,      \* no subscription
  Handlers,  \* goroutines that serve POST /billing/webhook
  Savers,    \* goroutines that serve the settings pages
  MaxEvents, \* bound: events Stripe emits
  MaxEdits,  \* bound: settings requests
  MaxFaults  \* bound: failing statements, broken requests and crashes together

ASSUME BillingConstants ==
  /\ Old \in Subs /\ None \notin Subs /\ MaxEvents \in Nat \ {0}
  /\ MaxEdits \in Nat /\ MaxFaults \in Nat

VARIABLES
  stripe,     \* the status of each subscription at Stripe
  events,     \* what Stripe has emitted; an event's id is its place
  acked,      \* events answered with 200
  row,        \* community_settings of the community
  claimed,    \* stripe_events
  hook,       \* what each webhook goroutine is about to do
  save,       \* what each settings goroutine is about to write
  edits,      \* settings requests so far
  faults,     \* faults so far
  done,       \* history: events handled to the end, in that order
  lost,       \* history: events whose claim, or answer, outlived a failure
  overwritten \* history: a save has put earlier Stripe columns back, and no checkout
              \* has written them since

handled == <<done, lost>>
vars == <<stripe, events, acked, row, claimed, hook, save, edits, faults, handled, overwritten>>

\* A trial grants access as an active subscription does; "none" is the empty status.
Statuses == {"none", "active", "lapsed"}
Grants(status) == status = "active"
Ids   == 1 .. MaxEvents
\* payment_status of a checkout session; "unpaid" stands for "no_payment_required" too.
Payments == {"paid", "unpaid"}
Event == [type : {"checkout"}, sub : Subs, payment : Payments]
         \cup [type : {"lifecycle"}, sub : Subs, status : Statuses]
Standings == {"", "requested", "active", "canceled"}
\* sub, cust, status: stripe_subscription_id, _customer_id, _subscription_status;
\* free: platform_ai_granted_free; on: use_platform_ai; standing: platform_ai_status.
Row  == [sub : Subs \cup {None}, cust : Subs \cup {None}, status : Statuses,
         free : BOOLEAN, on : BOOLEAN, standing : Standings]
Hook == [step : {"idle", "lookup", "apply", "release"}, event : Ids \cup {0}]
Edits == {"request", "cancel", "grant", "revoke", "form"}
Save == [busy : BOOLEAN, copy : Row]

\* The owner has asked for platform AI; only then does the card offer Subscribe.
Asked == [sub |-> None, cust |-> None, status |-> "none",
          free |-> FALSE, on |-> TRUE, standing |-> "requested"]
Linked == [sub |-> Old, cust |-> Old, status |-> "active",
           free |-> FALSE, on |-> TRUE, standing |-> "active"]
Free  == [step |-> "idle", event |-> 0]
Idle  == [busy |-> FALSE, copy |-> Asked]
Authorized(r) == r.free \/ Grants(r.status)

Holds(h, e) == hook[h].step # "idle" /\ hook[h].event = e
InHand(e)   == \E h \in Handlers : Holds(h, e)

TypeOK ==
  /\ stripe \in [Subs -> Statuses]
  /\ events \in Seq(Event) /\ Len(events) <= MaxEvents
  /\ acked \subseteq DOMAIN events
  /\ row \in Row
  /\ claimed \subseteq DOMAIN events
  /\ hook \in [Handlers -> Hook]
  /\ \A h \in Handlers : hook[h].step # "idle" => hook[h].event \in claimed
  /\ save \in [Savers -> Save]
  /\ edits \in 0 .. MaxEdits
  /\ faults \in 0 .. MaxFaults
  /\ done \in Seq(Ids)
  /\ lost \subseteq DOMAIN events
  /\ overwritten \in BOOLEAN

Lifecycle(s, status)  == [type |-> "lifecycle", sub |-> s, status |-> status]
Completed(s, payment) == [type |-> "checkout", sub |-> s, payment |-> payment]

\* A community that has just asked, or one whose old subscription is linked.
Init ==
  /\ \/ /\ row = Asked
        /\ stripe = [s \in Subs |-> "none"]
        /\ events = <<>> /\ acked = {} /\ claimed = {} /\ done = <<>>
     \/ /\ row = Linked
        /\ stripe = [s \in Subs |-> IF s = Old THEN "active" ELSE "none"]
        /\ events = <<Completed(Old, "paid")>>
        /\ acked = {1} /\ claimed = {1} /\ done = <<1>>
  /\ hook = [h \in Handlers |-> Free]
  /\ save = [p \in Savers |-> Idle] /\ edits = 0
  /\ faults = 0 /\ lost = {} /\ overwritten = FALSE

Fault == faults < MaxFaults /\ faults' = faults + 1
Well  == UNCHANGED faults

-----------------------------------------------------------------------------
(* Stripe.                                                                 *)

\* The owner goes through the hosted checkout of a new subscription. A trial needs no
\* payment, a delayed one is unpaid while the subscription is active already.
Checkout(s, status, payment) ==
  /\ s # Old /\ stripe[s] = "none" /\ status # "none"
  /\ Len(events) + 2 <= MaxEvents
  /\ stripe' = [stripe EXCEPT ![s] = status]
  /\ events' = events \o <<Lifecycle(s, status), Completed(s, payment)>>
  /\ Well /\ UNCHANGED <<acked, row, claimed, hook, save, edits, handled, overwritten>>

\* An invoice is paid or fails, the subscription is cancelled.
Change(s, status) ==
  /\ stripe[s] \notin {"none", status} /\ status # "none"
  /\ Len(events) < MaxEvents
  /\ stripe' = [stripe EXCEPT ![s] = status]
  /\ events' = Append(events, Lifecycle(s, status))
  /\ Well /\ UNCHANGED <<acked, row, claimed, hook, save, edits, handled, overwritten>>

-----------------------------------------------------------------------------
(* The webhook.                                                            *)

mirror == <<stripe, events, save, edits>>
Goto(h, s) == hook' = [hook EXCEPT ![h].step = s]
\* The request is answered: with 200, or with 500, and then Stripe tries again.
Answer(h)  == hook' = [hook EXCEPT ![h] = Free] /\ acked' = acked \cup {hook[h].event}
Refuse(h)  == hook' = [hook EXCEPT ![h] = Free] /\ UNCHANGED acked
Finish(h)  == done' = Append(done, hook[h].event) /\ UNCHANGED lost
Lose(h)    == lost' = lost \cup {hook[h].event} /\ UNCHANGED done

\* Mutant: a redelivered event is taken for a new one.
FreshAlways(e) == TRUE

\* INSERT OR IGNORE says whether the id is new.
Fresh(e) == e \notin claimed

\* Webhook up to the claim; a claimed event is acknowledged whatever became of it.
Deliver(h, e) ==
  /\ hook[h] = Free /\ e \in DOMAIN events
  /\ \/ /\ Fresh(e)
        /\ claimed' = claimed \cup {e}
        /\ hook' = [hook EXCEPT ![h] =
             [step |-> IF events[e].type = "lifecycle" /\ events[e].sub = Old
                       THEN "lookup" ELSE "apply", event |-> e]]
        /\ Well /\ UNCHANGED acked
     \/ /\ ~Fresh(e)
        /\ acked' = acked \cup {e}
        /\ Well /\ UNCHANGED <<claimed, hook>>
     \/ Fault /\ UNCHANGED <<acked, claimed, hook>>
  /\ UNCHANGED <<mirror, row, handled, overwritten>>

\* CommunityByStripeCustomer. A customer who is not linked is not ours; a lookup
\* that fails returns no community either and is taken for the same.
Lookup(h) ==
  /\ hook[h].step = "lookup"
  /\ \/ row.cust = Old /\ Goto(h, "apply") /\ Well /\ UNCHANGED <<acked, handled>>
     \/ row.cust # Old /\ Answer(h) /\ Finish(h) /\ Well
     \/ Fault /\ Answer(h) /\ Lose(h)
  /\ UNCHANGED <<mirror, row, claimed, overwritten>>

\* Mutant: a checkout grants access before its first invoice is paid.
PaidAlways(payment) == "active"

\* A checkout that is not paid links the ids and grants nothing.
Paid(payment) == IF payment = "paid" THEN "active" ELSE "none"

\* LinkStripeCheckout. It writes over what a lifecycle event has said before.
Link(s, status) ==
  [row EXCEPT !.cust = s, !.sub = s, !.status = status,
              !.on = @ \/ Grants(status),
              !.standing = IF Grants(status) THEN "active" ELSE @]

\* Mutant: whatever subscription the event is about.
CurrentAny(s) == TRUE

\* An event of a subscription that is no longer the community's is passed over.
Current(s) == row.sub \in {None, s}

\* Mutant: the operator's grant is not looked at.
StandingWithout(status) == IF Grants(status) THEN "active" ELSE "canceled"

StandingWith(status) == IF Grants(status) \/ row.free THEN "active" ELSE "canceled"

\* SetSubscriptionStatus
SetStatus(s, status) ==
  IF Current(s)
  THEN [row EXCEPT !.sub = s, !.status = status, !.standing = StandingWith(status)]
  ELSE row

\* handle() with its one statement. When Stripe hangs up, the request's context
\* ends both the statement and the release of the claim.
Apply(h) ==
  /\ hook[h].step = "apply"
  /\ LET e == events[hook[h].event] IN
       \/ /\ row' = IF e.type = "checkout" THEN Link(e.sub, Paid(e.payment))
                    ELSE SetStatus(e.sub, e.status)
          /\ overwritten' = (overwritten /\ e.type # "checkout")
          /\ Answer(h) /\ Finish(h)
          /\ Well
       \/ Fault /\ Goto(h, "release") /\ UNCHANGED <<acked, row, handled, overwritten>>
       \/ Fault /\ Refuse(h) /\ Lose(h) /\ UNCHANGED <<row, overwritten>>
  /\ UNCHANGED <<mirror, claimed>>

\* Mutant: the claim stays.
UnmarkKept(e) == claimed

\* Mutant: all claims go.
UnmarkAll(e) == {}

Unmark(e) == claimed \ {e}

\* UnmarkStripeEvent. Stripe does not try again what another delivery of the same
\* event has been told is processed.
Release(h) ==
  /\ hook[h].step = "release"
  /\ \/ /\ claimed' = Unmark(hook[h].event)
        /\ IF hook[h].event \in acked THEN Lose(h) ELSE UNCHANGED handled
        /\ Well
     \/ Fault /\ Lose(h) /\ UNCHANGED claimed
  /\ Refuse(h)
  /\ UNCHANGED <<mirror, row, overwritten>>

-----------------------------------------------------------------------------
(* The settings pages. Each loads the row, overlays it, and saves all of it. *)

\* RequestPlatformAI, CancelPlatformAIRequest, GrantPlatformAI, RevokePlatformAI; the
\* settings and storage forms touch none of these columns.
Overlay(edit, r) ==
  CASE edit = "request" ->
         [r EXCEPT !.on = TRUE, !.standing = IF Authorized(r) THEN "active" ELSE "requested"]
    [] edit = "cancel"  ->
         [r EXCEPT !.on = FALSE, !.standing = IF Authorized(r) THEN @ ELSE ""]
    [] edit = "grant"   -> [r EXCEPT !.free = TRUE, !.on = TRUE, !.standing = "active"]
    [] edit = "revoke"  ->
         [r EXCEPT !.free = FALSE,
                   !.on = IF Grants(r.status) THEN @ ELSE FALSE,
                   !.standing = IF Grants(r.status) THEN "active" ELSE "canceled"]
    [] OTHER -> r

\* A request loads the row; what it makes of the copy is seen when it saves it.
Settings(p) ==
  /\ save[p] = Idle /\ edits < MaxEdits
  /\ edits' = edits + 1
  /\ save' = [save EXCEPT ![p] = [busy |-> TRUE, copy |-> row]]
  /\ Well /\ UNCHANGED <<stripe, events, acked, row, claimed, hook, handled, overwritten>>

SaveSettings(p, edit) ==
  /\ save[p].busy
  /\ \/ /\ row' = Overlay(edit, save[p].copy)
        /\ overwritten' = (overwritten \/ \E c \in {"sub", "cust", "status"} :
                                             save[p].copy[c] # row[c])
        /\ Well
     \/ Fault /\ UNCHANGED <<row, overwritten>>
  /\ save' = [save EXCEPT ![p] = Idle]
  /\ UNCHANGED <<stripe, events, acked, claimed, hook, edits, handled>>

-----------------------------------------------------------------------------

\* The process dies: what is claimed and not applied is never taken up again.
Crash ==
  /\ Fault
  /\ hook' = [h \in Handlers |-> Free]
  /\ save' = [p \in Savers |-> Idle]
  /\ lost' = lost \cup {e \in DOMAIN events : InHand(e)}
  /\ UNCHANGED <<stripe, events, acked, row, claimed, edits, done, overwritten>>

Serve(h) == Lookup(h) \/ Apply(h) \/ Release(h)

Next ==
  \/ \E s \in Subs, status \in Statuses :
       Change(s, status) \/ \E payment \in Payments : Checkout(s, status, payment)
  \/ \E h \in Handlers : Serve(h) \/ \E e \in Ids : Deliver(h, e)
  \/ \E p \in Savers : Settings(p) \/ \E edit \in Edits : SaveSettings(p, edit)
  \/ Crash

Spec == Init /\ [][Next]_vars

\* Stripe delivers again until it is answered with 200, and requests run on.
FairSpec ==
  /\ Spec
  /\ \A e \in Ids : WF_vars(e \notin acked /\ \E h \in Handlers : Deliver(h, e))
  /\ \A h \in Handlers : WF_vars(Serve(h))

-----------------------------------------------------------------------------
(* Correctness.                                                            *)

\* However often Stripe delivers an event, at the same time or later, one request at
\* a time has it in hand, and it is applied once.
EventAppliedOnce ==
  /\ \A i, j \in DOMAIN done : done[i] = done[j] => i = j
  /\ \A e \in Range(done) : e \in claimed /\ ~InHand(e)
  /\ \A h, k \in Handlers, e \in Ids : Holds(h, e) /\ Holds(k, e) => h = k

\* What an event says of the subscription it is about.
GivesAccess(e) == IF e.type = "checkout" THEN e.payment = "paid" ELSE Grants(e.status)

\* A subscription grants access only after Stripe has reported that very one paid or in
\* good standing, in whatever order its events, other checkouts and stale saves come.
AccessWasPaid ==
  Grants(row.status) => \E e \in Range(done) : /\ events[e].sub = row.sub
                                               /\ GivesAccess(events[e])

\* A community that is sponsored or has paid is shown as active, not as one that
\* waits or has lapsed, whoever wrote its row last.
AuthorizedIsActive == Authorized(row) => row.standing = "active"

Checkouts   == {e \in DOMAIN events : events[e].type = "checkout"}
EventsOf(s) == {e \in DOMAIN events : events[e].sub = s}
\* Of the events in E, e comes last in the sequence d.
LastIn(d, e, E) ==
  e \in E /\ \E i \in DOMAIN d : d[i] = e /\ \A j \in DOMAIN d : d[j] \in E => j <= i

\* In whatever order the events of several subscriptions are handled, and whichever
\* of them fail: while no save has put older columns back, the row is of the
\* subscription whose checkout was handled last, and gives access just when the event
\* of that one that was handled last says so.
RowIsLastReport ==
  done # <<>> /\ ~overwritten
    => /\ \A c \in Checkouts : LastIn(done, c, Checkouts) => row.sub = events[c].sub
       /\ \E l \in EventsOf(row.sub) : /\ LastIn(done, l, EventsOf(row.sub))
                                       /\ Grants(row.status) = GivesAccess(events[l])

\* Every event is handled, or met a failure that Stripe does not hear of.
EventIsHandled ==
  \A e \in Ids : e \in DOMAIN events ~> e \in Range(done) \cup lost

-----------------------------------------------------------------------------
(* What a comment promises.                                                *)

\* "Stripe's webhook (the SOLE authority on subscription state)": nothing else changes
\* the Stripe columns.
WebhookIsSoleAuthority ==
  [][(\E c \in {"sub", "cust", "status"} : row'[c] # row[c]) => done' # done]_vars
=============================================================================
