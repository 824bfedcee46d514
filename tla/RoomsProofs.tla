------------------------------ MODULE RoomsProofs ------------------------------
(***************************************************************************)
(* Theorems about Rooms, for any people, goroutines, capacity and bounds.  *)
(***************************************************************************)
EXTENDS Rooms, FiniteSetTheorems, WellFoundedInduction, TLAPS

\* The parts of the invariant that speak of the live room.
LiveOK ==
  /\ admin \in Users \cup {None}
  /\ members \subseteq People
  /\ IsFiniteSet(members) /\ Cardinality(members) <= MaxParticipants
  /\ pending \subseteq Users \ members
  /\ before \subseteq People \X People
  /\ silent \subseteq members

\* The parts that speak of the record, the goroutines and the bounds.
RestOK ==
  /\ owner \in Users \cup {None} /\ public \in BOOLEAN /\ chat \in BOOLEAN
  /\ minted \in 0 .. MaxInvites /\ invites \subseteq 1 .. minted
  /\ cookies \subseteq Guests
  /\ job \in [Threads -> Job]
  /\ begun \in 0 .. MaxRequests
  /\ stray \subseteq Parts

IInv == TypeOK /\ AdminOfRoom /\ EmptyIsDefault

LEMMA TypeParts == TypeOK <=> LiveOK /\ RestOK
  BY DEF TypeOK, LiveOK, RestOK

LEMMA IdleIsJob == Idle \in Job
  BY DEF Idle, Job, Steps, Entering

LEMMA InitInv == Init => IInv
<1> SUFFICES ASSUME Init PROVE IInv
  OBVIOUS
<1>1. LiveOK
  <2>1. IsFiniteSet({}) /\ Cardinality({}) = 0
    BY FS_EmptySet
  <2> QED
    BY <2>1, RoomsConstants DEF Init, LiveOK
<1>2. RestOK
  <2>1. job \in [Threads -> Job]
    BY IdleIsJob DEF Init
  <2>2. MaxInvites \in Nat /\ MaxRequests \in Nat
    BY RoomsConstants
  <2>3. minted \in 0 .. MaxInvites /\ begun \in 0 .. MaxRequests
    BY <2>2 DEF Init
  <2>4. /\ owner \in Users \cup {None} /\ public \in BOOLEAN /\ chat \in BOOLEAN
        /\ invites \subseteq 1 .. minted /\ cookies \subseteq Guests /\ stray \subseteq Parts
    BY DEF Init
  <2> QED
    BY <2>1, <2>3, <2>4 DEF RestOK
<1>3. AdminOfRoom
  BY DEF Init, AdminOfRoom
<1>4. Dirty = {}
  BY DEF Init, Dirty
<1> QED
  BY <1>1, <1>2, <1>3, <1>4, TypeParts DEF IInv, EmptyIsDefault

-----------------------------------------------------------------------------
(* What steps have in common.                                              *)

\* A goroutine takes up a step of its own.
LEMMA GoType ==
  ASSUME RestOK, NEW t \in Threads, NEW j \in Job, Go(t, j)
  PROVE  /\ job' \in [Threads -> Job]
         /\ job'[t] = j
         /\ \A w \in Threads : w # t => job'[w] = job[w]
  BY DEF RestOK, Go

\* Fields of a job.
LEMMA JobFields ==
  ASSUME RestOK, NEW t \in Threads
  PROVE  /\ job[t] \in Job
         /\ job[t].who \in People \cup {None}
         /\ job[t].step \in Entering => job[t].who \in People
         /\ job[t].step = "redeem" => job[t].who \in Guests
         /\ job[t].to \in Users \cup {None}
         /\ job[t].link \in Token \cup {0}
         /\ job[t].sawPublic \in BOOLEAN /\ job[t].posts \in BOOLEAN
  BY DEF RestOK, Job

LEMMA CarryType ==
  ASSUME RestOK, NEW t \in Threads, NEW s \in Steps \ Entering, Carry(t, s)
  PROVE  /\ job' \in [Threads -> Job]
         /\ job'[t].step = s
         /\ \A w \in Threads : w # t => job'[w] = job[w]
<1>1. [job[t] EXCEPT !.step = s] \in Job /\ [job[t] EXCEPT !.step = s].step = s
  BY DEF RestOK, Job, Entering
<1> QED
  BY <1>1, GoType DEF Carry

\* The end of a join.
LEMMA AfterJoinType ==
  ASSUME RestOK, NEW t \in Threads, AfterJoin(t)
  PROVE  /\ job' \in [Threads -> Job]
         /\ \A w \in Threads : w # t => job'[w] = job[w]
<1>1. CASE job[t].posts
  <2>1. Carry(t, "post")
    BY <1>1 DEF AfterJoin, Carry
  <2> QED
    BY <2>1, CarryType DEF Steps, Entering
<1>2. CASE ~job[t].posts
  BY <1>2, GoType, IdleIsJob DEF AfterJoin, Done
<1> QED
  BY <1>1, <1>2

LEMMA DoneType ==
  ASSUME RestOK, NEW t \in Threads, Done(t)
  PROVE  /\ job' \in [Threads -> Job]
         /\ job'[t] = Idle
         /\ \A w \in Threads : w # t => job'[w] = job[w]
  BY GoType, IdleIsJob DEF Done

LEMMA SameLive ==
  ASSUME LiveOK, AdminOfRoom, UNCHANGED live
  PROVE  LiveOK' /\ AdminOfRoom' /\ Empty' = Empty
  BY DEF LiveOK, AdminOfRoom, live, Empty

\* Goroutine t, which has nothing to reset, goes on: what is not at its default
\* in an empty room is still excused.
LEMMA QuietStep ==
  ASSUME EmptyIsDefault, NEW t \in Threads, ToReset(t) = {},
         \A w \in Threads : w # t => job'[w] = job[w],
         Empty' => Empty /\ Dirty' \subseteq Dirty \cup stray', stray \subseteq stray'
  PROVE  EmptyIsDefault'
<1> SUFFICES ASSUME Empty', NEW p \in Dirty', p \notin stray'
             PROVE  \E w \in Threads : p \in ToReset(w)'
  BY DEF EmptyIsDefault
<1>1. PICK w \in Threads : p \in ToReset(w)
  BY DEF EmptyIsDefault
<1>2. w # t
  BY <1>1
<1>3. ToReset(w)' = ToReset(w)
  BY <1>2 DEF ToReset
<1> QED
  BY <1>1, <1>3

-----------------------------------------------------------------------------
(* Kinds of steps.                                                         *)

\* Only a job moves.
LEMMA JobStep ==
  ASSUME IInv, NEW t \in Threads, ToReset(t) = {},
         job' \in [Threads -> Job], \A w \in Threads : w # t => job'[w] = job[w],
         UNCHANGED <<live, disk, cookies, stray>>, begun' \in 0 .. MaxRequests
  PROVE  IInv'
<1>1. LiveOK' /\ AdminOfRoom' /\ Empty' = Empty
  BY SameLive, TypeParts DEF IInv
<1>2. RestOK'
  BY TypeParts DEF IInv, RestOK, disk
<1>3. Dirty' = Dirty
  BY DEF Dirty, disk
<1>4. EmptyIsDefault'
  BY <1>1, <1>3, QuietStep DEF IInv
<1>5. TypeOK'
  BY <1>1, <1>2 DEF TypeOK, LiveOK, RestOK
<1> QED
  BY <1>1, <1>4, <1>5 DEF IInv

\* A request begins.
LEMMA BeginStep ==
  ASSUME IInv, NEW t, NEW j \in Job, Begin(t, j), UNCHANGED <<live, disk, cookies, stray>>
  PROVE  IInv'
<1>1. t \in Threads /\ job[t] = Idle /\ begun' \in 0 .. MaxRequests /\ Go(t, j)
  BY TypeParts, RoomsConstants DEF IInv, RestOK, Begin, Threads
<1>2. ToReset(t) = {}
  BY <1>1 DEF ToReset, Idle
<1>3. job' \in [Threads -> Job] /\ \A w \in Threads : w # t => job'[w] = job[w]
  BY <1>1, GoType, TypeParts DEF IInv
<1> QED
  BY <1>1, <1>2, <1>3, JobStep

\* The record changes: what it gains in an empty room is written down as stray.
LEMMA DiskStep ==
  ASSUME IInv, NEW t \in Threads, ToReset(t) = {},
         job' \in [Threads -> Job], \A w \in Threads : w # t => job'[w] = job[w],
         UNCHANGED <<live, cookies, begun>>,
         owner' \in Users \cup {None}, public' \in BOOLEAN, chat' \in BOOLEAN,
         minted' \in 0 .. MaxInvites, invites' \subseteq 1 .. minted',
         stray' \subseteq Parts, stray \subseteq stray',
         Empty => Dirty' \subseteq Dirty \cup stray'
  PROVE  IInv'
<1>1. LiveOK' /\ AdminOfRoom' /\ Empty' = Empty
  BY SameLive, TypeParts DEF IInv
<1>2. RestOK'
  BY TypeParts DEF IInv, RestOK
<1>3. EmptyIsDefault'
  BY <1>1, QuietStep DEF IInv
<1>4. TypeOK'
  BY <1>1, <1>2 DEF TypeOK, LiveOK, RestOK
<1> QED
  BY <1>1, <1>3, <1>4 DEF IInv

\* The live room changes and is occupied afterwards.
LEMMA LiveStep ==
  ASSUME IInv, LiveOK', AdminOfRoom', ~Empty',
         job' \in [Threads -> Job], UNCHANGED <<disk, stray>>,
         cookies' \subseteq Guests, begun' \in 0 .. MaxRequests
  PROVE  IInv'
<1>1. RestOK'
  BY TypeParts DEF IInv, RestOK, disk
<1>2. TypeOK'
  BY <1>1 DEF TypeOK, LiveOK, RestOK
<1> QED
  BY <1>2 DEF IInv, EmptyIsDefault

\* Only who is silent changes, and a job that resets nothing.
LEMMA SilenceStep ==
  ASSUME IInv, silent' \subseteq members, NEW t \in Threads, ToReset(t) = {},
         job' \in [Threads -> Job], \A w \in Threads : w # t => job'[w] = job[w],
         UNCHANGED <<admin, members, pending, before, disk, cookies, begun, stray>>
  PROVE  IInv'
<1>1. LiveOK' /\ AdminOfRoom' /\ Empty' = Empty
  BY TypeParts DEF IInv, LiveOK, AdminOfRoom, Empty
<1>2. RestOK'
  BY TypeParts DEF IInv, RestOK, disk
<1>3. Dirty' = Dirty
  BY DEF Dirty, disk
<1>4. EmptyIsDefault'
  BY <1>1, <1>3, QuietStep DEF IInv
<1>5. TypeOK'
  BY <1>1, <1>2 DEF TypeOK, LiveOK, RestOK
<1> QED
  BY <1>1, <1>4, <1>5 DEF IInv

-----------------------------------------------------------------------------
(* The live room.                                                          *)

LEMMA ForgetType ==
  ASSUME LiveOK, NEW S
  PROVE  Forget(S) \subseteq People \X People
  BY DEF LiveOK, Forget

LEMMA ArriveType ==
  ASSUME LiveOK, NEW k \in People, Arrive(k)
  PROVE  before' \subseteq People \X People
<1>1. members \cup pending \subseteq People
  BY DEF LiveOK, People
<1> QED
  BY <1>1, ForgetType DEF Arrive

\* One more member, who may have waited at the door.
LEMMA AdmitType ==
  ASSUME LiveOK, NEW k \in People, k \notin members, Admit(k),
         Cardinality(members) < MaxParticipants
  PROVE  /\ members' \subseteq People /\ members' = members \cup {k}
         /\ IsFiniteSet(members') /\ Cardinality(members') <= MaxParticipants
         /\ pending' \subseteq Users \ members'
         /\ silent' \subseteq members'
<1>1. IsFiniteSet(members') /\ Cardinality(members') = Cardinality(members) + 1
  BY FS_AddElement DEF LiveOK, Admit
<1>2. Cardinality(members) \in Nat /\ MaxParticipants \in Nat
  BY FS_CardinalityType, RoomsConstants DEF LiveOK
<1> QED
  BY <1>1, <1>2 DEF LiveOK, Admit

\* Whoever goes: an heir is a user who stays, and there is none only when no user
\* stays.
LEMMA DropKeeps ==
  ASSUME LiveOK, AdminOfRoom, NEW S \in SUBSET People, Drop(S)
  PROVE  LiveOK' /\ AdminOfRoom'
<1>1. /\ IsFiniteSet(members') /\ Cardinality(members') <= MaxParticipants
      /\ members' = members \ S /\ pending' = pending \ S /\ silent' = silent \ S
      /\ before' = Forget(S)
  <2>1. members' = members \ S /\ IsFiniteSet(members)
    BY DEF Drop, LiveOK
  <2>2. IsFiniteSet(members') /\ Cardinality(members') <= Cardinality(members)
    BY <2>1, FS_Subset
  <2>3. Cardinality(members') \in Nat /\ Cardinality(members) \in Nat /\ MaxParticipants \in Nat
    BY <2>1, <2>2, FS_CardinalityType, RoomsConstants
  <2> QED
    BY <2>1, <2>2, <2>3 DEF Drop, LiveOK
<1>2. CASE admin \notin S
  <2>1. admin' = admin
    BY <1>2 DEF Drop
  <2> QED
    BY <1>1, <1>2, <2>1, ForgetType DEF LiveOK, AdminOfRoom
<1>3. CASE admin \in S
  <2>1. admin' \in Heirs(members \ S)
    BY <1>3 DEF Drop
  <2>2. /\ admin' \in (members' \cap Users) \cup {None}
        /\ admin' = None => members' \cap Users = {}
    BY <1>1, <2>1, RoomsConstants DEF Heirs
  <2> QED
    BY <1>1, <2>2, ForgetType DEF LiveOK, AdminOfRoom
<1> QED
  BY <1>2, <1>3

\* A goroutine that is about to reset something owes it in the next state too,
\* unless it is the part it has just been through.
LEMMA ResetStep ==
  ASSUME IInv, NEW t \in Threads, NEW part \in Parts,
         job' \in [Threads -> Job], \A w \in Threads : w # t => job'[w] = job[w],
         ToReset(t) \ {part} \subseteq ToReset(t)',
         UNCHANGED <<live, minted, cookies, begun>>,
         owner' \in Users \cup {None}, public' \in BOOLEAN, chat' \in BOOLEAN,
         invites' \subseteq 1 .. minted,
         Dirty' \subseteq Dirty,
         \/ part \notin Dirty' /\ Restored(part)
         \/ LeftAsIs(part)
  PROVE  IInv'
<1>1. LiveOK' /\ AdminOfRoom' /\ Empty' = Empty
  BY SameLive, TypeParts DEF IInv
<1>2. stray' \subseteq Parts /\ stray \ {part} \subseteq stray'
  BY TypeParts DEF IInv, RestOK, Restored, LeftAsIs
<1>3. RestOK'
  BY <1>2, TypeParts DEF IInv, RestOK
<1>4. EmptyIsDefault'
  <2> SUFFICES ASSUME Empty', NEW p \in Dirty', p \notin stray'
               PROVE  \E w \in Threads : p \in ToReset(w)'
    BY DEF EmptyIsDefault
  <2>1. p # part
    BY <1>1 DEF Restored, LeftAsIs
  <2>2. p \notin stray /\ p \in Dirty /\ Empty
    BY <1>1, <1>2, <2>1
  <2>3. PICK w \in Threads : p \in ToReset(w)
    BY <2>2 DEF IInv, EmptyIsDefault
  <2>4. CASE w = t
    BY <2>1, <2>3, <2>4
  <2>5. CASE w # t
    <3>1. ToReset(w)' = ToReset(w)
      BY <2>5 DEF ToReset
    <3> QED
      BY <2>3, <3>1
  <2> QED
    BY <2>4, <2>5
<1>5. TypeOK'
  BY <1>1, <1>3 DEF TypeOK, LiveOK, RestOK
<1> QED
  BY <1>1, <1>4, <1>5 DEF IInv

-----------------------------------------------------------------------------
(* Requests begin.                                                         *)

\* A bounded set of numbers has a greatest one.
LEMMA MaxOfBounded ==
  ASSUME NEW S \in SUBSET Nat, NEW n \in Nat, S # {}, \A s \in S : s <= n
  PROVE  Max(S) \in S /\ \A y \in S : Max(S) >= y
<1> DEFINE T == {n - s : s \in S}
           R == OpToRel(<, Nat)
<1>1. IsWellFoundedOn(R, Nat)
  BY NatLessThanWellFounded
<1>2. T \subseteq Nat /\ T # {}
  <2>1. \A s \in S : n - s \in Nat
    OBVIOUS
  <2> QED
    BY <2>1
<1>3. PICK x \in T : \A y \in T : ~(<<y, x>> \in R)
  <2> HIDE DEF R, T
  <2> QED BY <1>1, <1>2, WFMin
<1>4. \A y \in T : ~(y < x)
  BY <1>2, <1>3 DEF OpToRel
<1>5. PICK m \in S : x = n - m
  OBVIOUS
<1>6. ASSUME NEW y \in S PROVE m >= y
  <2>1. n - y \in T
    OBVIOUS
  <2>2. ~(n - y < n - m)
    BY <1>4, <1>5, <2>1
  <2>3. m \in Nat /\ y \in Nat
    OBVIOUS
  <2> HIDE DEF T
  <2> QED
    BY <2>2, <2>3
<1>7. \E z \in S : \A y \in S : z >= y
  BY <1>6
<1> QED
  BY <1>7 DEF Max

\* The newest of the active links is a link.
LEMMA LatestLink ==
  ASSUME TypeOK, invites # {}
  PROVE  Max(invites) \in Token
<1>1. minted \in Nat /\ minted <= MaxInvites /\ invites \subseteq 1 .. minted /\ MaxInvites \in Nat
  BY RoomsConstants, TypeParts DEF RestOK
<1>2. invites \in SUBSET Nat /\ \A s \in invites : s <= minted
  BY <1>1
<1>3. Max(invites) \in invites
  BY <1>1, <1>2, MaxOfBounded
<1>4. Max(invites) \in 1 .. minted
  BY <1>1, <1>3
<1> HIDE DEF Max
<1> QED
  BY <1>1, <1>4 DEF Token

LEMMA BeginsInv ==
  ASSUME IInv, NEW t \in Workers,
         \/ \E k \in Users : PostJoin(t, k) \/ PostTogglePublic(t, k) \/ PostCreateInvite(t, k)
                             \/ PostRevokeInvite(t, k)
         \/ \E g \in Guests : PostInviteJoin(t, g)
         \/ \E k \in People : PostMessage(t, k)
  PROVE  IInv'
<1>1. ASSUME NEW k \in Users, PostJoin(t, k) PROVE IInv'
  <2>1. public \in BOOLEAN
    BY TypeParts DEF IInv, RestOK
  <2>2. [Idle EXCEPT !.step = "join", !.who = k, !.sawPublic = public] \in Job
    BY <2>1 DEF Idle, Job, Steps, Entering, People
  <2> QED
    BY <1>1, <2>2, BeginStep DEF PostJoin
<1>2. ASSUME NEW k \in Users, PostTogglePublic(t, k) PROVE IInv'
  <2>1. [Idle EXCEPT !.step = "toggle", !.who = k] \in Job
    BY DEF Idle, Job, Steps, Entering, People
  <2> QED
    BY <1>2, <2>1, BeginStep DEF PostTogglePublic
<1>3. ASSUME NEW k \in Users, PostCreateInvite(t, k) PROVE IInv'
  <2>1. [Idle EXCEPT !.step = "invite", !.who = k] \in Job
    BY DEF Idle, Job, Steps, Entering, People
  <2> QED
    BY <1>3, <2>1, BeginStep DEF PostCreateInvite
<1>4. ASSUME NEW k \in Users, PostRevokeInvite(t, k) PROVE IInv'
  <2>1. Max(invites) \in Token
    BY <1>4, LatestLink DEF PostRevokeInvite, IInv
  <2>2. [Idle EXCEPT !.step = "revoke", !.who = k, !.link = Max(invites)] \in Job
    BY <2>1 DEF Idle, Job, Steps, Entering, People
  <2> QED
    BY <1>4, <2>2, BeginStep DEF PostRevokeInvite
<1>5. ASSUME NEW g \in Guests, PostInviteJoin(t, g) PROVE IInv'
  <2>1. [Idle EXCEPT !.step = "redeem", !.who = g] \in Job
    BY DEF Idle, Job, Steps, Entering, People
  <2> QED
    BY <1>5, <2>1, BeginStep DEF PostInviteJoin
<1>6. ASSUME NEW k \in People, PostMessage(t, k) PROVE IInv'
  <2>1. [Idle EXCEPT !.step = "ensure", !.who = k, !.posts = TRUE] \in Job
    BY DEF Idle, Job, Steps, Entering
  <2> QED
    BY <1>6, <2>1, BeginStep DEF PostMessage
<1> QED
  BY <1>1, <1>2, <1>3, <1>4, <1>5, <1>6

-----------------------------------------------------------------------------
(* A goroutine goes on: steps that move nothing but the goroutine.         *)

LEMMA WaitsInv ==
  ASSUME IInv, NEW t \in Threads,
         JoinAgain(t) \/ EnsureMember(t) \/ ToggleRead(t) \/ InviteRead(t) \/ RevokeChecked(t)
  PROVE  IInv'
<1> USE TypeParts DEF IInv
<1>1. begun' \in 0 .. MaxRequests
  BY DEF RestOK, JoinAgain, EnsureMember, ToggleRead, InviteRead, RevokeChecked
<1>2. ToReset(t) = {}
  BY DEF ToReset, JoinAgain, EnsureMember, ToggleRead, InviteRead, RevokeChecked
<1>3. job' \in [Threads -> Job] /\ \A w \in Threads : w # t => job'[w] = job[w]
  <2>1. ASSUME JoinAgain(t) PROVE <1>3!1 /\ <1>3!2
    <3>1. CASE admin = job[t].who
      <4>1. [job[t] EXCEPT !.step = "record", !.to = admin] \in Job
        BY JobFields DEF LiveOK, Job, Steps, Entering
      <4> QED
        BY <2>1, <3>1, <4>1, GoType DEF JoinAgain
    <3>2. CASE admin # job[t].who
      BY <2>1, <3>2, AfterJoinType DEF JoinAgain
    <3> QED
      BY <3>1, <3>2
  <2>2. ASSUME EnsureMember(t) PROVE <1>3!1 /\ <1>3!2
    <3>1. [job[t] EXCEPT !.step = "join", !.sawPublic = public] \in Job
      BY <2>2, JobFields DEF EnsureMember, RestOK, Job, Steps, Entering
    <3>2. "post" \in Steps \ Entering /\ job[t].step \in Entering
      BY <2>2 DEF Steps, Entering, EnsureMember
    <3> QED
      BY <2>2, <3>1, <3>2, GoType, CarryType DEF EnsureMember
  <2>3. ASSUME ToggleRead(t) PROVE <1>3!1 /\ <1>3!2
    <3>1. [job[t] EXCEPT !.step = "publish", !.sawPublic = public] \in Job
      BY JobFields DEF RestOK, Job, Steps, Entering
    <3> QED
      BY <2>3, <3>1, GoType DEF ToggleRead
  <2>4. ASSUME InviteRead(t) PROVE <1>3!1 /\ <1>3!2
    <3>1. CASE invites = {}
      BY <2>4, <3>1, CarryType DEF InviteRead, Steps, Entering
    <3>2. CASE invites # {}
      <4>1. [job[t] EXCEPT !.step = "rotate", !.link = Max(invites)] \in Job
        BY <3>2, JobFields, LatestLink DEF Job, Steps, Entering
      <4> QED
        BY <2>4, <3>2, <4>1, GoType DEF InviteRead
    <3> QED
      BY <3>1, <3>2
  <2>5. ASSUME RevokeChecked(t) PROVE <1>3!1 /\ <1>3!2
    <3>1. "revoked" \in Steps \ Entering
      BY DEF Steps, Entering
    <3> QED
      BY <2>5, <3>1, CarryType, DoneType DEF RevokeChecked
  <2> QED
    BY <2>1, <2>2, <2>3, <2>4, <2>5
<1>4. UNCHANGED <<live, disk, cookies, stray>>
  BY DEF JoinAgain, EnsureMember, ToggleRead, InviteRead, RevokeChecked
<1> QED
  BY <1>1, <1>2, <1>3, <1>4, JobStep

-----------------------------------------------------------------------------
(* The record is written.                                                  *)

LEMMA WritesInv ==
  ASSUME IInv, NEW t \in Threads,
         \/ RecordAdmin(t) \/ AppendChat(t) \/ SetPublic(t)
         \/ InviteRotate(t) \/ InviteMint(t) \/ RevokeInvite(t)
  PROVE  IInv'
<1> USE TypeParts DEF IInv
<1>1. /\ owner \in Users \cup {None} /\ public \in BOOLEAN /\ chat \in BOOLEAN
      /\ minted \in 0 .. MaxInvites /\ invites \subseteq 1 .. minted /\ stray \subseteq Parts
  BY DEF RestOK
<1>2. MaxInvites \in Nat
  BY RoomsConstants
<1>3. CASE RecordAdmin(t)
  <2>1. ToReset(t) = {} /\ owner' \in Users \cup {None} /\ UNCHANGED <<live, cookies, begun>>
    BY <1>1, <1>3, JobFields DEF RecordAdmin, ToReset
  <2>2. job' \in [Threads -> Job] /\ \A w \in Threads : w # t => job'[w] = job[w]
    BY <1>3, AfterJoinType DEF RecordAdmin
  <2>3. stray' \subseteq Parts /\ stray \subseteq stray' /\ (Empty => Dirty' \subseteq Dirty \cup stray')
    BY <1>1, <1>3 DEF RecordAdmin, Written, Dirty, Parts
  <2> QED
    BY <1>1, <1>3, <2>1, <2>2, <2>3, DiskStep DEF RecordAdmin
<1>4. CASE AppendChat(t)
  <2>1. ToReset(t) = {} /\ UNCHANGED <<live, cookies, begun>> /\ chat' \in BOOLEAN
    BY <1>4 DEF AppendChat, ToReset
  <2>2. job' \in [Threads -> Job] /\ \A w \in Threads : w # t => job'[w] = job[w]
    BY <1>4, DoneType DEF AppendChat
  <2>3. stray' \subseteq Parts /\ stray \subseteq stray' /\ (Empty => Dirty' \subseteq Dirty \cup stray')
    BY <1>1, <1>4 DEF AppendChat, Written, Dirty, Parts
  <2> QED
    BY <1>1, <1>4, <2>1, <2>2, <2>3, DiskStep DEF AppendChat
<1>5. CASE SetPublic(t)
  <2>1. ToReset(t) = {} /\ UNCHANGED <<live, cookies, begun>> /\ public' \in BOOLEAN
    BY <1>1, <1>5 DEF SetPublic, ToReset
  <2>2. job' \in [Threads -> Job] /\ \A w \in Threads : w # t => job'[w] = job[w]
    BY <1>5, DoneType DEF SetPublic
  <2>3. stray' \subseteq Parts /\ stray \subseteq stray' /\ (Empty => Dirty' \subseteq Dirty \cup stray')
    <3>1. UNCHANGED <<owner, invites, chat>>
      BY <1>5 DEF SetPublic
    <3>2. CASE public' /\ Written("public")
      <4>1. Dirty' \subseteq Dirty \cup {"public"}
        BY <3>1 DEF Dirty, Parts
      <4>2. stray' \subseteq Parts /\ stray \subseteq stray'
        BY <1>1, <3>2 DEF Written, Parts
      <4>3. Empty => "public" \in stray'
        BY <3>2 DEF Written
      <4> QED
        BY <4>1, <4>2, <4>3
    <3>3. CASE (~public' \/ UNCHANGED public) /\ UNCHANGED stray
      BY <1>1, <3>1, <3>3 DEF Dirty
    <3> QED
      BY <1>5, <3>2, <3>3 DEF SetPublic
  <2> QED
    BY <1>1, <1>5, <2>1, <2>2, <2>3, DiskStep DEF SetPublic
<1>6. CASE InviteRotate(t)
  <2>1. ToReset(t) = {} /\ UNCHANGED <<live, cookies, begun, stray>> /\ invites' \subseteq invites
    BY <1>6 DEF InviteRotate, ToReset
  <2>2. job' \in [Threads -> Job] /\ \A w \in Threads : w # t => job'[w] = job[w]
    BY <1>6, CarryType DEF InviteRotate, Steps, Entering
  <2>3. Empty => Dirty' \subseteq Dirty \cup stray'
    BY <1>6, <2>1 DEF InviteRotate, Dirty
  <2> QED
    BY <1>1, <1>6, <2>1, <2>2, <2>3, DiskStep DEF InviteRotate
<1>7. CASE InviteMint(t)
  <2>1. ToReset(t) = {} /\ UNCHANGED <<live, cookies, begun>>
    BY <1>7 DEF InviteMint, ToReset
  <2>2. job' \in [Threads -> Job] /\ \A w \in Threads : w # t => job'[w] = job[w]
    BY <1>7, DoneType DEF InviteMint
  <2>3. stray' \subseteq Parts /\ stray \subseteq stray' /\ (Empty => Dirty' \subseteq Dirty \cup stray')
    <3>1. UNCHANGED <<owner, public, chat>>
      BY <1>7 DEF InviteMint
    <3>2. CASE Written("invites")
      <4>1. Dirty' \subseteq Dirty \cup {"invites"}
        BY <3>1 DEF Dirty, Parts
      <4>2. stray' \subseteq Parts /\ stray \subseteq stray'
        BY <1>1, <3>2 DEF Written, Parts
      <4>3. Empty => "invites" \in stray'
        BY <3>2 DEF Written
      <4> QED
        BY <4>1, <4>2, <4>3
    <3>3. CASE UNCHANGED <<minted, invites, stray>>
      BY <1>1, <3>1, <3>3 DEF Dirty
    <3> QED
      BY <1>7, <3>2, <3>3 DEF InviteMint
  <2>4. minted' \in 0 .. MaxInvites /\ invites' \subseteq 1 .. minted'
    <3>1. CASE minted' = minted + 1 /\ invites' = invites \cup {minted'} /\ minted < MaxInvites
      BY <1>1, <1>2, <3>1
    <3>2. CASE UNCHANGED <<minted, invites>>
      BY <1>1, <3>2
    <3> QED
      BY <1>7, <3>1, <3>2 DEF InviteMint
  <2> QED
    BY <1>1, <1>7, <2>1, <2>2, <2>3, <2>4, DiskStep DEF InviteMint
<1>8. CASE RevokeInvite(t)
  <2>1. ToReset(t) = {} /\ UNCHANGED <<live, cookies, begun, stray>> /\ invites' \subseteq invites
    BY <1>8 DEF RevokeInvite, ToReset
  <2>2. job' \in [Threads -> Job] /\ \A w \in Threads : w # t => job'[w] = job[w]
    BY <1>8, DoneType DEF RevokeInvite
  <2>3. Empty => Dirty' \subseteq Dirty \cup stray'
    BY <1>8, <2>1 DEF RevokeInvite, Dirty
  <2> QED
    BY <1>1, <1>8, <2>1, <2>2, <2>3, DiskStep DEF RevokeInvite
<1> QED
  BY <1>3, <1>4, <1>5, <1>6, <1>7, <1>8

-----------------------------------------------------------------------------
(* The live room moves.                                                    *)

\* Two states of the live room in a row that both fit the invariant, with the
\* room occupied afterwards.
LEMMA EntersInv ==
  ASSUME IInv, NEW t \in Threads, JoinAsAdmin(t) \/ JoinStraight(t) \/ JoinQueue(t)
  PROVE  IInv'
<1> USE TypeParts DEF IInv
<1> DEFINE k == job[t].who
<1>1. /\ MayEnter(t) /\ k \notin members
      /\ Cardinality(members) < MaxParticipants
  BY DEF JoinAsAdmin, JoinStraight, JoinQueue, MayEnter
<1>2. k \in People \cup {None} /\ cookies \subseteq Guests /\ begun \in 0 .. MaxRequests
  BY JobFields DEF RestOK
<1>3. CASE JoinAsAdmin(t)
  <2>1. k \in Users /\ k \in People /\ Admit(k) /\ Arrive(k) /\ admin' = k
    BY <1>3 DEF JoinAsAdmin, People
  <2>2. LiveOK' /\ AdminOfRoom' /\ ~Empty'
    <3> HIDE DEF k
    <3>1. k # None
      BY <2>1, RoomsConstants DEF People
    <3> QED
      BY <1>1, <2>1, <3>1, AdmitType, ArriveType DEF LiveOK, AdminOfRoom, Empty
  <2>3. job' \in [Threads -> Job]
    <3>1. [job[t] EXCEPT !.step = "record", !.to = job[t].who] \in Job
      BY <2>1, JobFields DEF Job, Steps, Entering
    <3> QED
      BY <1>3, <3>1, GoType DEF JoinAsAdmin
  <2> QED
    BY <1>2, <1>3, <2>2, <2>3, LiveStep DEF JoinAsAdmin
<1>4. CASE JoinStraight(t)
  <2>1. Admit(k) /\ Arrive(k) /\ admin' = admin /\ (admin # None \/ k \in Guests)
    BY <1>4 DEF JoinStraight
  <2>2. k \in People
    BY <1>1, JobFields DEF MayEnter, Entering
  <2>3. LiveOK' /\ AdminOfRoom' /\ ~Empty'
    <3>1. admin' = None => k \notin Users
      BY <2>1, RoomsConstants
    <3> HIDE DEF k
    <3> QED
      BY <1>1, <2>1, <2>2, <3>1, AdmitType, ArriveType DEF LiveOK, AdminOfRoom, Empty
  <2>4. job' \in [Threads -> Job]
    BY <1>4, AfterJoinType DEF JoinStraight
  <2>5. cookies' \subseteq Guests
    BY <1>2, <1>4, JobFields DEF JoinStraight
  <2> QED
    BY <1>2, <1>4, <2>3, <2>4, <2>5, LiveStep DEF JoinStraight
<1>5. CASE JoinQueue(t)
  <2>1. /\ k \in Users /\ k \in People /\ Arrive(k) /\ pending' = pending \cup {k}
        /\ UNCHANGED <<admin, members, silent, disk, cookies, begun, stray>>
    BY <1>5 DEF JoinQueue, People
  <2>2. LiveOK' /\ AdminOfRoom' /\ ~Empty'
    <3> HIDE DEF k
    <3> QED
      BY <1>1, <2>1, ArriveType DEF LiveOK, AdminOfRoom, Empty
  <2>3. job' \in [Threads -> Job]
    BY <1>5, AfterJoinType DEF JoinQueue
  <2> QED
    BY <1>2, <2>1, <2>2, <2>3, LiveStep
<1> QED
  BY <1>3, <1>4, <1>5

\* A caller who finds the room full is forgotten at its door.
LEMMA JoinFullInv ==
  ASSUME IInv, NEW t \in Threads, JoinFull(t)
  PROVE  IInv'
<1> USE TypeParts DEF IInv
<1> DEFINE k == job[t].who
<1>1. /\ Cardinality(members) >= MaxParticipants
      /\ pending' = pending \ {k} /\ before' = Forget({k})
      /\ UNCHANGED <<admin, members, silent, disk, cookies, begun, stray>>
  BY DEF JoinFull
<1>2. LiveOK' /\ AdminOfRoom'
  <2> HIDE DEF k
  <2> QED
    BY <1>1, ForgetType DEF LiveOK, AdminOfRoom
<1>3. ~Empty'
  BY <1>1, FS_EmptySet, RoomsConstants DEF LiveOK, Empty
<1>4. job' \in [Threads -> Job]
  BY DoneType DEF JoinFull
<1>5. cookies' \subseteq Guests /\ begun' \in 0 .. MaxRequests /\ UNCHANGED <<disk, stray>>
  BY <1>1 DEF RestOK
<1> QED
  BY <1>2, <1>3, <1>4, <1>5, LiveStep

LEMMA ApproveInv ==
  ASSUME IInv, NEW k \in Users, NEW target \in Users, Approve(k, target)
  PROVE  IInv'
<1> USE TypeParts DEF IInv
<1>1. target \in People /\ target \notin members /\ Admit(target)
  BY DEF Approve, LiveOK, People
<1>2. LiveOK' /\ AdminOfRoom' /\ ~Empty'
  <2>1. admin' = admin /\ admin # None /\ before' = before /\ Cardinality(members) < MaxParticipants
    BY RoomsConstants DEF Approve
  <2> QED
    BY <1>1, <2>1, AdmitType DEF LiveOK, AdminOfRoom, Empty
<1>3. job' \in [Threads -> Job] /\ cookies' \subseteq Guests /\ begun' \in 0 .. MaxRequests
  BY DEF RestOK, Approve
<1> QED
  BY <1>2, <1>3, LiveStep DEF Approve

LEMMA DeclineInv ==
  ASSUME IInv, NEW k \in Users, NEW target \in Users, Decline(k, target)
  PROVE  IInv'
<1> USE TypeParts DEF IInv
<1>1. /\ admin # None /\ pending' = pending \ {target} /\ before' = Forget({target})
      /\ UNCHANGED <<admin, members, silent, disk, cookies, job, begun, stray>>
  BY RoomsConstants DEF Decline
<1>2. LiveOK' /\ AdminOfRoom' /\ ~Empty'
  BY <1>1, ForgetType DEF LiveOK, AdminOfRoom, Empty
<1>3. job' \in [Threads -> Job] /\ cookies' \subseteq Guests /\ begun' \in 0 .. MaxRequests
  BY <1>1 DEF RestOK
<1> QED
  BY <1>1, <1>2, <1>3, LiveStep

LEMMA PromoteInv ==
  ASSUME IInv, NEW t \in Workers, NEW k \in Users, NEW target \in Users, Promote(t, k, target)
  PROVE  IInv'
<1> USE TypeParts DEF IInv
<1> DEFINE j == [Idle EXCEPT !.step = "record", !.who = k, !.to = target]
<1>1. t \in Threads /\ j \in Job
  BY DEF Idle, Job, Steps, Entering, People, Threads
<1>2. Begin(t, j) /\ admin' = target /\ target \in members /\ admin # None
      /\ UNCHANGED <<members, pending, before, silent, disk, cookies, stray>>
  BY RoomsConstants DEF Promote
<1>3. LiveOK' /\ AdminOfRoom' /\ ~Empty'
  BY <1>2, RoomsConstants DEF LiveOK, AdminOfRoom, Empty
<1>4. job' \in [Threads -> Job] /\ cookies' \subseteq Guests /\ begun' \in 0 .. MaxRequests
  <2> HIDE DEF j
  <2>1. Go(t, j)
    BY <1>2 DEF Begin
  <2>2. begun < MaxRequests /\ begun' = begun + 1
    BY <1>2 DEF Begin
  <2> QED
    BY <1>1, <1>2, <2>1, <2>2, GoType, RoomsConstants DEF RestOK
<1> QED
  BY <1>2, <1>3, <1>4, LiveStep

LEMMA SilencesInv ==
  ASSUME IInv,
         \/ \E k \in People : PostPing(k) \/ FallSilent(k)
         \/ \E t \in Threads : PostChecked(t)
  PROVE  IInv'
<1> USE TypeParts DEF IInv
<1>1. ASSUME NEW k \in People, PostPing(k) \/ FallSilent(k) PROVE IInv'
  <2>1. silent' \subseteq members
    BY <1>1 DEF PostPing, FallSilent, LiveOK
  <2>2. UNCHANGED <<admin, members, pending, before, disk, cookies, job, begun, stray>>
    BY <1>1 DEF PostPing, FallSilent
  <2>3. Janitor \in Threads
    BY DEF Threads
  <2>4. LiveOK' /\ AdminOfRoom' /\ Empty' = Empty
    BY <2>1, <2>2 DEF LiveOK, AdminOfRoom, Empty
  <2>5. RestOK'
    BY <2>2 DEF RestOK, disk
  <2>6. Dirty' = Dirty /\ \A t \in Threads : ToReset(t)' = ToReset(t)
    BY <2>2 DEF Dirty, disk, ToReset
  <2>7. EmptyIsDefault'
    BY <2>2, <2>4, <2>6 DEF EmptyIsDefault
  <2>8. TypeOK'
    BY <2>4, <2>5 DEF TypeOK, LiveOK, RestOK
  <2> QED
    BY <2>4, <2>7, <2>8
<1>2. ASSUME NEW t \in Threads, PostChecked(t) PROVE IInv'
  <2>1. silent' \subseteq members /\ ToReset(t) = {}
    BY <1>2 DEF PostChecked, LiveOK, ToReset
  <2>2. job' \in [Threads -> Job] /\ \A w \in Threads : w # t => job'[w] = job[w]
    <3>1. "append" \in Steps \ Entering
      BY DEF Steps, Entering
    <3> QED
      BY <1>2, <3>1, CarryType, DoneType DEF PostChecked
  <2> QED
    BY <1>2, <2>1, <2>2, SilenceStep DEF PostChecked
<1> QED
  BY <1>1, <1>2

-----------------------------------------------------------------------------
(* Going away, the reset, and a crash.                                     *)

\* People go: either the room is still occupied or goroutine t, which was idle,
\* takes up the whole reset.
LEMMA GoneStep ==
  ASSUME IInv, NEW S \in SUBSET People, Drop(S), NEW t \in Threads,
         job' \in [Threads -> Job],
         Empty' => job'[t].step = "resetAdmin",
         cookies' \subseteq Guests, begun' \in 0 .. MaxRequests, UNCHANGED <<disk, stray>>
  PROVE  IInv'
<1> USE TypeParts DEF IInv
<1>1. LiveOK' /\ AdminOfRoom'
  BY DropKeeps
<1>2. RestOK'
  BY DEF RestOK, disk
<1>3. EmptyIsDefault'
  <2>1. Empty' => ToReset(t)' = Parts
    BY DEF ToReset
  <2>2. Dirty' \subseteq Parts
    BY DEF Dirty
  <2> QED
    BY <2>1, <2>2 DEF EmptyIsDefault
<1>4. TypeOK'
  BY <1>1, <1>2 DEF TypeOK, LiveOK, RestOK
<1> QED
  BY <1>1, <1>3, <1>4

LEMMA LeaveInv ==
  ASSUME IInv, NEW t \in Workers, NEW k \in People, Leave(t, k)
  PROVE  IInv'
<1> USE TypeParts DEF IInv
<1> DEFINE reset == [Idle EXCEPT !.step = "resetAdmin", !.who = k]
           heir  == [Idle EXCEPT !.step = "record", !.who = k, !.to = admin']
           j == IF Vacated(members', pending') THEN reset
                ELSE IF admin = k /\ admin' # None THEN heir ELSE Idle
<1>1. Drop({k}) /\ Begin(t, j) /\ cookies' = cookies \ {k} /\ UNCHANGED <<disk, stray>>
  BY DEF Leave
<1>2. t \in Threads
  BY DEF Threads
<1>3. admin' \in Users \cup {None}
  BY <1>1, DropKeeps DEF LiveOK
<1>4. j \in Job
  <2>1. reset \in Job /\ heir \in Job
    BY <1>3 DEF Idle, Job, Steps, Entering
  <2> HIDE DEF reset, heir
  <2> QED
    BY <2>1, IdleIsJob
<1>5. Empty' => j.step = "resetAdmin"
  BY DEF Empty, Vacated
<1>6. job' \in [Threads -> Job] /\ job'[t] = j
  <2> HIDE DEF j
  <2>1. Go(t, j)
    BY <1>1 DEF Begin
  <2> QED
    BY <1>2, <1>4, <2>1, GoType
<1>7. begun' \in 0 .. MaxRequests
  <2>1. begun < MaxRequests /\ begun' = begun + 1 /\ MaxRequests \in Nat /\ begun \in Nat
    BY <1>1, RoomsConstants DEF Begin, RestOK
  <2> QED
    BY <2>1
<1>8. cookies' \subseteq Guests
  BY <1>1 DEF RestOK
<1> HIDE DEF j
<1> QED
  BY <1>1, <1>2, <1>5, <1>6, <1>7, <1>8, GoneStep

LEMMA SweepInv ==
  ASSUME IInv, Sweep
  PROVE  IInv'
<1> USE TypeParts DEF IInv
<1>1. Janitor \in Threads /\ silent \in SUBSET People /\ Drop(silent)
  BY DEF Threads, LiveOK, Sweep
<1>2. job' \in [Threads -> Job] /\ (Empty' => job'[Janitor].step = "resetAdmin")
  <2> DEFINE reset == [Idle EXCEPT !.step = "resetAdmin"]
  <2>1. reset \in Job /\ reset.step = "resetAdmin"
    BY DEF Idle, Job, Steps, Entering
  <2>2. CASE Vacated(members', pending')
    <3>1. Go(Janitor, reset)
      BY <2>2 DEF Sweep
    <3> HIDE DEF reset
    <3> QED
      BY <1>1, <2>1, <3>1, GoType
  <2>3. CASE ~Vacated(members', pending')
    <3>1. job' = job
      BY <2>3 DEF Sweep
    <3> QED
      BY <2>3, <3>1 DEF Vacated, Empty, RestOK
  <2> QED
    BY <2>2, <2>3
<1>3. cookies' \subseteq Guests /\ begun' \in 0 .. MaxRequests /\ UNCHANGED <<disk, stray>>
  BY DEF Sweep, RestOK
<1> QED
  BY <1>1, <1>2, <1>3, GoneStep

LEMMA ResetsInv ==
  ASSUME IInv, NEW t \in Threads,
         ResetAdmin(t) \/ ResetPublic(t) \/ RevokeAllInvites(t) \/ ArchiveChat(t)
  PROVE  IInv'
<1> USE TypeParts DEF IInv
<1>1. /\ owner \in Users \cup {None} /\ public \in BOOLEAN /\ chat \in BOOLEAN
      /\ invites \subseteq 1 .. minted
  BY DEF RestOK
<1>2. CASE ResetAdmin(t)
  <2>1. /\ UNCHANGED <<live, minted, cookies, begun, public, chat, invites>>
        /\ owner' \in {owner, None}
    BY <1>2 DEF ResetAdmin
  <2>2. /\ job' \in [Threads -> Job] /\ job'[t].step = "resetPublic"
        /\ \A w \in Threads : w # t => job'[w] = job[w]
    BY <1>2, CarryType DEF ResetAdmin, Steps, Entering
  <2>3. ToReset(t) \ {"owner"} \subseteq ToReset(t)'
    BY <1>2, <2>2 DEF ResetAdmin, ToReset, Parts
  <2>4. Dirty' \subseteq Dirty
    BY <2>1 DEF Dirty
  <2>5. ("owner" \notin Dirty' /\ Restored("owner")) \/ LeftAsIs("owner")
    BY <1>2 DEF ResetAdmin, Dirty
  <2>6. "owner" \in Parts /\ owner' \in Users \cup {None}
    BY <1>1, <2>1 DEF Parts
  <2> QED
    BY <1>1, <2>1, <2>2, <2>3, <2>4, <2>5, <2>6, ResetStep
<1>3. CASE ResetPublic(t)
  <2>1. /\ UNCHANGED <<live, minted, cookies, begun, owner, chat, invites>>
        /\ public' \in {public, FALSE}
    BY <1>3 DEF ResetPublic
  <2>2. /\ job' \in [Threads -> Job] /\ job'[t].step = "resetInvites"
        /\ \A w \in Threads : w # t => job'[w] = job[w]
    BY <1>3, CarryType DEF ResetPublic, AfterPublic, Steps, Entering
  <2>3. ToReset(t) \ {"public"} \subseteq ToReset(t)'
    BY <1>3, <2>2 DEF ResetPublic, ToReset, Parts
  <2>4. Dirty' \subseteq Dirty
    BY <1>1, <2>1 DEF Dirty
  <2>5. ("public" \notin Dirty' /\ Restored("public")) \/ LeftAsIs("public")
    BY <1>3 DEF ResetPublic, Dirty
  <2>6. "public" \in Parts /\ public' \in BOOLEAN
    BY <1>1, <2>1 DEF Parts
  <2> QED
    BY <1>1, <2>1, <2>2, <2>3, <2>4, <2>5, <2>6, ResetStep
<1>4. CASE RevokeAllInvites(t)
  <2>1. /\ UNCHANGED <<live, minted, cookies, begun, owner, public, chat>>
        /\ invites' \in {invites, {}}
    BY <1>4 DEF RevokeAllInvites
  <2>2. /\ job' \in [Threads -> Job] /\ job'[t].step = "resetChat"
        /\ \A w \in Threads : w # t => job'[w] = job[w]
    BY <1>4, CarryType DEF RevokeAllInvites, Steps, Entering
  <2>3. ToReset(t) \ {"invites"} \subseteq ToReset(t)'
    BY <1>4, <2>2 DEF RevokeAllInvites, ToReset, Parts
  <2>4. Dirty' \subseteq Dirty
    BY <2>1 DEF Dirty
  <2>5. ("invites" \notin Dirty' /\ Restored("invites")) \/ LeftAsIs("invites")
    BY <1>4 DEF RevokeAllInvites, Dirty
  <2>6. "invites" \in Parts /\ invites' \subseteq 1 .. minted
    BY <1>1, <2>1 DEF Parts
  <2> QED
    BY <1>1, <2>1, <2>2, <2>3, <2>4, <2>5, <2>6, ResetStep
<1>5. CASE ArchiveChat(t)
  <2>1. /\ UNCHANGED <<live, minted, cookies, begun, owner, public, invites>>
        /\ chat' \in {chat, FALSE}
    BY <1>5 DEF ArchiveChat
  <2>2. /\ job' \in [Threads -> Job]
        /\ \A w \in Threads : w # t => job'[w] = job[w]
    BY <1>5, DoneType DEF ArchiveChat
  <2>3. ToReset(t) \ {"chat"} \subseteq ToReset(t)'
    BY <1>5 DEF ArchiveChat, ToReset, Parts
  <2>4. Dirty' \subseteq Dirty
    BY <1>1, <2>1 DEF Dirty
  <2>5. ("chat" \notin Dirty' /\ Restored("chat")) \/ LeftAsIs("chat")
    BY <1>5 DEF ArchiveChat, Dirty
  <2>6. "chat" \in Parts /\ chat' \in BOOLEAN
    BY <1>1, <2>1 DEF Parts
  <2> QED
    BY <1>1, <2>1, <2>2, <2>3, <2>4, <2>5, <2>6, ResetStep
<1> QED
  BY <1>2, <1>3, <1>4, <1>5

LEMMA CrashInv ==
  ASSUME IInv, Crash
  PROVE  IInv'
<1> USE TypeParts DEF IInv
<1>1. LiveOK' /\ AdminOfRoom'
  <2>1. IsFiniteSet({}) /\ Cardinality({}) = 0
    BY FS_EmptySet
  <2> QED
    BY <2>1, RoomsConstants DEF Crash, LiveOK, AdminOfRoom
<1>2. RestOK'
  <2>1. job' \in [Threads -> Job]
    BY IdleIsJob DEF Crash
  <2>2. stray' \subseteq Parts
    BY DEF Crash, Dirty
  <2> QED
    BY <2>1, <2>2 DEF Crash, RestOK, disk
<1>3. EmptyIsDefault'
  BY DEF Crash, Dirty, disk, EmptyIsDefault
<1>4. TypeOK'
  BY <1>1, <1>2 DEF TypeOK, LiveOK, RestOK
<1> QED
  BY <1>1, <1>3, <1>4

-----------------------------------------------------------------------------
(* The theorems.                                                           *)

LEMMA ProceedInv ==
  ASSUME IInv, NEW t \in Threads, Proceed(t)
  PROVE  IInv'
<1>1. CASE JoinAgain(t) \/ EnsureMember(t) \/ ToggleRead(t) \/ InviteRead(t) \/ RevokeChecked(t)
  BY <1>1, WaitsInv
<1>2. CASE \/ RecordAdmin(t) \/ AppendChat(t) \/ SetPublic(t)
           \/ InviteRotate(t) \/ InviteMint(t) \/ RevokeInvite(t)
  BY <1>2, WritesInv
<1>3. CASE JoinAsAdmin(t) \/ JoinStraight(t) \/ JoinQueue(t)
  BY <1>3, EntersInv
<1>4. CASE JoinFull(t)
  BY <1>4, JoinFullInv
<1>5. CASE PostChecked(t)
  BY <1>5, SilencesInv
<1>6. CASE ResetAdmin(t) \/ ResetPublic(t) \/ RevokeAllInvites(t) \/ ArchiveChat(t)
  BY <1>6, ResetsInv
<1> QED
  BY <1>1, <1>2, <1>3, <1>4, <1>5, <1>6 DEF Proceed

LEMMA InvariantStep == IInv /\ [Next]_vars => IInv'
<1> SUFFICES ASSUME IInv, [Next]_vars PROVE IInv'
  OBVIOUS
<1>1. ASSUME NEW t \in Workers, Request(t) PROVE IInv'
  <2>1. CASE \E k \in Users, target \in Users : Promote(t, k, target)
    BY <2>1, PromoteInv
  <2>2. CASE \E k \in People : Leave(t, k)
    BY <2>2, LeaveInv
  <2>3. CASE \/ \E k \in Users : \/ PostJoin(t, k) \/ PostTogglePublic(t, k)
                                 \/ PostCreateInvite(t, k) \/ PostRevokeInvite(t, k)
             \/ \E g \in Guests : PostInviteJoin(t, g)
             \/ \E k \in People : PostMessage(t, k)
    BY <2>3, BeginsInv
  <2> QED
    BY <1>1, <2>1, <2>2, <2>3 DEF Request
<1>2. ASSUME NEW t \in Threads, Proceed(t) PROVE IInv'
  BY <1>2, ProceedInv
<1>3. CASE \E k \in People : PostPing(k) \/ FallSilent(k)
  BY <1>3, SilencesInv
<1>4. CASE \E k \in Users, target \in Users : Approve(k, target) \/ Decline(k, target)
  BY <1>4, ApproveInv, DeclineInv
<1>5. CASE Sweep
  BY <1>5, SweepInv
<1>6. CASE Crash
  BY <1>6, CrashInv
<1>7. CASE UNCHANGED vars
  <2>1. UNCHANGED <<live, disk, cookies, job, begun, stray>>
    BY <1>7 DEF vars
  <2>2. LiveOK' /\ AdminOfRoom' /\ Empty' = Empty
    BY <2>1, SameLive, TypeParts DEF IInv
  <2>3. RestOK'
    BY <2>1, TypeParts DEF IInv, RestOK, disk
  <2>4. Dirty' = Dirty /\ \A t \in Threads : ToReset(t)' = ToReset(t)
    BY <2>1 DEF Dirty, disk, ToReset
  <2>5. EmptyIsDefault'
    BY <2>1, <2>2, <2>4 DEF IInv, EmptyIsDefault
  <2>6. TypeOK'
    BY <2>2, <2>3 DEF TypeOK, LiveOK, RestOK
  <2> QED
    BY <2>2, <2>5, <2>6 DEF IInv
<1> QED
  BY <1>1, <1>2, <1>3, <1>4, <1>5, <1>6, <1>7 DEF Next

LEMMA Invariant == Spec => []IInv
  BY InitInv, InvariantStep, PTL DEF Spec

\* Rooms is type-correct in every state, and a room never holds more than
\* MaxParticipants members (State.Join and State.Approve check under the lock).
THEOREM TypeCorrect == Spec => []TypeOK
<1>1. IInv => TypeOK
  BY DEF IInv
<1> QED
  BY <1>1, Invariant, PTL

\* However joins, approvals, promotions, departures and evictions interleave, the
\* live admin is a user in the room, and there is one while any user is in it.
THEOREM AdminStaysInRoom == Spec => []AdminOfRoom
<1>1. IInv => AdminOfRoom
  BY DEF IInv
<1> QED
  BY <1>1, Invariant, PTL

\* An empty room is at its default (private, no admin, no links, no chat) but for
\* what resetRoom is still about to restore and what was written after the room
\* had emptied or a failed statement or crash left.
THEOREM EmptyRoomIsDefault == Spec => []EmptyIsDefault
<1>1. IInv => EmptyIsDefault
  BY DEF IInv
<1> QED
  BY <1>1, Invariant, PTL
=============================================================================
