-------------------------------- MODULE Rooms ---------------------------------
(***************************************************************************)
(* An audio/video room (internal/rooms): who is in it, who waits at its    *)
(* door and who administers it lives in memory under one lock; whether it  *)
(* is public, its share links, its chat and the recorded admin live in the *)
(* database. A request decides under the lock and writes the database      *)
(* after it has let go of it; when the last participant leaves, or the     *)
(* janitor evicts them, the room is put back to its default in four        *)
(* statements, while other requests run.                                   *)
(***************************************************************************)
EXTENDS Integers, FiniteSets, FiniteSetsExt

CONSTANTS
  Users,           \* logged-in members of the community
  Guests,          \* identities minted for visitors of a share link
  None,            \* nobody
  Workers,         \* goroutines that serve requests
  Janitor,         \* the goroutine that evicts silent members
  MaxParticipants, \* members a room holds (16)
  MaxInvites,      \* bound: share links ever created
  MaxRequests      \* bound: requests ever begun

ASSUME RoomsConstants ==
  /\ Users \cap Guests = {} /\ None \notin Users \cup Guests
  /\ Janitor \notin Workers
  /\ MaxParticipants \in Nat \ {0}
  /\ {MaxInvites, MaxRequests} \subseteq Nat

VARIABLES
  admin,    \* liveRoom.Admin
  members,  \* keys of liveRoom.Members
  pending,  \* keys of liveRoom.Pending
  before,   \* JoinedAt: <<a, b>> when a came before b
  silent,   \* members whose LastSeen is older than staleAfter
  owner,    \* rooms.admin_user_id
  public,   \* rooms.is_public
  invites,  \* room_invites that are not revoked
  minted,   \* share links created so far
  chat,     \* room_chat has rows of this room
  cookies,  \* guests whose session still carries their identity
  job,      \* what each goroutine is about to do
  begun,    \* requests so far, against MaxRequests
  stray     \* history: parts of the record written, or left, in an empty room

live == <<admin, members, pending, before, silent>>
disk == <<owner, public, invites, minted, chat>>
vars == <<live, disk, cookies, job, begun, stray>>

People  == Users \cup Guests
Threads == Workers \cup {Janitor}
Token   == 1 .. MaxInvites

\* A goroutine's next step; what it carries from the steps before.
Steps == {"idle", "ensure", "join", "redeem", "record", "post", "append",
          "toggle", "publish", "invite", "rotate", "mint", "revoke", "revoked",
          "resetAdmin", "resetPublic", "resetInvites", "resetChat"}
Entering == {"ensure", "join", "redeem"}
Job == {j \in [step : Steps, who : People \cup {None}, sawPublic : BOOLEAN,
               posts : BOOLEAN, to : Users \cup {None}, link : Token \cup {0}] :
          /\ j.step \in Entering => j.who \in People
          /\ j.step = "redeem" => j.who \in Guests}

Idle == [step |-> "idle", who |-> None, sawPublic |-> FALSE, posts |-> FALSE,
         to |-> None, link |-> 0]

\* The parts of the record that a reset restores, and those not at their default.
Parts == {"owner", "public", "invites", "chat"}
Dirty == {p \in Parts : \/ p = "owner" /\ owner # None
                        \/ p = "public" /\ public
                        \/ p = "invites" /\ invites # {}
                        \/ p = "chat" /\ chat}

TypeOK ==
  /\ admin \in Users \cup {None}
  /\ members \subseteq People
  /\ IsFiniteSet(members) /\ Cardinality(members) <= MaxParticipants
  /\ pending \subseteq Users \ members
  /\ before \subseteq People \X People
  /\ silent \subseteq members
  /\ owner \in Users \cup {None} /\ public \in BOOLEAN /\ chat \in BOOLEAN
  /\ minted \in 0 .. MaxInvites /\ invites \subseteq 1 .. minted
  /\ cookies \subseteq Guests
  /\ job \in [Threads -> Job]
  /\ begun \in 0 .. MaxRequests
  /\ stray \subseteq Parts

Init ==
  /\ admin = None /\ members = {} /\ pending = {} /\ before = {} /\ silent = {}
  /\ owner = None /\ public = FALSE /\ invites = {} /\ minted = 0 /\ chat = FALSE
  /\ cookies = {}
  /\ job = [t \in Threads |-> Idle]
  /\ begun = 0
  /\ stray = {}

Empty    == members = {} /\ pending = {}
Callers  == Users \cup cookies
Go(t, j) == job' = [job EXCEPT ![t] = j]
Done(t)  == Go(t, Idle)

\* A request arrives and is given a goroutine.
Begin(t, j) ==
  /\ t \in Workers /\ job[t] = Idle
  /\ begun < MaxRequests /\ begun' = begun + 1
  /\ Go(t, j)

\* The record is written outside the lock. What is written while the room is
\* empty, no reset that has already passed will clear.
Written(part) == stray' = IF Empty THEN stray \cup {part} ELSE stray

-----------------------------------------------------------------------------
(* The live state.                                                         *)

Forget(S) == {p \in before : p[1] \notin S /\ p[2] \notin S}

\* JoinedAt is now: everyone else came before k.
Arrive(k) == before' = Forget({k}) \cup {<<x, k>> : x \in (members \cup pending) \ {k}}

\* Mutant: the role is not handed on.
HeirsNobody(S) == {None}

\* Who of S becomes admin when the admin goes: the member who came first.
\* Guests never do.
Heirs(S) ==
  IF S \cap Users = {} THEN {None}
  ELSE {u \in S \cap Users : \A v \in S \cap Users : <<v, u>> \notin before}

\* delete() of S from every map of the room; the admin role moves on.
Drop(S) ==
  /\ members' = members \ S
  /\ pending' = pending \ S
  /\ silent' = silent \ S
  /\ before' = Forget(S)
  /\ admin' \in IF admin \in S THEN Heirs(members \ S) ELSE {admin}

Admit(k) ==
  /\ members' = members \cup {k}
  /\ pending' = pending \ {k}
  /\ silent' = silent \ {k}

\* What follows a join that did not take the admin role: a post goes on to its
\* message, a plain join is over.
AfterJoin(t) ==
  IF job[t].posts THEN Go(t, [job[t] EXCEPT !.step = "post"]) ELSE Done(t)

\* JoinAuth and GetRoom read is_public and only then take the lock.
PostJoin(t, k) ==
  /\ Begin(t, [Idle EXCEPT !.step = "join", !.who = k, !.sawPublic = public])
  /\ UNCHANGED <<live, disk, cookies, stray>>

\* State.Join of someone who is in already: the role is recorded again.
JoinAgain(t) ==
  /\ job[t].step \in {"join", "redeem"} /\ job[t].who \in members
  /\ IF admin = job[t].who
     THEN Go(t, [job[t] EXCEPT !.step = "record", !.to = admin])
     ELSE AfterJoin(t)
  /\ UNCHANGED <<live, disk, cookies, begun, stray>>

\* The room is full: the caller also loses their place in the queue.
JoinFull(t) ==
  /\ job[t].step \in {"join", "redeem"} /\ job[t].who \notin members
  /\ Cardinality(members) >= MaxParticipants
  /\ pending' = pending \ {job[t].who}
  /\ before' = Forget({job[t].who})
  /\ Done(t)
  /\ UNCHANGED <<admin, members, silent, disk, cookies, begun, stray>>

\* Mutant: the cap is not looked at.
MayEnterAlways(t) ==
  job[t].step \in {"join", "redeem"} /\ job[t].who \notin members

MayEnter(t) ==
  /\ job[t].step \in {"join", "redeem"} /\ job[t].who \notin members
  /\ Cardinality(members) < MaxParticipants

\* A room without an admin takes the first user who joins, private or not.
JoinAsAdmin(t) ==
  /\ MayEnter(t) /\ admin = None /\ job[t].who \in Users
  /\ admin' = job[t].who
  /\ Admit(job[t].who) /\ Arrive(job[t].who)
  /\ Go(t, [job[t] EXCEPT !.step = "record", !.to = job[t].who])
  /\ UNCHANGED <<disk, cookies, begun, stray>>

\* Public when the caller looked, or the caller holds a link or its session. A
\* guest's session is stored once the guest is in.
JoinStraight(t) ==
  /\ MayEnter(t) /\ (admin # None \/ job[t].who \in Guests)
  /\ job[t].sawPublic \/ job[t].who \in Guests
  /\ Admit(job[t].who) /\ Arrive(job[t].who)
  /\ cookies' = IF job[t].step = "redeem" THEN cookies \cup {job[t].who} ELSE cookies
  /\ AfterJoin(t)
  /\ UNCHANGED <<admin, disk, begun, stray>>

\* A private room: wait for the admin. Guests never come without a link, so the
\* refusal for want of an admin cannot happen.
JoinQueue(t) ==
  /\ MayEnter(t) /\ admin # None /\ job[t].who \in Users /\ ~job[t].sawPublic
  /\ pending' = pending \cup {job[t].who}
  /\ Arrive(job[t].who)
  /\ AfterJoin(t)
  /\ UNCHANGED <<admin, members, silent, disk, cookies, begun, stray>>

\* JoinGuest: the link is looked up, then the lock is taken.
PostInviteJoin(t, g) ==
  /\ invites # {}
  /\ g \notin cookies \cup members \cup {job[w].who : w \in Workers}
  /\ Begin(t, [Idle EXCEPT !.step = "redeem", !.who = g])
  /\ UNCHANGED <<live, disk, cookies, stray>>

\* Repo.SetAdmin; its error is dropped.
RecordAdmin(t) ==
  /\ job[t].step = "record"
  /\ \/ owner' = job[t].to /\ Written("owner")
     \/ UNCHANGED <<owner, stray>>
  /\ AfterJoin(t)
  /\ UNCHANGED <<live, public, invites, minted, chat, cookies, begun>>

PostPing(k) ==
  /\ k \in silent \cap Callers
  /\ silent' = silent \ {k}
  /\ UNCHANGED <<admin, members, pending, before, disk, cookies, job, begun, stray>>

\* A minute passes without a ping of k.
FallSilent(k) ==
  /\ k \in members \ silent
  /\ silent' = silent \cup {k}
  /\ UNCHANGED <<admin, members, pending, before, disk, cookies, job, begun, stray>>

Approve(k, target) ==
  /\ admin = k /\ target \in pending
  /\ Cardinality(members) < MaxParticipants
  /\ Admit(target)
  /\ UNCHANGED <<admin, before, disk, cookies, job, begun, stray>>

Decline(k, target) ==
  /\ admin = k /\ target \in pending
  /\ pending' = pending \ {target}
  /\ before' = Forget({target})
  /\ UNCHANGED <<admin, members, silent, disk, cookies, job, begun, stray>>

Promote(t, k, target) ==
  /\ admin = k /\ target \in members \cap Users
  /\ Begin(t, [Idle EXCEPT !.step = "record", !.who = k, !.to = target])
  /\ admin' = target
  /\ UNCHANGED <<members, pending, before, silent, disk, cookies, stray>>

\* Mutant: only the caller's own place in the room is looked at.
VacatedNever(m, p) == FALSE

\* The room has just lost its last participant.
Vacated(m, p) == m = {} /\ p = {}

\* Service.Leave. What is left to write depends on who is left: the reset, a new
\* admin, or nothing. A guest's session is dropped.
Leave(t, k) ==
  /\ k \in Callers
  /\ Drop({k})
  /\ Begin(t, IF Vacated(members', pending') THEN [Idle EXCEPT !.step = "resetAdmin", !.who = k]
              ELSE IF admin = k /\ admin' # None
              THEN [Idle EXCEPT !.step = "record", !.who = k, !.to = admin']
              ELSE Idle)
  /\ cookies' = cookies \ {k}
  /\ UNCHANGED <<disk, stray>>

\* SweepStale, and resetRoom for a room it emptied. Elections among members that
\* the same sweep evicts later come to the same heir.
Sweep ==
  /\ job[Janitor] = Idle
  /\ silent # {}
  /\ Drop(silent)
  /\ IF Vacated(members', pending')
     THEN Go(Janitor, [Idle EXCEPT !.step = "resetAdmin"]) ELSE UNCHANGED job
  /\ UNCHANGED <<disk, cookies, begun, stray>>

-----------------------------------------------------------------------------
(* Posting, the public switch, share links.                                *)

Carry(t, step) == Go(t, [job[t] EXCEPT !.step = step])

\* PostChat and PostSignal know the caller before they look whether the janitor
\* has evicted them.
PostMessage(t, k) ==
  /\ k \in Callers
  /\ Begin(t, [Idle EXCEPT !.step = "ensure", !.who = k, !.posts = TRUE])
  /\ UNCHANGED <<live, disk, cookies, stray>>

\* EnsureMember: a user goes through JoinAuth, a guest straight back to State.Join
\* on the strength of the session.
EnsureMember(t) ==
  /\ job[t].step = "ensure"
  /\ IF job[t].who \in members THEN Carry(t, "post")
     ELSE Go(t, [job[t] EXCEPT !.step = "join", !.sawPublic = public])
  /\ UNCHANGED <<live, disk, cookies, begun, stray>>

\* Touch, and the membership check of Service.PostChat. A signal ends here.
PostChecked(t) ==
  /\ job[t].step = "post"
  /\ silent' = silent \ {job[t].who}
  /\ \/ job[t].who \in members /\ Carry(t, "append")
     \/ Done(t)
  /\ UNCHANGED <<admin, members, pending, before, disk, cookies, begun, stray>>

AppendChat(t) ==
  /\ job[t].step = "append"
  /\ chat' = TRUE
  /\ Written("chat")
  /\ Done(t)
  /\ UNCHANGED <<live, owner, public, invites, minted, cookies, begun>>

\* TogglePublic: check, read, write.
PostTogglePublic(t, k) ==
  /\ admin = k
  /\ Begin(t, [Idle EXCEPT !.step = "toggle", !.who = k])
  /\ UNCHANGED <<live, disk, cookies, stray>>

ToggleRead(t) ==
  /\ job[t].step = "toggle"
  /\ Go(t, [job[t] EXCEPT !.step = "publish", !.sawPublic = public])
  /\ UNCHANGED <<live, disk, cookies, begun, stray>>

SetPublic(t) ==
  /\ job[t].step = "publish"
  /\ \/ /\ public' = ~job[t].sawPublic
        /\ IF public' THEN Written("public") ELSE UNCHANGED stray
     \/ UNCHANGED <<public, stray>>
  /\ Done(t)
  /\ UNCHANGED <<live, owner, invites, minted, chat, cookies, begun>>

\* CreateInvite: check; look up the active link; revoke it; insert a new one.
PostCreateInvite(t, k) ==
  /\ admin = k
  /\ Begin(t, [Idle EXCEPT !.step = "invite", !.who = k])
  /\ UNCHANGED <<live, disk, cookies, stray>>

InviteRead(t) ==
  /\ job[t].step = "invite"
  /\ IF invites = {} THEN Carry(t, "mint")
     ELSE Go(t, [job[t] EXCEPT !.step = "rotate", !.link = Max(invites)])
  /\ UNCHANGED <<live, disk, cookies, begun, stray>>

\* The error of this one is dropped.
InviteRotate(t) ==
  /\ job[t].step = "rotate"
  /\ invites' \in {invites, invites \ {job[t].link}}
  /\ Carry(t, "mint")
  /\ UNCHANGED <<live, owner, public, minted, chat, cookies, begun, stray>>

InviteMint(t) ==
  /\ job[t].step = "mint"
  /\ \/ /\ minted < MaxInvites
        /\ minted' = minted + 1
        /\ invites' = invites \cup {minted'}
        /\ Written("invites")
     \/ UNCHANGED <<minted, invites, stray>>
  /\ Done(t)
  /\ UNCHANGED <<live, owner, public, chat, cookies, begun>>

\* PostRevokeInvite picks the active link before it checks the caller.
PostRevokeInvite(t, k) ==
  /\ invites # {}
  /\ Begin(t, [Idle EXCEPT !.step = "revoke", !.who = k, !.link = Max(invites)])
  /\ UNCHANGED <<live, disk, cookies, stray>>

RevokeChecked(t) ==
  /\ job[t].step = "revoke"
  /\ IF admin = job[t].who THEN Carry(t, "revoked") ELSE Done(t)
  /\ UNCHANGED <<live, disk, cookies, begun, stray>>

RevokeInvite(t) ==
  /\ job[t].step = "revoked"
  /\ invites' \in {invites, invites \ {job[t].link}}
  /\ Done(t)
  /\ UNCHANGED <<live, owner, public, minted, chat, cookies, begun, stray>>

-----------------------------------------------------------------------------
(* The reset of an emptied room.                                           *)

\* The statement succeeds and restores its part, or fails and is passed over.
Restored(part) == stray' = stray \ {part}
LeftAsIs(part) == stray' = IF Empty /\ part \in Dirty THEN stray \cup {part} ELSE stray

\* Mutant: share links survive the reset.
AfterPublicChat == "resetChat"

AfterPublic == "resetInvites"

ResetAdmin(t) ==
  /\ job[t].step = "resetAdmin"
  /\ \/ owner' = None /\ Restored("owner")
     \/ UNCHANGED owner /\ LeftAsIs("owner")
  /\ Carry(t, "resetPublic")
  /\ UNCHANGED <<live, public, invites, minted, chat, cookies, begun>>

ResetPublic(t) ==
  /\ job[t].step = "resetPublic"
  /\ \/ public' = FALSE /\ Restored("public")
     \/ UNCHANGED public /\ LeftAsIs("public")
  /\ Carry(t, AfterPublic)
  /\ UNCHANGED <<live, owner, invites, minted, chat, cookies, begun>>

RevokeAllInvites(t) ==
  /\ job[t].step = "resetInvites"
  /\ \/ invites' = {} /\ Restored("invites")
     \/ UNCHANGED invites /\ LeftAsIs("invites")
  /\ Carry(t, "resetChat")
  /\ UNCHANGED <<live, owner, public, minted, chat, cookies, begun>>

\* One transaction: the rows move to the archive or stay.
ArchiveChat(t) ==
  /\ job[t].step = "resetChat"
  /\ \/ chat' = FALSE /\ Restored("chat")
     \/ UNCHANGED chat /\ LeftAsIs("chat")
  /\ Done(t)
  /\ UNCHANGED <<live, owner, public, invites, minted, cookies, begun>>

\* A process crash: the conference is over, the record stays as it was.
Crash ==
  /\ admin' = None /\ members' = {} /\ pending' = {} /\ before' = {} /\ silent' = {}
  /\ job' = [t \in Threads |-> Idle]
  /\ stray' = Dirty
  /\ UNCHANGED <<disk, cookies, begun>>

Proceed(t) ==
  \/ JoinAgain(t) \/ JoinFull(t) \/ JoinAsAdmin(t) \/ JoinStraight(t) \/ JoinQueue(t)
  \/ RecordAdmin(t) \/ EnsureMember(t) \/ PostChecked(t) \/ AppendChat(t)
  \/ ToggleRead(t) \/ SetPublic(t)
  \/ InviteRead(t) \/ InviteRotate(t) \/ InviteMint(t)
  \/ RevokeChecked(t) \/ RevokeInvite(t)
  \/ ResetAdmin(t) \/ ResetPublic(t) \/ RevokeAllInvites(t) \/ ArchiveChat(t)

Request(t) ==
  \/ \E k \in Users : \/ PostJoin(t, k) \/ PostTogglePublic(t, k) \/ PostCreateInvite(t, k)
                     \/ PostRevokeInvite(t, k)
                     \/ \E target \in Users : Promote(t, k, target)
  \/ \E g \in Guests : PostInviteJoin(t, g)
  \/ \E k \in People : Leave(t, k) \/ PostMessage(t, k)

Next ==
  \/ \E t \in Workers : Request(t)
  \/ \E t \in Threads : Proceed(t)
  \/ \E k \in People : PostPing(k) \/ FallSilent(k)
  \/ \E k \in Users, target \in Users : Approve(k, target) \/ Decline(k, target)
  \/ Sweep
  \/ Crash

Spec == Init /\ [][Next]_vars

-----------------------------------------------------------------------------
(* Correctness.                                                            *)

\* Whatever joins, leaves, promotions and evictions do: the admin is a user who
\* is in the room, and a room that has a user has an admin to open its door.
AdminOfRoom ==
  /\ admin # None => admin \in members
  /\ admin = None => members \cap Users = {}

\* The parts of the record a goroutine is still about to restore.
ToReset(t) ==
  CASE job[t].step = "resetAdmin"   -> Parts
    [] job[t].step = "resetPublic"  -> Parts \ {"owner"}
    [] job[t].step = "resetInvites" -> {"invites", "chat"}
    [] job[t].step = "resetChat"    -> {"chat"}
    [] OTHER                        -> {}

\* Nobody's settings, links or messages wait for the next people who meet in the
\* room: what is not at its default in an empty room is about to be reset, or
\* was written after the room had emptied (by a request that outlived its
\* caller's stay), or was left by a failed statement or a crash.
EmptyIsDefault ==
  Empty => \A p \in Dirty : p \in stray \/ \E t \in Threads : p \in ToReset(t)

-----------------------------------------------------------------------------
(* Progress.                                                               *)

\* Goroutines run on, and the janitor's ticker fires.
Fairness ==
  /\ \A t \in Threads : WF_vars(Proceed(t))
  /\ WF_vars(Sweep)

FairSpec == Spec /\ Fairness

Abandoned == members \subseteq silent /\ pending = {}

\* Everyone closed their tab without leaving: the room empties and returns to
\* its default, unless somebody shows up again.
AbandonedIsReset ==
  Abandoned ~> ~Abandoned \/ (Empty /\ Dirty \subseteq stray)
=============================================================================
