-------------------------------- MODULE Mailbox --------------------------------
(***************************************************************************)
(* The mail ingest (internal/mailbox): one worker polls an IMAP account,   *)
(* folder by folder, from a cursor kept per folder; filters, cached in     *)
(* memory, route a mail to a community and may turn it into an issue.      *)
(* Meanwhile admins add, delete and re-apply filters, the server renumbers *)
(* a folder, an operator asks for a rescan, statements fail, the process   *)
(* dies.                                                                   *)
(***************************************************************************)
EXTENDS Integers, Sequences, FiniteSets, FiniteSetsExt

CONSTANTS
  Folders,   \* folders of the account
  Mails,     \* mails; the same one may lie in several folders
  Unnamed,   \* mails without a Message-ID
  Filters,   \* rows community_mail_filter will ever have
  Matches,   \* the mails each filter matches
  Exact,     \* filters for an address; the others are for a domain
  ToIssue,   \* filters with to_issue
  None,      \* no filter, no folder, no row
  Admins,    \* goroutines that serve the admin pages
  MaxUID,    \* bound: mails per folder
  MaxFaults  \* bound: failing statements and IMAP commands, crashes,
             \* renumberings and rescans together

ASSUME MailboxConstants ==
  /\ Unnamed \subseteq Mails /\ Exact \subseteq Filters /\ ToIssue \subseteq Filters
  /\ Matches \in [Filters -> SUBSET Mails]
  /\ None \notin Filters \cup Folders
  /\ MaxUID \in Nat /\ MaxFaults \in Nat

VARIABLES
  box,      \* what lies in each folder: the mail with UID u is box[f][u]
  validity, \* UIDVALIDITY of each folder at the server
  folder,   \* mailbox_folder: the UIDVALIDITY last seen and last_uid
  ingest,   \* email_ingest with email_ingest_issue, by folder, UID and UIDVALIDITY
  filters,  \* community_mail_filter
  cache,    \* Repo.filterCache, filterFresh
  w,        \* the poll worker
  job,      \* what each admin goroutine is about to do
  used,     \* filters created so far
  faults,   \* faults so far
  failed,   \* history: mails whose match or insert met a failing statement
  strayed   \* history: mails whose issue was being made by two at once, or not linked

server == <<box, validity>>
vars   == <<server, folder, ingest, filters, cache, w, job, used, faults, failed, strayed>>

UIDs == 1 .. MaxUID
Keys == Folders \X UIDs \X (0 .. MaxFaults)
\* routed: community_id is set; issues: made from this mail, 2 standing for more.
Row  == [mail : Mails, filter : Filters \cup {None}, routed : BOOLEAN,
         issues : 0 .. 2, linked : BOOLEAN]
Cache == [fresh : BOOLEAN, list : SUBSET Filters]

WorkerSteps == {"idle", "read", "store", "scan", "next", "insert", "check", "create",
                "link", "save"}
\* rest: folders of this cycle; then: where a read of the filters goes on;
\* last, max: folder.LastUID and maxUID in memory; uids: envelopes not yet visited.
Worker == [step : WorkerSteps, then : {"scan", "insert"}, rest : SUBSET Folders,
           at : Folders \cup {None}, uid : UIDs \cup {0}, uids : SUBSET UIDs,
           last : 0 .. MaxUID, max : 0 .. MaxUID, list : SUBSET Filters]

AdminSteps == {"idle", "backfill", "invalidate", "tag", "list", "pick", "check",
               "create", "link"}
Job == {j \in [step : AdminSteps, filter : Filters \cup {None}, keys : SUBSET Keys,
               key : Keys \cup {None}] :
          /\ j.step \in {"backfill", "tag", "list"} => j.filter \in Filters
          /\ j.step \in {"check", "create", "link"} => j.key \in Keys}

Idle == [step |-> "idle", filter |-> None, keys |-> {}, key |-> None]
Asleep == [step |-> "idle", then |-> "scan", rest |-> {}, at |-> None,
           uid |-> 0, uids |-> {}, last |-> 0, max |-> 0, list |-> {}]

TypeOK ==
  /\ box \in [Folders -> Seq(Mails)] /\ \A f \in Folders : Len(box[f]) <= MaxUID
  /\ validity \in [Folders -> 0 .. MaxFaults]
  /\ folder \in [Folders -> [validity : 0 .. MaxFaults, last : 0 .. MaxUID]]
  /\ DOMAIN ingest \subseteq Keys /\ \A k \in DOMAIN ingest :
       ingest[k] \in Row /\ ingest[k].filter \in filters \cup {None}
  /\ filters \subseteq used /\ used \subseteq Filters
  /\ cache \in Cache
  /\ w \in Worker
  /\ job \in [Admins -> Job]
  /\ faults \in 0 .. MaxFaults
  /\ failed \subseteq Keys /\ strayed \subseteq Keys

\* A folder that was never seen is inserted with the server's UIDVALIDITY and 0.
Init ==
  /\ box = [f \in Folders |-> <<>>]
  /\ validity = [f \in Folders |-> 0]
  /\ folder = [f \in Folders |-> [validity |-> 0, last |-> 0]]
  /\ ingest = [k \in {} |-> 0]
  /\ filters = {} /\ used = {}
  /\ cache = [fresh |-> FALSE, list |-> {}]
  /\ w = Asleep
  /\ job = [a \in Admins |-> Idle]
  /\ faults = 0 /\ failed = {} /\ strayed = {}

-----------------------------------------------------------------------------
(* The IMAP server and the operator.                                       *)

Fault == faults < MaxFaults /\ faults' = faults + 1
Well  == UNCHANGED faults

Arrive(f, m) ==
  /\ Len(box[f]) < MaxUID
  /\ \A u \in DOMAIN box[f] : box[f][u] # m
  /\ box' = [box EXCEPT ![f] = Append(@, m)]
  /\ Well /\ UNCHANGED <<validity, folder, ingest, filters, cache, w, job, used, failed, strayed>>

\* The server renumbers a folder nobody has open.
Renumber(f) ==
  /\ Fault
  /\ w.at # f
  /\ validity' = [validity EXCEPT ![f] = @ + 1]
  /\ UNCHANGED <<box, folder, ingest, filters, cache, w, job, used, failed, strayed>>

\* ResetAllFolderCursors, at boot or by the CLI while the worker runs.
Rescan ==
  /\ Fault
  /\ folder' = [f \in Folders |-> [folder[f] EXCEPT !.last = 0]]
  /\ UNCHANGED <<server, ingest, filters, cache, w, job, used, failed, strayed>>

-----------------------------------------------------------------------------
(* A poll cycle.                                                           *)

Key    == <<w.at, w.uid, validity[w.at]>>
Mail   == box[w.at][w.uid]
Go(s)  == w' = [w EXCEPT !.step = s]
Visited(s) == [w EXCEPT !.step = s, !.then = "scan", !.list = {}]
db     == <<folder, ingest, filters, cache>>
others == <<server, job, used>>

\* cycle(): dial, list the folders, look at the filters.
CycleBegin ==
  /\ w.step = "idle"
  /\ w' = [Asleep EXCEPT !.step = "read", !.rest = Folders]
  /\ Well /\ UNCHANGED <<db, others, failed, strayed>>

\* The list read at the beginning of a cycle is only logged.
Kept(list) == IF w.then = "scan" THEN {} ELSE list

\* cachedFilters reads the table without the lock.
ReadFilters ==
  /\ w.step = "read"
  /\ IF cache.fresh
     THEN w' = [w EXCEPT !.step = w.then, !.list = Kept(cache.list)]
     ELSE w' = [w EXCEPT !.step = "store", !.list = filters]
  /\ Well /\ UNCHANGED <<db, others, failed, strayed>>

\* An error at the beginning of the cycle is passed over; one in the loop skips
\* the mail and saves the cursor beyond it.
ReadFails ==
  /\ Fault /\ w.step = "read" /\ ~cache.fresh
  /\ IF w.then = "scan" THEN Go("scan") /\ UNCHANGED failed
     ELSE w' = Visited("save") /\ failed' = failed \cup {Key}
  /\ UNCHANGED <<db, others, strayed>>

StoreCache ==
  /\ w.step = "store"
  /\ cache' = [fresh |-> TRUE, list |-> w.list]
  /\ w' = [w EXCEPT !.step = w.then, !.list = Kept(@)]
  /\ Well /\ UNCHANGED <<folder, ingest, filters, others, failed, strayed>>

\* Repo.UpsertFolder: a new UIDVALIDITY puts the cursor back to 0.
Seen(f) == IF folder[f].validity = validity[f] THEN folder[f]
           ELSE [validity |-> validity[f], last |-> 0]

\* Mutant: one mail too early.
UpToDateEarly(f, last) == last >= Len(box[f]) - 1

\* LastUID >= UIDNext-1.
UpToDate(f, last) == last >= Len(box[f])

\* UID FETCH since+1:* names the last mail of the folder when there is no newer one.
Fetched(f, since) ==
  IF since < Len(box[f]) THEN since + 1 .. Len(box[f]) ELSE {Len(box[f])}

\* scanFolder up to the loop. A server that sends no UIDNEXT is always fetched from.
Scan(f) ==
  /\ w.step = "scan" /\ f \in w.rest
  /\ folder' = [folder EXCEPT ![f] = Seen(f)]
  /\ LET last == Seen(f).last IN
       \/ /\ box[f] = <<>> \/ UpToDate(f, last)
          /\ w' = [w EXCEPT !.rest = @ \ {f}]
       \/ /\ box[f] # <<>>
          /\ w' = [w EXCEPT !.step = "next", !.rest = @ \ {f}, !.at = f, !.uid = 0,
                            !.uids = Fetched(f, last), !.last = last, !.max = last]
  /\ Well /\ UNCHANGED <<ingest, filters, cache, others, failed, strayed>>

\* EXAMINE or the upsert fails, or FETCH does after the upsert.
ScanFails(f) ==
  /\ Fault /\ w.step = "scan" /\ f \in w.rest
  /\ w' = [w EXCEPT !.rest = @ \ {f}]
  /\ folder' \in {folder, [folder EXCEPT ![f] = Seen(f)]}
  /\ UNCHANGED <<ingest, filters, cache, others, failed, strayed>>

CycleEnd ==
  /\ w.step = "scan" /\ w.rest = {}
  /\ w' = Asleep
  /\ Well /\ UNCHANGED <<db, others, failed, strayed>>

\* Mutant: the newest mail of the batch from the start.
RaisedToNewest(u) == Max(w.uids)

Raised(u) == IF u > w.max THEN u ELSE w.max

\* The loop takes up the next envelope; maxUID moves on before anything is stored.
NextMail ==
  /\ w.step = "next"
  /\ LET u == Min(w.uids) IN
       w' = [w EXCEPT !.step = "read", !.then = "insert", !.uid = u, !.uids = @ \ {u},
                      !.max = Raised(u)]
  /\ Well /\ UNCHANGED <<db, others, failed, strayed>>

Hits(list, m) == {x \in list : m \in Matches[x]}

\* An exact address beats a domain; without a match the mail stays unassigned.
MatchFrom(list, m) ==
  LET S == Hits(list, m) IN
  IF S = {} THEN {None} ELSE IF S \cap Exact # {} THEN S \cap Exact ELSE S

\* Mutant: the same mail in another folder is not looked for.
DuplicateByUID(k, m) == k \in DOMAIN ingest

Duplicate(k, m) ==
  \/ k \in DOMAIN ingest
  \/ m \notin Unnamed /\ \E j \in DOMAIN ingest : ingest[j].mail = m

AddRow(k, m, x) ==
  ingest' = [j \in DOMAIN ingest \cup {k} |->
               IF j = k THEN [mail |-> m, filter |-> x, routed |-> x # None,
                              issues |-> 0, linked |-> FALSE]
               ELSE ingest[j]]

\* continue: without a save, which the next success or the end of the loop makes.
AfterFailure ==
  IF w.uids = {} THEN Visited("save") ELSE [Visited("next") EXCEPT !.uid = 0]

\* Repo.InsertIngest; only the worker inserts. The filter came from the cache: the
\* foreign key refuses one that has been deleted.
InsertIngest ==
  /\ w.step = "insert"
  /\ \E x \in MatchFrom(w.list, Mail) :
       \/ /\ Duplicate(Key, Mail)
          /\ w' = Visited("save")
          /\ Well /\ UNCHANGED <<ingest, failed>>
       \/ /\ ~Duplicate(Key, Mail) /\ x \in filters \cup {None}
          /\ AddRow(Key, Mail, x)
          /\ w' = Visited(IF x \in ToIssue THEN "check" ELSE "save")
          /\ Well /\ UNCHANGED failed
       \/ /\ Fault \/ (~Duplicate(Key, Mail) /\ x \notin filters \cup {None} /\ Well)
          /\ failed' = failed \cup {Key}
          /\ w' = AfterFailure
          /\ UNCHANGED ingest
  /\ UNCHANGED <<folder, filters, cache, others, strayed>>

AfterSave(last) ==
  IF w.uids = {} THEN [Asleep EXCEPT !.step = "scan", !.rest = w.rest]
  ELSE [w EXCEPT !.step = "next", !.last = last, !.uid = 0]

\* Repo.SetFolderLastUID only raises the cursor.
SaveCursor ==
  /\ w.step = "save"
  /\ \/ /\ w.max > w.last
        /\ folder' = [folder EXCEPT ![w.at].last = IF @ < w.max THEN w.max ELSE @]
        /\ w' = AfterSave(w.max)
        /\ Well
     \/ /\ Fault \/ (w.max <= w.last /\ Well)
        /\ w' = AfterSave(w.last)
        /\ UNCHANGED folder
  /\ UNCHANGED <<ingest, filters, cache, others, failed, strayed>>

-----------------------------------------------------------------------------
(* Service.AutoCreateIssue, which the worker and ApplyFilterToPast call.   *)

Making == {"create", "link"}
InHand(k) == \/ w.step \in Making /\ Key = k
             \/ \E a \in Admins : job[a].step \in Making /\ job[a].key = k

\* Mutant: the link row is not looked for.
HasIngestIssueNever(k) == FALSE

HasIngestIssue(k) == ingest[k].linked

\* What each of the three statements does for row k.
Checked(k) == strayed' = IF InHand(k) THEN strayed \cup {k} ELSE strayed
CreateIssue(k) == ingest' = [ingest EXCEPT ![k].issues = IF @ = 0 THEN 1 ELSE 2]
InsertIngestIssue(k) == ingest' = [ingest EXCEPT ![k].linked = TRUE]

CheckIssue ==
  /\ w.step = "check"
  /\ \/ ~HasIngestIssue(Key) /\ Go("create") /\ Checked(Key) /\ Well
     \/ (Fault \/ (HasIngestIssue(Key) /\ Well)) /\ Go("save") /\ UNCHANGED strayed
  /\ UNCHANGED <<db, others, failed>>

MakeIssue ==
  /\ w.step = "create"
  /\ \/ CreateIssue(Key) /\ Go("link") /\ Well
     \/ Fault /\ Go("save") /\ UNCHANGED ingest
  /\ UNCHANGED <<folder, filters, cache, others, failed, strayed>>

LinkIssue ==
  /\ w.step = "link"
  /\ Go("save")
  /\ \/ InsertIngestIssue(Key) /\ Well /\ UNCHANGED strayed
     \/ Fault /\ strayed' = strayed \cup {Key} /\ UNCHANGED ingest
  /\ UNCHANGED <<folder, filters, cache, others, failed>>

-----------------------------------------------------------------------------
(* The admin pages.                                                        *)

Carry(a, s)  == job' = [job EXCEPT ![a].step = s]
Onward(a)    == job' = [job EXCEPT ![a].step = "pick", ![a].key = None]
Done(a)      == job' = [job EXCEPT ![a] = Idle]
mail         == <<server, folder, w, failed>>

\* Mutant: mail that another community has already is taken over.
ClaimableAll(x) == {k \in DOMAIN ingest : ingest[k].mail \in Matches[x]}

\* Unassigned rows that a filter matches.
Claimable(x) == {k \in DOMAIN ingest : ~ingest[k].routed /\ ingest[k].mail \in Matches[x]}

Claim(x) ==
  /\ Claimable(x) = {} \/ x \in filters
  /\ Well
  /\ ingest' = [k \in DOMAIN ingest |->
                  IF k \in Claimable(x) THEN [ingest[k] EXCEPT !.filter = x, !.routed = TRUE]
                  ELSE ingest[k]]

\* The statement fails, or the foreign key refuses a filter that is gone.
ClaimFails(x) == Fault \/ (Claimable(x) # {} /\ x \notin filters /\ Well)

\* InsertFilter: insert, claim past mail, invalidate the cache.
PostFilterCreate(a, x) ==
  /\ job[a] = Idle /\ x \notin used
  /\ filters' = filters \cup {x} /\ used' = used \cup {x}
  /\ job' = [job EXCEPT ![a] = [Idle EXCEPT !.step = "backfill", !.filter = x]]
  /\ Well /\ UNCHANGED <<mail, ingest, cache, strayed>>

\* After a failure the cache is not invalidated.
Backfill(a) ==
  /\ job[a].step = "backfill"
  /\ \/ Claim(job[a].filter) /\ Carry(a, "invalidate")
     \/ ClaimFails(job[a].filter) /\ Done(a) /\ UNCHANGED ingest
  /\ UNCHANGED <<mail, filters, cache, used, strayed>>

InvalidateFilters(a) ==
  /\ job[a].step = "invalidate"
  /\ cache' = [fresh |-> FALSE, list |-> {}]
  /\ Done(a)
  /\ Well /\ UNCHANGED <<mail, ingest, filters, used, strayed>>

\* Mutant: the rows a deleted filter routed go on naming it.
ReleasedNone(x) == ingest

\* ON DELETE SET NULL takes a filter out of the rows it routed; they stay routed.
Released(x) == [k \in DOMAIN ingest |->
                  IF ingest[k].filter = x THEN [ingest[k] EXCEPT !.filter = None] ELSE ingest[k]]

\* DeleteFilter
PostFilterDelete(a, x) ==
  /\ job[a] = Idle /\ x \in filters
  /\ filters' = filters \ {x}
  /\ ingest' = Released(x)
  /\ job' = [job EXCEPT ![a] = [Idle EXCEPT !.step = "invalidate"]]
  /\ Well /\ UNCHANGED <<mail, cache, used, strayed>>

\* ApplyFilterToPast: claim past mail, then make the issues that are missing.
PostFilterApply(a, x) ==
  /\ job[a] = Idle /\ x \in filters
  /\ job' = [job EXCEPT ![a] = [Idle EXCEPT !.step = "tag", !.filter = x]]
  /\ Well /\ UNCHANGED <<mail, ingest, filters, cache, used, strayed>>

TagPast(a) ==
  /\ job[a].step = "tag"
  /\ \/ /\ Claim(job[a].filter)
        /\ IF job[a].filter \in ToIssue THEN Carry(a, "list") ELSE Done(a)
     \/ ClaimFails(job[a].filter) /\ Done(a) /\ UNCHANGED ingest
  /\ UNCHANGED <<mail, filters, cache, used, strayed>>

\* IngestsByFilter
ListPast(a) ==
  /\ job[a].step = "list"
  /\ job' = [job EXCEPT ![a].step = "pick",
                        ![a].keys = {k \in DOMAIN ingest : /\ ingest[k].filter = job[a].filter
                                                           /\ ~ingest[k].linked}]
  /\ Well /\ UNCHANGED <<mail, ingest, filters, cache, used, strayed>>

PickPast(a) ==
  /\ job[a].step = "pick"
  /\ \/ job[a].keys = {} /\ Done(a)
     \/ \E k \in job[a].keys :
          job' = [job EXCEPT ![a].step = "check", ![a].key = k, ![a].keys = @ \ {k}]
  /\ Well /\ UNCHANGED <<mail, ingest, filters, cache, used, strayed>>

\* Any error ends the request.
CheckPast(a) ==
  /\ job[a].step = "check"
  /\ \/ HasIngestIssue(job[a].key) /\ Onward(a) /\ Well /\ UNCHANGED strayed
     \/ ~HasIngestIssue(job[a].key) /\ Carry(a, "create") /\ Well /\ Checked(job[a].key)
     \/ Fault /\ Done(a) /\ UNCHANGED strayed
  /\ UNCHANGED <<mail, ingest, filters, cache, used>>

MakePast(a) ==
  /\ job[a].step = "create"
  /\ \/ CreateIssue(job[a].key) /\ Carry(a, "link") /\ Well
     \/ Fault /\ Done(a) /\ UNCHANGED ingest
  /\ UNCHANGED <<mail, filters, cache, used, strayed>>

LinkPast(a) ==
  /\ job[a].step = "link"
  /\ \/ InsertIngestIssue(job[a].key) /\ Onward(a) /\ Well /\ UNCHANGED strayed
     \/ Fault /\ Done(a) /\ strayed' = strayed \cup {job[a].key} /\ UNCHANGED ingest
  /\ UNCHANGED <<mail, filters, cache, used>>

-----------------------------------------------------------------------------

\* The process dies and starts again: the cache, the cycle and the requests are gone.
Crash ==
  /\ Fault
  /\ w' = Asleep
  /\ job' = [a \in Admins |-> Idle]
  /\ cache' = [fresh |-> FALSE, list |-> {}]
  /\ strayed' = strayed \cup {k \in Keys : \/ w.step = "link" /\ Key = k
                                           \/ \E a \in Admins : job[a].step = "link" /\ job[a].key = k}
  /\ UNCHANGED <<server, folder, ingest, filters, used, failed>>

Work ==
  \/ CycleBegin \/ ReadFilters \/ StoreCache \/ CycleEnd \/ NextMail
  \/ InsertIngest \/ SaveCursor \/ CheckIssue \/ MakeIssue \/ LinkIssue

Request(a) ==
  \/ \E x \in Filters : PostFilterCreate(a, x) \/ PostFilterDelete(a, x) \/ PostFilterApply(a, x)
  \/ Backfill(a) \/ InvalidateFilters(a) \/ TagPast(a)
  \/ ListPast(a) \/ PickPast(a) \/ CheckPast(a) \/ MakePast(a) \/ LinkPast(a)

Next ==
  \/ \E f \in Folders, m \in Mails : Arrive(f, m)
  \/ \E f \in Folders : Renumber(f) \/ Scan(f) \/ ScanFails(f)
  \/ Rescan \/ Crash \/ ReadFails
  \/ Work
  \/ \E a \in Admins : Request(a)

Spec == Init /\ [][Next]_vars

\* The ticker fires, the worker runs on, and the account is not unreachable for ever.
FairSpec == Spec /\ WF_vars(Work) /\ \A f \in Folders : WF_vars(Scan(f))

-----------------------------------------------------------------------------
(* Correctness.                                                            *)

\* However often a folder is scanned again or renumbered, and in whatever folders
\* a mail lies: it has one row.
OneRowPerMail ==
  \A j, k \in DOMAIN ingest :
    j # k /\ ingest[j].mail = ingest[k].mail => ingest[j].mail \in Unnamed

KeyOf(f, u) == <<f, u, validity[f]>>
Stored(f, u) == Duplicate(KeyOf(f, u), box[f][u])

\* The cursor leaves no mail behind but those whose own match or insert failed.
CursorCovers ==
  \A f \in Folders :
    folder[f].validity = validity[f] =>
      /\ folder[f].last <= Len(box[f])
      /\ \A u \in 1 .. folder[f].last : Stored(f, u) \/ KeyOf(f, u) \in failed

\* A mail becomes one issue, which the link row knows, unless two made it at the
\* same time or the link was not written.
OneIssuePerMail ==
  \A k \in DOMAIN ingest \ strayed :
    /\ ingest[k].issues <= 1
    /\ ingest[k].issues = 1 => ingest[k].linked \/ InHand(k)

\* Mail that has found its community stays there, whatever filters come later.
RoutingSticks ==
  [][\A k \in DOMAIN ingest :
       ingest[k].routed => ingest'[k].routed /\ ingest'[k].filter \in {ingest[k].filter, None}]_vars

\* Every mail that arrives is stored, or met a failure of its own.
MailIngested ==
  \A f \in Folders, u \in UIDs :
    u \in DOMAIN box[f] ~>
      u \in DOMAIN box[f] /\ (Stored(f, u) \/ KeyOf(f, u) \in failed)
=============================================================================
