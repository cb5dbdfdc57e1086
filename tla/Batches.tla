------------------------------- MODULE Batches -------------------------------
(***************************************************************************)
(* Publishing batches of xhs-platform: an operator selects Notion posts,   *)
(* the service freezes their revisions into a manifest, the operator       *)
(* approves that exact manifest, and every approved item becomes a job     *)
(* with a publishing attempt of its own.                                   *)
(*                                                                         *)
(* Preparing and approving are calls of several transactions: the Notion   *)
(* source and the blockers are read first, the batch is written in a       *)
(* transaction of its own, the attempts after that.  Any number of other   *)
(* calls may run between, and a call may die anywhere (AbandonCall).  The  *)
(* transactions that decide take the advisory locks of the pages they      *)
(* touch, so each is one action.                                           *)
(*                                                                         *)
(* Abstractions.  A snapshot is its Notion revision.  Of a job's life the  *)
(* module keeps whether a worker has it, whether it was submitted and      *)
(* whether it failed with or without evidence of a publication; the queue  *)
(* itself is LocalPublishQueue, the activation that holds the lane is      *)
(* DispatchActivation.  Weekly and catch-up batches are stored exactly as  *)
(* on-demand ones and differ in the posts they select.                     *)
(***************************************************************************)
EXTENDS Naturals, FiniteSets

CONSTANTS
  Batches,      \* ids of rednote_publish_batches
  Pages,        \* Notion pages
  NoItem,       \* no activation holds the dispatch lane
  MaxRevision,  \* bound on the edits of one Notion page
  MaxCalls      \* bound on the calls in flight

ASSUME BoundsAssumption == MaxRevision \in Nat \ {0} /\ MaxCalls \in Nat

VARIABLES
  source,   \* the current revision of each Notion page
  handled,  \* pages with a row in plan_operator_scheduled_posts
  reported, \* pages with a reconciliation request or a publication receipt
  batch,    \* rednote_publish_batches
  item,     \* rednote_publish_batch_items, by batch and page
  job,      \* local_publish_jobs, by the batch item they came from
  attempt,  \* the newest attempt generation of each job
  hold,     \* the item whose activation holds the dispatch lane
  calls     \* service calls between two of their transactions

posts == <<source, handled, reported>>
vars == <<posts, batch, item, job, attempt, hold, calls>>

-----------------------------------------------------------------------------
(* Rows *)

Items == Batches \X Pages
Revisions == 1..MaxRevision
Kinds == {"bootstrap", "on_demand"}

BatchRow ==
  [status : {"absent", "pending_approval", "approved", "partially_approved",
             "superseded"},
   kind : Kinds,
   selected : SUBSET Pages]            \* items and blocked candidates
ItemRow ==
  [state : {"absent", "needs_approval", "invalidated", "queued", "claimed",
            "submitted", "failed"},
   revision : 0..MaxRevision]          \* snapshot.notionLastEditedTime
JobRow ==
  [status : {"absent", "queued", "claimed", "submitted", "failed"},
   evidence : BOOLEAN]                 \* staged, authorized, dispatched, a receipt
AttemptState == {"none", "active", "known_failed", "other"}

AbsentItem == [state |-> "absent", revision |-> 0]
AbsentJob == [status |-> "absent", evidence |-> FALSE]

(* A selection with the revision read for each post, 0 for a blocked one. *)
CreateCalls == [op : {"create"}, kind : Kinds,
                read : UNION {[S -> 0..MaxRevision] : S \in (SUBSET Pages) \ {{}}}]
DecideCalls == [op : {"decide"}, batch : Batches,
                decided : UNION {[S -> BOOLEAN] : S \in SUBSET Pages}]
MaterializeCalls == [op : {"list"}, batch : Batches]
  \cup [op : {"materialize"}, batch : Batches, todo : SUBSET Pages]

Starts(c) == Cardinality(calls) < MaxCalls /\ calls' = calls \cup {c}
Continues(c, d) == calls' = (calls \ {c}) \cup {d}
Ends(c) == calls' = calls \ {c}

HasJob(i) == job[i].status # "absent"
Open(i) == item[i].state = "needs_approval"
ItemsOf(b) == {i \in Items : i[1] = b /\ item[i].state # "absent"}
Active(i) == item[i].state \notin {"absent", "invalidated", "failed"}

Init ==
  /\ source = [p \in Pages |-> 1]
  /\ handled = {}
  /\ reported = {}
  /\ batch = [b \in Batches |->
       [status |-> "absent", kind |-> "bootstrap", selected |-> {}]]
  /\ item = [i \in Items |-> AbsentItem]
  /\ job = [i \in Items |-> AbsentJob]
  /\ attempt = [i \in Items |-> "none"]
  /\ hold = NoItem
  /\ calls = {}

-----------------------------------------------------------------------------
(* Who owns a page *)

\* Slip: the failed job is asked, its attempts are not.
AllowsNewerRevisionByJob(i, revision) ==
  /\ item[i].revision < revision
  /\ job[i] = [status |-> "failed", evidence |-> FALSE]
(* rednote_publish_local_job_allows_newer_revision *)
AllowsNewerRevision(i, revision) ==
  /\ item[i].revision < revision
  /\ job[i] = [status |-> "failed", evidence |-> FALSE]
  /\ attempt[i] = "known_failed"

(* rednote_publish_revision_blockers *)
Blocks(i, revision) ==
  \/ HasJob(i) /\ ~AllowsNewerRevision(i, revision)
  \/ Active(i) /\ ~(HasJob(i) /\ AllowsNewerRevision(i, revision))
Blocked(p, revision, except) ==
  \/ p \in handled \cup reported
  \/ \E i \in Items \ except : i[2] = p /\ Blocks(i, revision)

(* sync_rednote_batch_item_state: the item follows its job, unless it was  *)
(* invalidated.                                                            *)
SetJob(i, row) ==
  /\ job' = [job EXCEPT ![i] = row]
  /\ item' = [item EXCEPT ![i].state = IF @ = "invalidated" THEN @ ELSE row.status]

-----------------------------------------------------------------------------
(* The posts and the operator outside the batches *)

EditPost(p) ==
  /\ source[p] < MaxRevision
  /\ source' = [source EXCEPT ![p] = @ + 1]
  /\ UNCHANGED <<handled, reported, batch, item, job, attempt, hold, calls>>

(* Neither a report nor the operator's handling waits for a job that is    *)
(* queued or whose claim has expired: the job is failed on the spot, with  *)
(* its attempt left as it is.                                              *)
Closable(p) == \A i \in Items : i[2] = p => job[i].status # "submitted"
CloseJobs(p, open) ==
  /\ job' = [i \in Items |->
       IF i[2] = p /\ HasJob(i) THEN [job[i] EXCEPT !.status = "failed"] ELSE job[i]]
  /\ item' = [i \in Items |->
       IF i[2] # p \/ ~Active(i) THEN item[i]
       ELSE [item[i] EXCEPT !.state = IF Open(i) THEN open ELSE "failed"]]

(* insertManualReconciliation: items under review stay as they are. *)
ReportElsewhere(p) ==
  /\ p \notin reported /\ Closable(p)
  /\ reported' = reported \cup {p}
  /\ CloseJobs(p, "needs_approval")
  /\ UNCHANGED <<source, handled, batch, attempt, hold, calls>>
(* insertManualPostHandling: items under review are invalidated. *)
HandleManually(p) ==
  /\ p \notin handled /\ Closable(p)
  /\ handled' = handled \cup {p}
  /\ CloseJobs(p, "invalidated")
  /\ UNCHANGED <<source, reported, batch, attempt, hold, calls>>

(* An activation takes the lane for one ready or recoverable item, and     *)
(* gives it back.                                                          *)
TakeHold(i) ==
  /\ hold = NoItem
  /\ job[i].status \in {"queued", "failed"} /\ ~job[i].evidence /\ attempt[i] # "none"
  /\ hold' = i
  /\ UNCHANGED <<posts, batch, item, job, attempt, calls>>
ReleaseHold ==
  /\ hold # NoItem
  /\ hold' = NoItem
  /\ UNCHANGED <<posts, batch, item, job, attempt, calls>>

-----------------------------------------------------------------------------
(* A manifest is prepared *)

(* preparePublishBatch and createPublishBatch up to the stored batch: read *)
(* the selected posts and who owns their revision.                         *)
ReadSelection(kind, selected) ==
  LET unblocked == {p \in selected : ~Blocked(p, source[p], {})} IN
  /\ selected # {}
  /\ kind = "on_demand" => Cardinality(selected) = 1 /\ unblocked = selected
  /\ Starts([op |-> "create", kind |-> kind,
             read |-> [p \in selected |-> IF p \in unblocked THEN source[p] ELSE 0]])
  /\ UNCHANGED <<posts, batch, item, job, attempt, hold>>

(* The bootstrap manifests a new one replaces: still pending, with nothing *)
(* but items under review or invalidated.                                  *)
Superseded(kind) ==
  IF kind # "bootstrap" THEN {}
  ELSE {b \in Batches :
         /\ batch[b].kind = "bootstrap" /\ batch[b].status = "pending_approval"
         /\ \A i \in ItemsOf(b) : item[i].state \in {"needs_approval", "invalidated"}}

\* Slip: the items of the superseded manifests are left open.
StoreBatchBesideOpenItems(b, c, admitted) ==
  /\ admitted # {} \/ c.kind = "bootstrap"
  /\ batch' = [d \in Batches |->
       CASE d = b -> [status |-> "pending_approval", kind |-> c.kind,
                      selected |-> DOMAIN c.read]
         [] d \in Superseded(c.kind) -> [batch[d] EXCEPT !.status = "superseded"]
         [] OTHER -> batch[d]]
  /\ item' = [i \in Items |->
       IF i[1] = b /\ i[2] \in admitted
         THEN [state |-> "needs_approval", revision |-> c.read[i[2]]] ELSE item[i]]
(* What createStoredPublishBatch writes for the posts it admits. *)
StoreBatch(b, c, admitted) ==
  /\ admitted # {} \/ c.kind = "bootstrap"
  /\ batch' = [d \in Batches |->
       CASE d = b -> [status |-> "pending_approval", kind |-> c.kind,
                      selected |-> DOMAIN c.read]
         [] d \in Superseded(c.kind) -> [batch[d] EXCEPT !.status = "superseded"]
         [] OTHER -> batch[d]]
  /\ item' = [i \in Items |->
       CASE i[1] = b /\ i[2] \in admitted ->
              [state |-> "needs_approval", revision |-> c.read[i[2]]]
         [] i[1] \in Superseded(c.kind) /\ Open(i) ->
              [item[i] EXCEPT !.state = "invalidated"]
         [] OTHER -> item[i]]

\* Slip: the blockers read before the page locks are believed.
CreateBatchUnlocked(c, b) ==
  /\ c \in calls /\ c.op = "create" /\ batch[b].status = "absent"
  /\ c.kind = "bootstrap" => hold = NoItem
  /\ StoreBatch(b, c, {p \in DOMAIN c.read : c.read[p] # 0})
  /\ Ends(c)
  /\ UNCHANGED <<posts, job, attempt, hold>>

(* createStoredPublishBatch: asks for the blockers again under the locks   *)
(* of the pages, and only then supersedes what it replaces.                *)
CreateBatch(c, b) ==
  /\ c \in calls /\ c.op = "create" /\ batch[b].status = "absent"
  /\ c.kind = "bootstrap" => hold = NoItem
  /\ StoreBatch(b, c,
       {p \in DOMAIN c.read : c.read[p] # 0 /\ ~Blocked(p, c.read[p], {})})
  /\ Ends(c)
  /\ UNCHANGED <<posts, job, attempt, hold>>

-----------------------------------------------------------------------------
(* The manifest is approved *)

Decided(b) == batch[b].status \in {"approved", "partially_approved"}
QueuedItems(b) == {p \in Pages : item[<<b, p>>].state = "queued"}

(* approvePublishBatch: a pending batch has its posts read again; one that *)
(* was approved before only has its attempts completed.                    *)
Approve(b) ==
  /\ \/ /\ batch[b].status = "pending_approval"
        /\ Starts([op |-> "decide", batch |-> b, decided |-> <<>>])
     \/ /\ Decided(b)
        /\ Starts([op |-> "materialize", batch |-> b, todo |-> QueuedItems(b)])
  /\ UNCHANGED <<posts, batch, item, job, attempt, hold>>

(* One of the reads of the decisions, which are made in parallel. *)
ReadDecision(c, p) ==
  /\ c \in calls /\ c.op = "decide"
  /\ <<c.batch, p>> \in ItemsOf(c.batch) /\ p \notin DOMAIN c.decided
  /\ Continues(c, [c EXCEPT !.decided =
       [q \in DOMAIN c.decided \cup {p} |->
          IF q = p THEN source[p] = item[<<c.batch, p>>].revision ELSE c.decided[q]]])
  /\ UNCHANGED <<posts, batch, item, job, attempt, hold>>

\* Slip: what is not approved waits for the next approval.
ApproveItemsLeavingTheRest(b, approved) ==
  /\ item' = [i \in Items |->
       IF i[1] = b /\ Open(i) /\ i[2] \in approved
         THEN [item[i] EXCEPT !.state = "queued"] ELSE item[i]]
  /\ job' = [i \in Items |->
       IF i[1] = b /\ Open(i) /\ i[2] \in approved
         THEN [AbsentJob EXCEPT !.status = "queued"] ELSE job[i]]
  /\ batch' = [batch EXCEPT ![b].status =
       IF \E i \in ItemsOf(b) : Open(i) /\ i[2] \notin approved
         THEN "partially_approved" ELSE "approved"]
(* What the approval transaction makes of the items still under review. *)
ApproveItems(b, approved) ==
  /\ item' = [i \in Items |->
       IF i[1] = b /\ Open(i)
         THEN [item[i] EXCEPT !.state = IF i[2] \in approved THEN "queued" ELSE "invalidated"]
         ELSE item[i]]
  /\ job' = [i \in Items |->
       IF i[1] = b /\ Open(i) /\ i[2] \in approved
         THEN [AbsentJob EXCEPT !.status = "queued"] ELSE job[i]]
  /\ batch' = [batch EXCEPT ![b].status =
       IF \E i \in ItemsOf(b) : item'[i].state = "invalidated"
         THEN "partially_approved" ELSE "approved"]

AllDecided(c) == \A i \in ItemsOf(c.batch) : i[2] \in DOMAIN c.decided

\* Slips: the reviewed status is not read again; the revision's blockers are not.
ApproveManifestAnyStatus(c) ==
  /\ c \in calls /\ c.op = "decide" /\ AllDecided(c) /\ hold = NoItem
  /\ ApproveItems(c.batch, {p \in DOMAIN c.decided :
       c.decided[p] /\ ~Blocked(p, item[<<c.batch, p>>].revision, {<<c.batch, p>>})})
  /\ Continues(c, [op |-> "list", batch |-> c.batch])
  /\ UNCHANGED <<posts, attempt, hold>>
ApproveManifestUnblocked(c) ==
  /\ c \in calls /\ c.op = "decide" /\ AllDecided(c) /\ hold = NoItem
  /\ batch[c.batch].status = "pending_approval"
  /\ ApproveItems(c.batch, {p \in DOMAIN c.decided : c.decided[p]})
  /\ Continues(c, [op |-> "list", batch |-> c.batch])
  /\ UNCHANGED <<posts, attempt, hold>>

(* approveStoredPublishBatchTransaction: an item whose post did not change *)
(* and that nothing else owns is queued, any other is invalidated.  The    *)
(* database refuses all of it while an activation holds the lane.          *)
ApproveManifest(c) ==
  /\ c \in calls /\ c.op = "decide" /\ AllDecided(c) /\ hold = NoItem
  /\ batch[c.batch].status = "pending_approval"
  /\ ApproveItems(c.batch, {p \in DOMAIN c.decided :
       c.decided[p] /\ ~Blocked(p, item[<<c.batch, p>>].revision, {<<c.batch, p>>})})
  /\ Continues(c, [op |-> "list", batch |-> c.batch])
  /\ UNCHANGED <<posts, attempt, hold>>

(* The approved batch is read back. *)
ListApproved(c) ==
  /\ c \in calls /\ c.op = "list"
  /\ Continues(c, [op |-> "materialize", batch |-> c.batch,
                   todo |-> QueuedItems(c.batch)])
  /\ UNCHANGED <<posts, batch, item, job, attempt, hold>>

(* materializeApprovedBatchAttempts, for one item: the attempt there is, or *)
(* a new one, which the index of active attempts admits one of per page.    *)
MaterializeAttempt(c, p) ==
  LET i == <<c.batch, p>> IN
  /\ c \in calls /\ c.op = "materialize" /\ p \in c.todo
  /\ IF attempt[i] # "none" THEN UNCHANGED attempt
     ELSE /\ hold = NoItem
          /\ \A k \in Items : k[2] = p => attempt[k] # "active"
          /\ attempt' = [attempt EXCEPT ![i] = "active"]
  /\ IF c.todo = {p} THEN Ends(c) ELSE Continues(c, [c EXCEPT !.todo = @ \ {p}])
  /\ UNCHANGED <<posts, batch, item, job, hold>>

(* A call dies, is cut short or answers an error. *)
AbandonCall(c) ==
  /\ c \in calls
  /\ Ends(c)
  /\ UNCHANGED <<posts, batch, item, job, attempt, hold>>

-----------------------------------------------------------------------------
(* What the worker makes of the jobs *)

(* claimNextLocalPublishJob takes a queued job whose attempt is approved. *)
Claim(i) ==
  /\ job[i].status = "queued" /\ attempt[i] = "active"
  /\ hold \in {NoItem, i} /\ i[2] \notin handled
  /\ SetJob(i, [job[i] EXCEPT !.status = "claimed"])
  /\ UNCHANGED <<posts, batch, attempt, hold, calls>>

(* invalidateStoredBatchItem: the post of a claimed job changed.  The      *)
(* attempt stays as it is.                                                 *)
InvalidateItem(i) ==
  /\ job[i].status = "claimed" /\ source[i[2]] # item[i].revision
  /\ job' = [job EXCEPT ![i].status = "failed"]
  /\ item' = [item EXCEPT ![i].state = "invalidated"]
  /\ UNCHANGED <<posts, batch, attempt, hold, calls>>

\* Slip: the worker's word is stored as the attempt's outcome.
FailUnmapped(i) ==
  /\ job[i].status = "claimed"
  /\ \E evidence \in BOOLEAN :
       SetJob(i, [status |-> "failed", evidence |-> evidence])
  /\ attempt' = [attempt EXCEPT ![i] = "failed"]
  /\ UNCHANGED <<posts, batch, hold, calls>>
(* The worker, or the sweep after it went silent, fails the claim: with or *)
(* without evidence, known to have failed or not.                          *)
Fail(i) ==
  /\ job[i].status = "claimed"
  /\ \E evidence \in BOOLEAN, outcome \in {"known_failed", "other"} :
       /\ SetJob(i, [status |-> "failed", evidence |-> evidence])
       /\ attempt' = [attempt EXCEPT ![i] = outcome]
  /\ UNCHANGED <<posts, batch, hold, calls>>
Submit(i) ==
  /\ job[i].status = "claimed"
  /\ SetJob(i, [status |-> "submitted", evidence |-> TRUE])
  /\ attempt' = [attempt EXCEPT ![i] = "other"]
  /\ UNCHANGED <<posts, batch, hold, calls>>

\* Slip: the recovery takes an invalidated item too.
RecoverInvalidated(i) ==
  /\ hold = i /\ batch[i[1]].status = "approved"
  /\ ~Blocked(i[2], item[i].revision, {i})
  /\ job[i] = [status |-> "failed", evidence |-> FALSE]
  /\ SetJob(i, [AbsentJob EXCEPT !.status = "queued"])
  /\ attempt' = [attempt EXCEPT ![i] = "active"]
  /\ UNCHANGED <<posts, batch, hold, calls>>

(* The offer of mapItem, which recoverStoredApprovedPublishJobTransaction  *)
(* checks again: a failure of an approved batch that left no evidence, on  *)
(* a page that nothing else owns.                                          *)
RecoveryEligible(i) ==
  /\ batch[i[1]].status = "approved" /\ item[i].state = "failed"
  /\ job[i] = [status |-> "failed", evidence |-> FALSE]
  /\ attempt[i] = "known_failed"
  /\ ~Blocked(i[2], item[i].revision, {i})

(* recoverStoredApprovedPublishJob under the exact active activation: the  *)
(* job is queued again with a new attempt generation.                      *)
Recover(i) ==
  /\ hold = i /\ RecoveryEligible(i)
  /\ SetJob(i, [AbsentJob EXCEPT !.status = "queued"])
  /\ attempt' = [attempt EXCEPT ![i] = "active"]
  /\ UNCHANGED <<posts, batch, hold, calls>>

-----------------------------------------------------------------------------

Next ==
  \/ \E p \in Pages : EditPost(p) \/ ReportElsewhere(p) \/ HandleManually(p)
  \/ ReleaseHold
  \/ \E kind \in Kinds, selected \in SUBSET Pages : ReadSelection(kind, selected)
  \/ \E b \in Batches : Approve(b)
  \/ \E c \in calls :
       \/ \E b \in Batches : CreateBatch(c, b)
       \/ \E p \in Pages : ReadDecision(c, p) \/ MaterializeAttempt(c, p)
       \/ ApproveManifest(c) \/ ListApproved(c) \/ AbandonCall(c)
  \/ \E i \in Items :
       TakeHold(i) \/ Claim(i) \/ InvalidateItem(i) \/ Fail(i) \/ Submit(i) \/ Recover(i)

Spec == Init /\ [][Next]_vars

-----------------------------------------------------------------------------
(* Properties *)

(* The rows and calls have the shape of their tables. *)
TypeOK ==
  /\ source \in [Pages -> Revisions]
  /\ handled \subseteq Pages /\ reported \subseteq Pages
  /\ batch \in [Batches -> BatchRow]
  /\ item \in [Items -> ItemRow]
  /\ job \in [Items -> JobRow]
  /\ attempt \in [Items -> AttemptState]
  /\ hold \in Items \cup {NoItem}
  /\ \A c \in calls : c \in CreateCalls \/ c \in DecideCalls \/ c \in MaterializeCalls

Live(i) == job[i].status \in {"queued", "claimed", "submitted"}

(* A page has one owner at most, whatever batches of whatever revisions    *)
(* are prepared, approved, failed and recovered around each other: one     *)
(* live job, or the operator, or a publication reported from elsewhere.    *)
OneOwnerPerPage ==
  \A i \in Items : Live(i) =>
    /\ i[2] \notin handled \cup reported
    /\ \A k \in Items : i[2] = k[2] /\ Live(k) => i = k

(* A page is under review in one manifest at most, and never while a job   *)
(* of it is live: nobody is asked to approve what another batch publishes. *)
OneReviewPerPage ==
  \A i, k \in Items : i[2] = k[2] /\ Open(i) /\ (Open(k) \/ Live(k)) => i = k

(* The items of a superseded manifest are never worked: none is open, none *)
(* has a job, though calls that read it while it was pending go on.        *)
SupersededIsNeverWorked ==
  \A i \in Items : batch[i[1]].status = "superseded" => ~Open(i) /\ ~HasJob(i)

(* A manifest is approved or superseded once: of two approvals in flight,  *)
(* or an approval and a rebuild, the later changes nothing.                *)
DecisionIsFinal ==
  [][\A b \in Batches :
       batch[b].status \notin {"absent", "pending_approval"} => batch'[b] = batch[b]]_vars

(* An approval decides every item: none is left open behind it, and every  *)
(* item that was not invalidated has its job.                              *)
ApprovalDecidesEveryItem ==
  \A b \in Batches : Decided(b) =>
    \A i \in ItemsOf(b) : ~Open(i) /\ (HasJob(i) \/ item[i].state = "invalidated")

(* The job of an item invalidated for a changed post is over: no recovery, *)
(* claim or result brings it back.                                         *)
InvalidatedIsNeverWorked ==
  \A i \in Items : item[i].state = "invalidated" => ~Live(i)

(* A queued job whose approval died before its attempt was created can     *)
(* still get one by approving the batch again.                             *)
UnattachedJobIsRepairable ==
  \A i \in Items : job[i].status = "queued" /\ attempt[i] = "none" =>
    /\ Decided(i[1]) /\ item[i].state = "queued"
    /\ \A k \in Items : k[2] = i[2] => attempt[k] # "active"

(* README: rebuilding a still-pending bootstrap supersedes the old         *)
(* manifest and invalidates its open items so they release batch           *)
(* ownership; review and approve only the replacement.  So a post that     *)
(* only the replaced manifest owned is under review in the replacement     *)
(* that selected it.                                                       *)
RebuildKeepsTheSelection ==
  [][\A b, n \in Batches, p \in Pages :
       /\ Open(<<b, p>>) /\ batch[b].status = "pending_approval"
       /\ batch'[b].status = "superseded"
       /\ batch[n].status = "absent" /\ p \in batch'[n].selected
       => item'[<<n, p>>].state = "needs_approval"]_vars
=============================================================================
