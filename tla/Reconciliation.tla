--------------------------- MODULE Reconciliation ---------------------------
(***************************************************************************)
(* How a publication the platform did not see is brought into its records: *)
(* operator attestations of a job, manual reconciliation requests, targeted*)
(* dispositions of a local job, the external reconciliation record of a    *)
(* RedNote note, and the canonical Notion page it is written to.           *)
(*                                                                         *)
(* The worker verifies a claimed request and submits what it found; the    *)
(* submission runs as a sequence of transactions and Notion calls (a       *)
(* member of calls) that interleaves with every other one, may lose its    *)
(* lease on the way, and may be abandoned after any step.                  *)
(*                                                                         *)
(* Abstractions.  A page has at most one local job, in a bounded batch; the*)
(* batch item follows the job by trigger.  A note is its id and its share  *)
(* URL.  A snapshot that does not match its request is a failed report.    *)
(* "dispatched" stands for every status after a result of the worker; the  *)
(* worker's own verification is in LocalPublishQueue.                      *)
(***************************************************************************)
EXTENDS Naturals, FiniteSets

CONSTANTS
  Pages, Notes, NoNote,
  JobPages,              \* bound: the pages a job may be queued for
  Requests, NoRequest,   \* rows of manual_reconciliation_requests
  Errors,                \* the errors a worker reports of a job
  ClaimLimit,            \* claims before an expired request is given up
  VerificationLimit,     \* deferrals before a request fails
  RetryBound,            \* bound: requests claimed more often are not retried
  MaxCalls               \* bound on the submissions in progress

ASSUME LimitsAssumption ==
  ClaimLimit \in Nat \ {0} /\ VerificationLimit \in Nat \ {0} /\ RetryBound \in Nat
ASSUME ErrorsAssumption == Errors \subseteq {"ambiguous", "other"}
ASSUME JobPagesAssumption == JobPages \subseteq Pages
ASSUME NamesAssumption == NoNote \notin Notes /\ NoRequest \notin Requests
ASSUME RowsAssumption == Pages # {} /\ Notes # {}  \* absent rows name some

VARIABLES
  job,        \* local_publish_jobs, by page
  request,    \* manual_reconciliation_requests
  external,   \* external_post_reconciliations, by note
  receipt,    \* the note of the published xhs_publish_receipts row of a page
  handling,   \* receipt_status of plan_operator_scheduled_posts
  canonical,  \* the note a Notion page shows as published
  calls       \* submissions of verified results in progress

vars == <<job, request, external, receipt, handling, canonical, calls>>
records == <<external, receipt, handling, canonical>>

-----------------------------------------------------------------------------
(* Rows *)

JobRow ==
  [status : {"absent", "queued", "claimed", "staged", "dispatched",
             "operator_attested", "verified", "reconciled", "failed"},
   token : BOOLEAN,                        \* claim_token IS NOT NULL
   leased : BOOLEAN,
   staged : BOOLEAN, authorized : BOOLEAN,
   attested : {"no", "worker_ambiguous", "manual_scheduled"},
   released : BOOLEAN,                     \* the release is acknowledged
   disposition : Requests \cup {NoRequest},
   note : Notes \cup {NoNote},
   error : {"none", "ambiguous", "other"}]
RequestRow ==
  [status : {"absent", "queued", "verifying", "reconciled", "failed"},
   kind : {"notion_only", "targeted_local_job"},
   page : Pages, note : Notes,
   token : Nat,                            \* the claim it is of, 0 for NULL
   leased : BOOLEAN,
   claims : Nat,                           \* claim_attempts
   deferrals : Nat]                        \* verification_attempts
ExternalRow ==
  [status : {"none", "processing", "succeeded", "failed"},
   page : Pages, stale : BOOLEAN]
Steps == {"prepare", "begin", "lookup", "write", "succeed", "complete",
          "close failed", "close deferred", "fail", "defer"}
Call == [request : Requests, token : Nat, at : Steps]

SomePage == CHOOSE p \in Pages : TRUE
Init ==
  /\ job = [p \in Pages |->
       [status |-> "absent", token |-> FALSE, leased |-> FALSE, staged |-> FALSE,
        authorized |-> FALSE, attested |-> "no", released |-> FALSE,
        disposition |-> NoRequest, note |-> NoNote, error |-> "none"]]
  /\ request = [r \in Requests |->
       [status |-> "absent", kind |-> "notion_only", page |-> SomePage,
        note |-> CHOOSE n \in Notes : TRUE, token |-> 0, leased |-> FALSE,
        claims |-> 0, deferrals |-> 0]]
  /\ external = [n \in Notes |-> [status |-> "none", page |-> SomePage, stale |-> FALSE]]
  /\ receipt = [p \in Pages |-> NoNote]
  /\ handling = [p \in Pages |-> "none"]
  /\ canonical = [p \in Pages |-> NoNote]
  /\ calls = {}

Exists(r) == request[r].status # "absent"
Active(r) == request[r].status \in {"queued", "verifying"}
ActiveOn(p) == \E r \in Requests : Active(r) /\ request[r].page = p
Targets(r, p) == Exists(r) /\ request[r].kind = "targeted_local_job" /\ request[r].page = p
\* assertCurrentClaim, assertCurrentRequestClaim
Current(r, t) ==
  request[r].status = "verifying" /\ request[r].token = t /\ request[r].leased
Handled(p) == handling[p] # "none"
Quarantined(p) ==
  job[p].disposition # NoRequest \/ \E r \in Requests : Targets(r, p)
SetJob(p, row) == job' = [job EXCEPT ![p] = row]
SetRequest(r, row) == request' = [request EXCEPT ![r] = row]

-----------------------------------------------------------------------------
(* The local job, as far as it competes with the operator *)

\* rednote_publish_revision_blockers: whatever owns the page keeps a job out.
PageUnowned(p) ==
  /\ \A r \in Requests : ~(Exists(r) /\ request[r].page = p)
  /\ \A n \in Notes : ~(external[n].status = "succeeded" /\ external[n].page = p)
  /\ receipt[p] = NoNote

\* Slip: only a handled page keeps a job out.
QueueJobBesideRequests(p) ==
  /\ p \in JobPages /\ job[p].status = "absent" /\ ~Handled(p)
  /\ SetJob(p, [job[p] EXCEPT !.status = "queued"])
  /\ UNCHANGED <<request, records, calls>>
(* insertLocalPublishJob *)
QueueJob(p) ==
  /\ p \in JobPages
  /\ job[p].status = "absent" /\ PageUnowned(p) /\ ~Handled(p)
  /\ SetJob(p, [job[p] EXCEPT !.status = "queued"])
  /\ UNCHANGED <<request, records, calls>>

\* Slip: the quarantine of a disposition is not asked for.
ClaimJobQuarantined(p) ==
  /\ job[p].status = "queued" /\ ~Handled(p)
  /\ SetJob(p, [job[p] EXCEPT !.status = "claimed", !.token = TRUE, !.leased = TRUE])
  /\ UNCHANGED <<request, records, calls>>
(* claimNextStoredLocalPublishJob *)
ClaimJob(p) ==
  /\ job[p].status = "queued" /\ ~Handled(p) /\ ~Quarantined(p)
  /\ SetJob(p, [job[p] EXCEPT !.status = "claimed", !.token = TRUE, !.leased = TRUE])
  /\ UNCHANGED <<request, records, calls>>

HeldByWorker(p) == job[p].token /\ job[p].leased /\ ~Handled(p) /\ ~Quarantined(p)
(* stageStoredLocalPublishJob, consumeStoredDispatchAuthorization *)
StageJob(p) ==
  /\ job[p].status = "claimed" /\ HeldByWorker(p)
  /\ SetJob(p, [job[p] EXCEPT !.status = "staged", !.staged = TRUE])
  /\ UNCHANGED <<request, records, calls>>
AuthorizeJob(p) ==
  /\ job[p].status = "staged" /\ HeldByWorker(p)
  /\ SetJob(p, [job[p] EXCEPT !.authorized = TRUE])
  /\ UNCHANGED <<request, records, calls>>
DispatchJob(p) ==
  /\ job[p].status = "staged" /\ job[p].authorized /\ HeldByWorker(p)
  /\ SetJob(p, [job[p] EXCEPT !.status = "dispatched", !.leased = FALSE])
  /\ UNCHANGED <<request, records, calls>>
(* failStoredLocalPublishJob: "ambiguous" is AMBIGUOUS_CREATOR_UI. *)
FailJob(p, error) ==
  /\ job[p].status \in {"claimed", "staged"} /\ HeldByWorker(p)
  /\ SetJob(p, [job[p] EXCEPT !.status = "failed", !.token = FALSE,
                              !.leased = FALSE, !.error = error])
  /\ UNCHANGED <<request, records, calls>>
ExpireJobLease(p) ==
  /\ job[p].leased
  /\ SetJob(p, [job[p] EXCEPT !.leased = FALSE])
  /\ UNCHANGED <<request, records, calls>>
(* releaseExpiredStoredLocalPublishClaims: an authorized job may have been *)
(* published and waits for its verification.                               *)
ReleaseExpired(p) ==
  /\ job[p].status \in {"claimed", "staged"} /\ ~job[p].leased
  /\ job[p].disposition = NoRequest
  /\ job[p].authorized => ~Handled(p)
  /\ SetJob(p, [job[p] EXCEPT
       !.status = IF job[p].authorized THEN "dispatched" ELSE "failed",
       !.token = FALSE, !.error = "other"])
  /\ UNCHANGED <<request, records, calls>>

-----------------------------------------------------------------------------
(* The operator: handling a post by hand, attesting a success *)

(* hasLiveUnsafeOwnership, then insertManualPostHandling.  A quarantined   *)
(* job is failed like any other.                                           *)
OwnedByAutomation(p) ==
  \/ job[p].status \in {"dispatched", "operator_attested", "verified", "reconciled"}
  \/ job[p].status \in {"claimed", "staged"} /\ job[p].leased
PublishedElsewhere(p) ==
  \/ receipt[p] # NoNote
  \/ \E n \in Notes : external[n].status = "succeeded" /\ external[n].page = p
ClosedByHand(p) ==
  IF job[p].status \in {"absent", "failed"} THEN job[p]
  ELSE [job[p] EXCEPT !.status = "failed", !.token = FALSE,
                      !.leased = FALSE, !.error = "other"]
HandleManually(p) ==
  /\ ~Handled(p) /\ ~OwnedByAutomation(p) /\ ~PublishedElsewhere(p)
  /\ handling' = [handling EXCEPT ![p] = "pending"]
  /\ SetJob(p, ClosedByHand(p))
  /\ UNCHANGED <<request, external, receipt, canonical, calls>>

(* validateOperatorSuccessCandidate *)
Attestable(p) ==
  /\ job[p].token
  /\ job[p].note = NoNote /\ job[p].disposition = NoRequest
  /\ \/ /\ job[p].status = "staged" /\ ~job[p].leased
        /\ job[p].staged /\ job[p].authorized
     \/ /\ job[p].status = "failed" /\ job[p].error = "ambiguous"
        /\ job[p].staged \/ job[p].authorized
AttestedRow(p, provenance) ==
  [job[p] EXCEPT !.status = "operator_attested", !.attested = provenance,
                 !.token = FALSE, !.leased = FALSE, !.error = "none"]

(* insertOperatorSuccessAttestation *)
AttestSuccess(p) ==
  /\ Attestable(p) /\ PageUnowned(p) /\ ~Handled(p)
  /\ SetJob(p, AttestedRow(p, "worker_ambiguous"))
  /\ UNCHANGED <<request, records, calls>>
(* A frozen item whose job is missing, or was never touched by a worker;   *)
(* handling the page invalidates its items.                                *)
FrozenItem(p) == p \in JobPages /\ ~Handled(p)
SafeQueuedJob(p) == job[p].status = "queued" /\ job[p].disposition = NoRequest
(* The job, inserted first if it is missing, becomes the attestation's. *)
ScheduledByHand(p) == SetJob(p, AttestedRow(p, "manual_scheduled"))
(* insertManualSchedulingAttestation *)
AttestScheduling(p) ==
  /\ FrozenItem(p)
  /\ job[p].status = "absent" \/ SafeQueuedJob(p)
  /\ PageUnowned(p)
  /\ ScheduledByHand(p)
  /\ UNCHANGED <<request, records, calls>>

(* The verification lane hands out the release of an attested success, and *)
(* acknowledgeOperatorSuccessAttestationRelease consumes it.               *)
ClaimRelease(p) ==
  /\ job[p].status = "operator_attested" /\ job[p].attested = "worker_ambiguous"
  /\ ~job[p].leased /\ ~Handled(p) /\ ~Quarantined(p)
  /\ SetJob(p, [job[p] EXCEPT !.token = TRUE, !.leased = TRUE])
  /\ UNCHANGED <<request, records, calls>>
AcknowledgeRelease(p) ==
  /\ job[p].status = "operator_attested" /\ ~job[p].released
  /\ job[p].token /\ job[p].leased
  /\ SetJob(p, [job[p] EXCEPT !.released = TRUE, !.leased = FALSE])
  /\ UNCHANGED <<request, records, calls>>

-----------------------------------------------------------------------------
(* Requests: created, claimed, retried *)

NewRequest(kind, p, n) ==
  [status |-> "queued", kind |-> kind, page |-> p, note |-> n, token |-> 0,
   leased |-> FALSE, claims |-> 0, deferrals |-> 0]
\* The unique indexes on requests: page and note, the active one of a page.
Insertable(r, p, n) ==
  /\ ~Exists(r) /\ ~ActiveOn(p)
  /\ \A q \in Requests : ~(Exists(q) /\ request[q].page = p /\ request[q].note = n)

(* createManualReconciliation, insertManualReconciliation: reporting a     *)
(* public post closes a job no worker holds.                               *)
Idle(p) ==
  \/ job[p].status = "queued"
  \/ job[p].status \in {"claimed", "staged"} /\ ~job[p].leased
ReportPublished(r, p, n) ==
  /\ Insertable(r, p, n) /\ handling[p] # "reconciled"
  /\ \/ job[p].status \in {"absent", "failed", "reconciled"} /\ UNCHANGED job
     \/ /\ Idle(p) /\ job[p].disposition = NoRequest
        /\ SetJob(p, [job[p] EXCEPT !.status = "failed", !.token = FALSE, !.error = "other"])
  /\ SetRequest(r, NewRequest("notion_only", p, n))
  /\ UNCHANGED <<records, calls>>

(* assertEligibleDispositionJob: released, or never staged and not held. *)
Disposable(p) ==
  /\ job[p].note = NoNote
  /\ \/ /\ job[p].status = "operator_attested"
        /\ job[p].attested = "worker_ambiguous" => job[p].released
     \/ /\ job[p].status = "queued" \/ (job[p].status = "claimed" /\ ~job[p].leased)
        /\ ~job[p].staged /\ ~job[p].authorized
(* assertReceiptAndIdentitySafety *)
IdentitySafe(p, n) ==
  /\ \A q \in Pages : /\ receipt[q] = n => q = p
                      /\ job[q].note = n => q = p
  /\ receipt[p] \in IF job[p].status = "operator_attested" THEN {NoNote} ELSE {NoNote, n}
  /\ \A q \in Requests : ~(Targets(q, p) \/ (Targets(q, request[q].page) /\ request[q].note = n))
  /\ \/ external[n].status \in {"none", "failed"}
     \/ external[n].status = "succeeded" /\ external[n].page = p
InsertDisposition(r, p, n) ==
  /\ Insertable(r, p, n)
  /\ Disposable(p) /\ job[p].disposition = NoRequest /\ IdentitySafe(p, n)
  /\ SetJob(p, [job[p] EXCEPT !.disposition = r, !.token = FALSE, !.leased = FALSE])
  /\ SetRequest(r, NewRequest("targeted_local_job", p, n))
  /\ UNCHANGED <<records, calls>>

Lapsed(r) == request[r].status = "verifying" /\ ~request[r].leased
Claimed(r) == [request[r] EXCEPT !.status = "verifying", !.token = request[r].claims + 1,
                                 !.claims = @ + 1, !.leased = TRUE]
\* Slip: an expired request is claimed however often that was tried.
ClaimDueUncounted(r) ==
  /\ request[r].status = "queued" \/ Lapsed(r)
  /\ SetRequest(r, [Claimed(r) EXCEPT !.claims = 1, !.token = 1])
  /\ UNCHANGED <<job, records, calls>>
(* claimDueManualReconciliations: the due requests, and the exhausted ones *)
(* it fails first.                                                         *)
ClaimDue(r) ==
  /\ request[r].status = "queued" \/ (Lapsed(r) /\ request[r].claims < ClaimLimit)
  /\ SetRequest(r, Claimed(r))
  /\ UNCHANGED <<job, records, calls>>
ExhaustClaims(r) ==
  /\ Lapsed(r) /\ request[r].claims >= ClaimLimit
  /\ SetRequest(r, [request[r] EXCEPT !.status = "failed"])
  /\ UNCHANGED <<job, records, calls>>
ExpireRequestLease(r) ==
  /\ request[r].leased
  /\ SetRequest(r, [request[r] EXCEPT !.leased = FALSE])
  /\ UNCHANGED <<job, records, calls>>

Requeued(r) == [request[r] EXCEPT !.status = "queued", !.token = 0, !.deferrals = 0]
(* retryManualReconciliation: the claims are not counted anew. *)
Retry(r) ==
  /\ request[r].status = "failed" /\ request[r].kind = "notion_only"
  /\ request[r].claims <= RetryBound
  /\ LET p == request[r].page IN
       /\ job[p].status \in {"absent", "failed", "reconciled"} /\ ~ActiveOn(p)
       /\ handling[p] # "reconciled"
  /\ SetRequest(r, Requeued(r))
  /\ UNCHANGED <<job, records, calls>>
(* retryExternalJobDisposition; the unique index keeps one active request. *)
RetryDisposition(r) ==
  /\ request[r].status = "failed" /\ request[r].kind = "targeted_local_job"
  /\ request[r].claims <= RetryBound
  /\ LET p == request[r].page IN
       /\ \/ Disposable(p)
          \/ job[p].status = "verified" /\ job[p].note = request[r].note
       /\ ~ActiveOn(p)
  /\ SetRequest(r, Requeued(r))
  /\ UNCHANGED <<job, records, calls>>

-----------------------------------------------------------------------------
(* Reports of the worker that holds the claim *)

Failed(r) == [request[r] EXCEPT !.status = "failed", !.leased = FALSE]
\* Slip: the lease of a deferred request stays.
DeferredHeld(r) ==
  LET n == request[r].deferrals + 1 IN
  [request[r] EXCEPT !.status = IF n >= VerificationLimit THEN "failed" ELSE "queued",
                     !.deferrals = n]
(* The update of deferManualReconciliation *)
Deferred(r) ==
  LET n == request[r].deferrals + 1 IN
  [request[r] EXCEPT !.status = IF n >= VerificationLimit THEN "failed" ELSE "queued",
                     !.deferrals = n, !.leased = FALSE]

ReportPending(r) ==
  /\ Current(r, request[r].token)
  /\ SetRequest(r, Deferred(r))
  /\ UNCHANGED <<job, records, calls>>
ReportFailed(r) ==
  /\ Current(r, request[r].token)
  /\ SetRequest(r, Failed(r))
  /\ UNCHANGED <<job, records, calls>>
(* recordManualVerifiedSnapshot, then the steps below: a call carries the  *)
(* snapshot that is recorded first.                                        *)
ReportVerified(r) ==
  /\ Current(r, request[r].token) /\ Cardinality(calls) < MaxCalls
  /\ calls' = calls \cup {[request |-> r, token |-> request[r].token,
       at |-> IF request[r].kind = "targeted_local_job" THEN "prepare" ELSE "begin"]}
  /\ UNCHANGED <<job, request, records>>

-----------------------------------------------------------------------------
(* The steps of a submission *)

PageOf(c) == request[c.request].page
NoteOf(c) == request[c.request].note
Targeted(c) == request[c.request].kind = "targeted_local_job"
Move(c, at) == calls' = (calls \ {c}) \cup {[c EXCEPT !.at = at]}
Finish(c) == calls' = calls \ {c}

\* ensureVerifiedPublishedReceipt, assertExactPublishedReceipt
ReceiptFits(p, n) ==
  receipt[p] \in {NoNote, n} /\ \A q \in Pages \ {p} : receipt[q] # n
ReceiptIsExact(c) == receipt[PageOf(c)] = NoteOf(c)
(* prepareExternalJobDisposition: the job takes the note and its receipt.  *)
(* Every refusal is a 409.                                                 *)
Prepare(c) ==
  LET p == PageOf(c)  n == NoteOf(c)
      fits == /\ Current(c.request, c.token)
              /\ Disposable(p) \/ (job[p].status = "verified" /\ job[p].note = n)
              /\ ReceiptFits(p, n)
  IN
  /\ c.at = "prepare"
  /\ \/ /\ request[c.request].status = "reconciled"
        /\ Finish(c) /\ UNCHANGED <<job, receipt>>
     \/ /\ fits
        /\ SetJob(p, [job[p] EXCEPT !.status = "verified", !.note = n, !.token = FALSE,
                                    !.leased = FALSE, !.error = "none"])
        /\ receipt' = [receipt EXCEPT ![p] = n]
        /\ Move(c, "begin")
     \/ /\ ~fits /\ request[c.request].status # "reconciled"
        /\ Move(c, "fail") /\ UNCHANGED <<job, receipt>>
  /\ UNCHANGED <<request, external, handling, canonical>>

\* beginExternalReconciliation: another disposition owns the note.
OwnedElsewhere(c) ==
  \E q \in Requests \ {c.request} :
    Exists(q) /\ request[q].kind = "targeted_local_job" /\ request[q].note = NoteOf(c)
Reclaimable(n) ==
  \/ external[n].status \in {"none", "failed"}
  \/ external[n].status = "processing" /\ external[n].stale
\* Slip: a record that succeeded for another page is taken over.
BeginTakingOver(c) ==
  LET n == NoteOf(c) IN
  /\ c.at = "begin" /\ ~OwnedElsewhere(c)
  /\ Reclaimable(n) \/ (external[n].status = "succeeded" /\ external[n].page # PageOf(c))
  /\ external' = [external EXCEPT ![n].status = "processing", ![n].stale = FALSE]
  /\ Move(c, "lookup")
  /\ UNCHANGED <<job, request, receipt, handling, canonical>>
(* The record is inserted, or reclaimed without a token of its own. *)
Begin(c) ==
  LET n == NoteOf(c) IN
  /\ c.at = "begin" /\ ~OwnedElsewhere(c) /\ Reclaimable(n)
  /\ external' = [external EXCEPT ![n].status = "processing", ![n].stale = FALSE]
  /\ Move(c, "lookup")
  /\ UNCHANGED <<job, request, receipt, handling, canonical>>
\* completedResult
CompletedHere(c) ==
  external[NoteOf(c)].status = "succeeded" /\ external[NoteOf(c)].page = PageOf(c)
(* The result of a record that succeeded before, or a conflict. *)
BeginKnown(c) ==
  LET n == NoteOf(c) IN
  /\ c.at = "begin"
  /\ \/ OwnedElsewhere(c) /\ Move(c, "fail")
     \/ /\ ~OwnedElsewhere(c) /\ external[n].status = "succeeded"
        /\ Move(c, IF CompletedHere(c) THEN "complete" ELSE "fail")
     \/ \* RECONCILIATION_IN_PROGRESS leaves the request to its lease
        /\ ~OwnedElsewhere(c) /\ external[n].status = "processing" /\ ~external[n].stale
        /\ Finish(c)
  /\ UNCHANGED <<job, request, records>>
(* Five minutes pass. *)
StaleExternal(n) ==
  /\ external[n].status = "processing" /\ ~external[n].stale
  /\ external' = [external EXCEPT ![n].stale = TRUE]
  /\ UNCHANGED <<job, request, receipt, handling, canonical, calls>>

\* Another canonical post carries the note; publishedResultState "conflict".
MatchesElsewhere(c) == \E q \in Pages \ {PageOf(c)} : canonical[q] = NoteOf(c)
PublishedConflict(c) == canonical[PageOf(c)] \notin {NoNote, NoteOf(c)}
(* reconcileExternalXhsPost with a target page: it reads Notion, decides,  *)
(* and writes; Notion may fail before or after it applied the write.       *)
Lookup(c) ==
  LET conflict == MatchesElsewhere(c) \/ PublishedConflict(c) IN
  /\ c.at = "lookup"
  /\ \/ Move(c, "close deferred")
     \/ Move(c, IF conflict THEN "close failed" ELSE "write")
  /\ UNCHANGED <<job, request, records>>
Write(c) ==
  /\ c.at = "write"
  /\ \/ /\ canonical' = [canonical EXCEPT ![PageOf(c)] = NoteOf(c)]
        /\ \/ Move(c, "succeed")
           \/ Move(c, "close deferred")
     \/ Move(c, "close deferred") /\ UNCHANGED canonical
  /\ UNCHANGED <<job, request, external, receipt, handling>>

(* completeExternalReconciliation, failExternalReconciliation: whoever     *)
(* finds the record processing settles it.                                 *)
Succeed(c) ==
  LET n == NoteOf(c) IN
  /\ c.at = "succeed"
  /\ IF external[n].status = "processing"
     THEN /\ external' = [external EXCEPT ![n] =
               [status |-> "succeeded", page |-> PageOf(c), stale |-> FALSE]]
          /\ Move(c, "complete")
     ELSE UNCHANGED external /\ Move(c, "close deferred")
  /\ UNCHANGED <<job, request, receipt, handling, canonical>>
CloseExternal(c) ==
  LET n == NoteOf(c) IN
  /\ c.at \in {"close failed", "close deferred"}
  /\ external' = IF external[n].status = "processing"
                 THEN [external EXCEPT ![n].status = "failed", ![n].stale = FALSE]
                 ELSE external
  /\ Move(c, IF c.at = "close failed" THEN "fail" ELSE "defer")
  /\ UNCHANGED <<job, request, receipt, handling, canonical>>

Reconciled(r) == [request[r] EXCEPT !.status = "reconciled", !.leased = FALSE]
(* completeManualReconciliation *)
ManuallyCompletable(c) ==
  LET p == PageOf(c)  n == NoteOf(c) IN
  /\ ~Targeted(c) /\ Current(c.request, c.token)
  /\ external[n].status = "succeeded" /\ external[n].page = p
  /\ handling[p] # "reconciled" /\ receipt[p] \in {NoNote, n}
CompleteManual(c) ==
  LET p == PageOf(c)  n == NoteOf(c) IN
  /\ c.at = "complete" /\ ManuallyCompletable(c)
  /\ receipt' = [receipt EXCEPT ![p] = n]
  /\ handling' = [handling EXCEPT ![p] = IF @ = "pending" THEN "reconciled" ELSE @]
  /\ SetRequest(c.request, Reconciled(c.request))
  /\ Finish(c)
  /\ UNCHANGED <<job, external, canonical>>
(* completeExternalJobDisposition *)
CompleteDisposition(c) ==
  LET p == PageOf(c)  n == NoteOf(c) IN
  /\ c.at = "complete" /\ Targeted(c) /\ Current(c.request, c.token)
  /\ job[p].status \in {"verified", "reconciled"} /\ job[p].note = n
  /\ ReceiptIsExact(c)
  /\ SetJob(p, [job[p] EXCEPT !.status = "reconciled"])
  /\ SetRequest(c.request, Reconciled(c.request))
  /\ Finish(c)
  /\ UNCHANGED <<records>>
RefuseComplete(c) ==
  LET p == PageOf(c)  n == NoteOf(c) IN
  /\ c.at = "complete"
  /\ \/ ~Current(c.request, c.token)
     \/ Targeted(c) /\ (job[p].note # n \/ ~ReceiptIsExact(c))
     \/ ~Targeted(c) /\ (handling[p] = "reconciled" \/ receipt[p] \notin {NoNote, n})
  /\ Move(c, "fail")
  /\ UNCHANGED <<job, request, records>>

(* The error of a step: a 4xx fails the request, anything else defers it,  *)
(* and a claim that is no longer current changes nothing.                  *)
Settle(c) ==
  /\ c.at \in {"fail", "defer"}
  /\ IF Current(c.request, c.token)
     THEN SetRequest(c.request, IF c.at = "fail" THEN Failed(c.request)
                                                 ELSE Deferred(c.request))
     ELSE UNCHANGED request
  /\ Finish(c)
  /\ UNCHANGED <<job, records>>
(* The process ends between two steps. *)
AbandonCall(c) == Finish(c) /\ UNCHANGED <<job, request, records>>

-----------------------------------------------------------------------------

JobStep(p) ==
  \/ QueueJob(p) \/ ClaimJob(p) \/ StageJob(p) \/ AuthorizeJob(p) \/ DispatchJob(p)
  \/ \E error \in Errors : FailJob(p, error)
  \/ ExpireJobLease(p) \/ ReleaseExpired(p)
OperatorStep(p) ==
  \/ HandleManually(p) \/ AttestSuccess(p) \/ AttestScheduling(p)
  \/ ClaimRelease(p) \/ AcknowledgeRelease(p)
RequestStep(r) ==
  \/ \E p \in Pages, n \in Notes : ReportPublished(r, p, n) \/ InsertDisposition(r, p, n)
  \/ ClaimDue(r) \/ ExhaustClaims(r) \/ ExpireRequestLease(r)
  \/ Retry(r) \/ RetryDisposition(r)
  \/ ReportPending(r) \/ ReportFailed(r) \/ ReportVerified(r)
CallStep(c) ==
  \/ Prepare(c) \/ Begin(c) \/ BeginKnown(c) \/ Lookup(c) \/ Write(c) \/ Succeed(c)
  \/ CloseExternal(c) \/ CompleteManual(c) \/ CompleteDisposition(c)
  \/ RefuseComplete(c) \/ Settle(c) \/ AbandonCall(c)

Next ==
  \/ \E p \in Pages : JobStep(p) \/ OperatorStep(p)
  \/ \E r \in Requests : RequestStep(r)
  \/ \E n \in Notes : StaleExternal(n)
  \/ \E c \in calls : CallStep(c)
Spec == Init /\ [][Next]_vars
(* Leases run out, and the worker keeps asking for due requests. *)
FairSpec ==
  /\ Spec
  /\ \A r \in Requests : /\ WF_vars(ClaimDue(r))
                         /\ WF_vars(ExhaustClaims(r))
                         /\ WF_vars(ExpireRequestLease(r))

-----------------------------------------------------------------------------
(* Properties *)

\* Rows have their types, a queued request has no lease, a held claim is of
\* the latest count, and no job is leased without a token.
TypeOK ==
  /\ job \in [Pages -> JobRow]
  /\ request \in [Requests -> RequestRow]
  /\ external \in [Notes -> ExternalRow]
  /\ receipt \in [Pages -> Notes \cup {NoNote}]
  /\ handling \in [Pages -> {"none", "pending", "reconciled"}]
  /\ canonical \in [Pages -> Notes \cup {NoNote}]
  /\ calls \subseteq Call
  /\ \A r \in Requests :
       /\ request[r].leased => request[r].status = "verifying"
       /\ request[r].status = "verifying" => request[r].token = request[r].claims
  /\ \A p \in Pages : job[p].leased => job[p].token

\* A reconciled request is backed by everything it claims, whoever else
\* worked on the note meanwhile: the external record succeeded for its page,
\* the page's receipt is of its note, a targeted job carries it, and no other
\* page was reconciled with it.
ReconciledIsBacked ==
  \A r \in Requests : request[r].status = "reconciled" =>
    LET p == request[r].page  n == request[r].note IN
    /\ external[n].status = "succeeded" /\ external[n].page = p
    /\ receipt[p] = n
    /\ Targets(r, p) => job[p].status = "reconciled" /\ job[p].note = n

\* While a published post waits for its verification, its page has no job
\* that could be dispatched, however the request came to be active.
ReportedPageIsNotDispatched ==
  \A r \in Requests : Active(r) /\ request[r].kind = "notion_only" =>
    job[request[r].page].status \notin {"queued", "claimed", "staged"}

\* What was quarantined, handled or attested is closed to automation: no
\* worker claims, stages, authorizes or dispatches that job again.
ClosedStaysClosed ==
  [][\A p \in Pages :
       Quarantined(p) \/ Handled(p) \/ job[p].attested # "no" =>
         /\ job'[p].status \in {"claimed", "staged", "dispatched"} =>
              job'[p].status = job[p].status
         /\ job'[p].authorized => job[p].authorized]_vars

\* A request does not wait for ever: it is reconciled or it fails.
RequestsSettle ==
  \A r \in Requests : Active(r) ~> request[r].status \in {"reconciled", "failed"}

\* The README offers the attestation for every attempt that ended with the
\* ambiguous Creator page; the failure itself erases the claim it demands.
AmbiguousCanBeAttested ==
  \A p \in Pages :
    /\ job[p].status = "failed" /\ job[p].error = "ambiguous"
    /\ job[p].staged \/ job[p].authorized
    /\ PageUnowned(p) /\ ~Handled(p)
    => Attestable(p)
=============================================================================
