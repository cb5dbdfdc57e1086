------------------------- MODULE LocalPublishQueue -------------------------
(***************************************************************************)
(* The RedNote publishing queue of xhs-platform: the rows of              *)
(* local_publish_jobs with the publishing attempt linked to each, the     *)
(* statements the service layer runs on them, and the service calls that  *)
(* need several statements and may be cut short between two of them.      *)
(*                                                                        *)
(* One action is one database transaction (or one read that decides what  *)
(* the call does next).  A call that still owes a transaction is a record *)
(* in "calls"; it may run much later, or never (AbandonCall).             *)
(*                                                                        *)
(* Abstractions.  A lease is a Boolean ("claim_expires_at is in the       *)
(* future"), so a heartbeat changes nothing; every due time is taken as   *)
(* reached at some point; a note id and a share URL are present or not.   *)
(* Job ids carry the page, the timing mode and the kind of consent they   *)
(* are queued with, which never change after the insert.                  *)
(***************************************************************************)
EXTENDS Naturals, FiniteSets

CONSTANTS
  Jobs,         \* ids of local publish jobs
  Pages,        \* Notion pages
  PageOf,       \* the page each job publishes
  BatchJobs,    \* jobs of approved batches: approved at once, source re-read
  PostNowJobs,  \* jobs whose frozen payload has timingMode = post_now
  Tokens,       \* claim tokens a worker may present, fresh or replayed
  NoToken,      \* claim_token IS NULL
  Lanes,        \* lanes the workers poll: all, dispatch, verification
  MaxRevision,  \* bound on the edits of one Notion page
  MaxCalls      \* bound on the service calls in flight

ASSUME JobsAssumption ==
  /\ PageOf \in [Jobs -> Pages]
  /\ BatchJobs \subseteq Jobs
  /\ PostNowJobs \subseteq Jobs
ASSUME TokensAssumption == NoToken \notin Tokens
ASSUME LanesAssumption == Lanes \subseteq {"all", "dispatch", "verification"}
ASSUME BoundsAssumption == MaxRevision \in Nat \ {0} /\ MaxCalls \in Nat

VARIABLES
  job,        \* local_publish_jobs
  attempt,    \* rednote_publish_attempts: the attempt linked to each job
  source,     \* the current revision of each Notion page
  published,  \* pages whose Notion record was backfilled as Published
  handled,    \* pages with a row in plan_operator_scheduled_posts
  calls,      \* service calls between two of their transactions
  permits     \* history: <<job, token>> answered with a dispatch permit

vars == <<job, attempt, source, published, handled, calls, permits>>

-----------------------------------------------------------------------------
(* Rows *)

JobStatus == {"absent", "queued", "claimed", "staged", "submitted",
  "scheduled", "verification_pending", "verified", "reconciled", "failed"}
Dispatching == {"claimed", "staged"}
Verifying == {"submitted", "scheduled", "verification_pending"}

JobRow ==
  [status : JobStatus,
   revision : 0..MaxRevision,            \* snapshot.notionLastEditedTime
   token : Tokens \cup {NoToken},        \* claim_token
   leased : BOOLEAN,                     \* claim_expires_at > now
   staged : BOOLEAN,                     \* staged_at IS NOT NULL
   authorized : BOOLEAN,                 \* dispatch_authorized_at IS NOT NULL
   dispatched : BOOLEAN,                 \* dispatched_at IS NOT NULL
   note : BOOLEAN,                       \* note_id IS NOT NULL
   share : BOOLEAN,                      \* share_url IS NOT NULL
   receipt : {"none", "acknowledged", "scheduled", "ambiguous", "rejected"},
   error : {"none", "worker", "CLAIM_LEASE_EXPIRED", "BATCH_SOURCE_CHANGED",
            "MANUAL_HANDLING_RECORDED"}]

AttemptRow ==
  [exists : BOOLEAN,
   active : BOOLEAN,
   approved : BOOLEAN,                   \* approved_at IS NOT NULL
   outcome : {"none", "accepted", "known_failed", "outcome_unknown"},
   lookup : {"pending", "identity_pending", "found", "not_required"},
   token : Tokens \cup {NoToken},
   leased : BOOLEAN,
   authorized : BOOLEAN,                 \* dispatch_authorized_at IS NOT NULL
   receipt : BOOLEAN,                    \* a rednote_publish_attempt_receipts row
   reported : BOOLEAN]                   \* a worker's terminal_outcome_recorded event

AbsentJob ==
  [status |-> "absent", revision |-> 0, token |-> NoToken, leased |-> FALSE,
   staged |-> FALSE, authorized |-> FALSE, dispatched |-> FALSE,
   note |-> FALSE, share |-> FALSE, receipt |-> "none", error |-> "none"]
NoAttempt ==
  [exists |-> FALSE, active |-> FALSE, approved |-> FALSE, outcome |-> "none",
   lookup |-> "pending", token |-> NoToken, leased |-> FALSE,
   authorized |-> FALSE, receipt |-> FALSE, reported |-> FALSE]

(* What a worker reports of the browser: match is whether the account (and *)
(* for scheduled the time) is the frozen one, identity is what the report  *)
(* names: nothing, the note id, or the note id with its public URL.        *)
Results ==
  [outcome : {"acknowledged"}, match : BOOLEAN, identity : {"note", "url"}]
    \cup [outcome : {"scheduled"}, match : BOOLEAN, identity : {"none", "note"}]
    \cup [outcome : {"ambiguous", "rejected", "failed"}, match : {TRUE},
          identity : {"none"}]
    \cup [outcome : {"verified"}, match : {TRUE}, identity : {"url"}]
LateResults == {r \in Results : r.outcome \in {"scheduled", "ambiguous", "rejected"}}

(* A call in flight and the transaction it owes next. *)
ClaimCalls == [op : {"bind", "recheck"}, job : Jobs, token : Tokens]
PermitCalls == [op : {"authorizeAttempt", "consume"}, job : Jobs, token : Tokens]
ResultCalls == [op : {"record", "backfill", "complete"}, job : Jobs,
                token : Tokens, result : Results]
Calls == ClaimCalls \cup PermitCalls \cup ResultCalls

SamePage(j) == {k \in Jobs \ {j} : PageOf[k] = PageOf[j]}
Handled(j) == PageOf[j] \in handled
SourceMatches(j) == source[PageOf[j]] = job[j].revision
\* The claim checks every statement of the job store makes of its caller.
Holds(j, t) == job[j].token = t /\ job[j].leased
Starts(c) == Cardinality(calls) < MaxCalls /\ calls' = calls \cup {c}
Continues(c, d) == calls' = (calls \ {c}) \cup {d}
Ends(c) == calls' = calls \ {c}

Init ==
  /\ job = [j \in Jobs |-> AbsentJob]
  /\ attempt = [j \in Jobs |-> NoAttempt]
  /\ source = [p \in Pages |-> 1]
  /\ published = {}
  /\ handled = {}
  /\ calls = {}
  /\ permits = {}

-----------------------------------------------------------------------------
(* Queueing *)

\* Slips: trusting the outcome alone; forgetting the attempt's authorization.
AllowsNewerRevisionByOutcome(k, revision) ==
  /\ job[k].revision < revision /\ job[k].status = "failed"
  /\ ~attempt[k].active /\ attempt[k].outcome = "known_failed"
AllowsNewerRevisionByJob(k, revision) ==
  /\ AllowsNewerRevisionByOutcome(k, revision)
  /\ ~job[k].authorized /\ ~job[k].dispatched /\ ~job[k].note
  /\ job[k].receipt = "none"

(* rednote_publish_local_job_allows_newer_revision: the earlier job k left *)
(* nothing behind that could be a publication.                             *)
AllowsNewerRevision(k, revision) ==
  /\ job[k].revision < revision
  /\ job[k].status = "failed"
  /\ ~job[k].staged /\ ~job[k].authorized /\ ~job[k].dispatched
  /\ ~job[k].note /\ ~job[k].share
  /\ job[k].receipt = "none"
  /\ attempt[k].exists /\ ~attempt[k].active
  /\ attempt[k].outcome = "known_failed"
  /\ attempt[k].lookup = "not_required"
  /\ ~attempt[k].authorized /\ ~attempt[k].receipt

(* insertLocalPublishJob, and the job insert of a batch approval.  The     *)
(* snapshot was read from Notion earlier, so its revision may be old.      *)
InsertJob(j) ==
  /\ job[j].status = "absent"
  /\ ~Handled(j)
  /\ \E revision \in 1..source[PageOf[j]] :
       /\ \A k \in SamePage(j) :
            job[k].status # "absent" => AllowsNewerRevision(k, revision)
       /\ job' = [job EXCEPT ![j] =
                    [AbsentJob EXCEPT !.status = "queued", !.revision = revision]]
  /\ UNCHANGED <<attempt, source, published, handled, calls, permits>>

\* The unique index on the active attempt of a page.
NoOtherActiveAttempt(j) == \A k \in SamePage(j) : ~attempt[k].active

(* createRednotePublishAttempt, the second transaction of queueing: by the *)
(* same call or, after a crash, by a replay that finds no attempt.         *)
CreateAttempt(j) ==
  /\ job[j].status # "absent" /\ ~attempt[j].exists
  /\ j \in BatchJobs => NoOtherActiveAttempt(j)
  /\ attempt' = [attempt EXCEPT ![j] =
       [NoAttempt EXCEPT !.exists = TRUE, !.approved = j \in BatchJobs,
                         !.active = j \in BatchJobs]]
  /\ UNCHANGED <<job, source, published, handled, calls, permits>>

(* approveRednotePublishAttempt: the operator's consent to a plain job. *)
ApproveAttempt(j) ==
  /\ attempt[j].exists /\ ~attempt[j].approved
  /\ attempt[j].outcome = "none" /\ ~attempt[j].authorized
  /\ NoOtherActiveAttempt(j)
  /\ attempt' = [attempt EXCEPT ![j].approved = TRUE, ![j].active = TRUE]
  /\ UNCHANGED <<job, source, published, handled, calls, permits>>

-----------------------------------------------------------------------------
(* Claiming *)

AttemptClaimable(j) ==
  /\ attempt[j].active /\ attempt[j].approved
  /\ attempt[j].outcome = "none" /\ ~attempt[j].authorized
  /\ ~attempt[j].leased

(* The candidates of claimNextStoredLocalPublishJob.  The query takes the  *)
(* first in time order; here any candidate may be the first.               *)
ReplaysClaim(j, t, lane) ==
  lane # "verification" /\ job[j].status = "claimed" /\ Holds(j, t)
DispatchCandidate(j, lane) ==
  lane # "verification" /\ job[j].status = "queued" /\ AttemptClaimable(j)
\* Slip: only jobs that still wait for their verification are claimed.
VerificationCandidateUnverified(j, lane) ==
  lane # "dispatch" /\ job[j].status \in Verifying /\ ~job[j].leased
VerificationCandidate(j, lane) ==
  /\ lane # "dispatch"
  /\ job[j].status \in Verifying \cup {"verified"}
  /\ ~job[j].leased

(* claimNextStoredLocalPublishJob.  Outside the verification lane the call *)
(* goes on to bind the linked attempt, whatever kind of work it claimed.   *)
ClaimNext(j, t, lane) ==
  /\ ReplaysClaim(j, t, lane) \/ DispatchCandidate(j, lane)
       \/ VerificationCandidate(j, lane)
  /\ ~Handled(j)
  /\ job' = [job EXCEPT
       ![j].status = IF @ = "queued" THEN "claimed" ELSE @,
       ![j].token = t, ![j].leased = TRUE]
  /\ IF lane = "verification" THEN UNCHANGED calls
     ELSE Starts([op |-> "bind", job |-> j, token |-> t])
  /\ UNCHANGED <<attempt, source, published, handled, permits>>

(* bindLinkedAttemptClaim.  It asks nothing of the job row; the expiry it  *)
(* writes is the one the claim returned, which may have passed.            *)
BindAttempt(c) ==
  LET j == c.job IN
  /\ c \in calls /\ c.op = "bind"
  /\ \/ /\ AttemptClaimable(j)
        /\ attempt' = [attempt EXCEPT ![j].token = c.token,
                                      ![j].leased = Holds(j, c.token)]
     \/ /\ attempt[j].token = c.token /\ attempt[j].leased
        /\ attempt[j].active /\ attempt[j].outcome = "none"
        /\ ~attempt[j].authorized
        /\ UNCHANGED attempt
  /\ IF j \in BatchJobs
       THEN Continues(c, [op |-> "recheck", job |-> j, token |-> c.token])
       ELSE Ends(c)
  /\ UNCHANGED <<job, source, published, handled, permits>>

(* invalidateStoredBatchItem: fails the job of the changed source, keeps   *)
(* its token and lease, and leaves its attempt as it is.                   *)
InvalidateBatchItem(j, t) ==
  IF Holds(j, t) /\ job[j].status \in Dispatching
    THEN job' = [job EXCEPT ![j].status = "failed",
                            ![j].error = "BATCH_SOURCE_CHANGED"]
    ELSE UNCHANGED job

(* The rest of claimNextLocalPublishJob: a batch job is returned only when *)
(* its Notion source still is the approved revision.                       *)
RecheckBatchSource(c) ==
  /\ c \in calls /\ c.op = "recheck"
  /\ IF SourceMatches(c.job) THEN UNCHANGED job
     ELSE InvalidateBatchItem(c.job, c.token)
  /\ Ends(c)
  /\ UNCHANGED <<attempt, source, published, handled, permits>>

(* stageStoredLocalPublishJob *)
Stage(j, t) ==
  /\ job[j].status = "claimed" /\ Holds(j, t) /\ ~Handled(j)
  /\ job' = [job EXCEPT ![j].status = "staged", ![j].staged = TRUE]
  /\ UNCHANGED <<attempt, source, published, handled, calls, permits>>

-----------------------------------------------------------------------------
(* The dispatch permit *)

(* authorizeStoredLocalPublishJob with the checks authorizeLocalPublishJob *)
(* makes on the row it read.                                               *)
AuthorizationRead(j, t) ==
  job[j].status \in Dispatching /\ Holds(j, t) /\ ~Handled(j)

(* authorizeLocalPublishJob on a batch job whose source moved on. *)
AuthorizeStaleSource(j, t) ==
  /\ AuthorizationRead(j, t)
  /\ j \in BatchJobs /\ ~SourceMatches(j)
  /\ InvalidateBatchItem(j, t)
  /\ UNCHANGED <<attempt, source, published, handled, calls, permits>>

\* Slip: the check before staging already consumes the permit.
AuthorizeBeforeStaging(j, t) ==
  /\ AuthorizationRead(j, t)
  /\ j \in BatchJobs => SourceMatches(j)
  /\ Starts([op |-> "authorizeAttempt", job |-> j, token |-> t])
  /\ UNCHANGED <<job, attempt, source, published, handled, permits>>

(* authorizeLocalPublishJob on a staged job: the first check goes on to    *)
(* consume the attempt's authorization, a later one repeats the answer.    *)
Authorize(j, t) ==
  /\ AuthorizationRead(j, t) /\ job[j].status = "staged"
  /\ j \in BatchJobs => SourceMatches(j)
  /\ IF job[j].authorized
       THEN permits' = permits \cup {<<j, t>>} /\ UNCHANGED calls
       ELSE /\ Starts([op |-> "authorizeAttempt", job |-> j, token |-> t])
            /\ UNCHANGED permits
  /\ UNCHANGED <<job, attempt, source, published, handled>>

(* authorizeLinkedAttempt: the one-shot authorization of the attempt. *)
AuthorizeAttempt(c) ==
  LET j == c.job IN
  /\ c \in calls /\ c.op = "authorizeAttempt"
  /\ attempt[j].token = c.token /\ attempt[j].leased
  /\ attempt[j].active /\ attempt[j].outcome = "none"
  /\ ~attempt[j].authorized
  /\ attempt' = [attempt EXCEPT ![j].authorized = TRUE]
  /\ Continues(c, [op |-> "consume", job |-> j, token |-> c.token])
  /\ UNCHANGED <<job, source, published, handled, permits>>

(* consumeStoredDispatchAuthorization, then the answer to the worker. *)
ConsumeDispatchAuthorization(c) ==
  LET j == c.job IN
  /\ c \in calls /\ c.op = "consume"
  /\ job[j].status = "staged" /\ Holds(j, c.token) /\ ~Handled(j)
  /\ job' = [job EXCEPT ![j].authorized = TRUE]
  /\ permits' = permits \cup {<<j, c.token>>}
  /\ Ends(c)
  /\ UNCHANGED <<attempt, source, published, handled>>

-----------------------------------------------------------------------------
(* A worker's result: first the attempt, then the job *)

\* Slip: a scheduled readback is believed for its note, not for its account.
OutcomeOfNote(j, r) ==
  IF r.outcome \in {"rejected", "failed"} THEN "known_failed"
  ELSE IF r.identity # "none" THEN "accepted" ELSE "outcome_unknown"

\* What submitLocalPublishJobResult records on the attempt for a result.
OutcomeOf(j, r) ==
  CASE r.outcome = "acknowledged" ->
         IF j \in PostNowJobs THEN "accepted" ELSE "outcome_unknown"
    [] r.outcome = "scheduled" ->
         IF r.match THEN "accepted" ELSE "outcome_unknown"
    [] r.outcome = "ambiguous" -> "outcome_unknown"
    [] r.outcome = "verified" -> "accepted"
    [] OTHER -> "known_failed"
HasIdentity(r) == r.identity # "none"
\* Slip: the outcome itself is written as the state of the receipt lookup.
LookupForUnmapped(outcome, receipt) == IF receipt THEN "found" ELSE outcome
LookupFor(outcome, receipt) ==
  IF outcome = "known_failed" THEN "not_required"
  ELSE IF receipt THEN "found" ELSE "identity_pending"

\* Slips: an outcome without the authorization; an outcome written twice.
WriteOutcomeUnauthorized(j, outcome, receipt) ==
  /\ attempt[j].outcome = "none"
  /\ attempt' = [attempt EXCEPT
       ![j].outcome = outcome, ![j].lookup = LookupFor(outcome, receipt),
       ![j].active = FALSE, ![j].receipt = receipt, ![j].reported = TRUE]
WriteOutcomeAgain(j, outcome, receipt) ==
  /\ attempt[j].authorized \/ outcome = "known_failed"
  /\ attempt' = [attempt EXCEPT
       ![j].outcome = outcome, ![j].lookup = LookupFor(outcome, receipt),
       ![j].active = FALSE, ![j].receipt = receipt, ![j].reported = TRUE]

(* recordRednotePublishOutcome: the outcome is written once; repeating the *)
(* same outcome is accepted, with its receipt if one was found.            *)
WriteOutcome(j, outcome, receipt) ==
  /\ attempt[j].outcome = "none"
  /\ attempt[j].authorized \/ outcome = "known_failed"
  /\ attempt' = [attempt EXCEPT
       ![j].outcome = outcome, ![j].lookup = LookupFor(outcome, receipt),
       ![j].active = FALSE, ![j].leased = FALSE,
       ![j].receipt = receipt, ![j].reported = TRUE]
RepeatOutcome(j, outcome, receipt) ==
  /\ attempt[j].outcome = outcome
  /\ attempt[j].lookup = "found" => receipt
  /\ UNCHANGED attempt

(* The fallback of recordLinkedAttemptOutcome for a token that holds the   *)
(* job and not the attempt: it may only add the receipt of a publication   *)
(* already accepted or unknown (resolveIdentityPendingReceipt), or repeat. *)
ResolveReceipt(j, t, outcome, receipt) ==
  /\ Holds(j, t) /\ outcome = "accepted" /\ receipt
  /\ attempt[j].outcome \in {"accepted", "outcome_unknown"}
  /\ attempt[j].lookup = "identity_pending" /\ ~attempt[j].active
  /\ attempt' = [attempt EXCEPT ![j].lookup = "found", ![j].receipt = TRUE]
RepeatFromJobHolder(j, t, outcome, receipt) ==
  /\ Holds(j, t)
  /\ \/ attempt[j].outcome = outcome
     \/ outcome = "accepted" /\ receipt /\ attempt[j].outcome = "outcome_unknown"
  /\ outcome = "accepted" =>
       (IF attempt[j].lookup = "found" THEN receipt ELSE ~receipt)
  /\ UNCHANGED attempt

(* The first transaction of submitLocalPublishJobResult.  Whether the late *)
(* route takes the result is read before it and may no longer be so.       *)
RecordLinkedOutcome(j, t, r) ==
  LET outcome == OutcomeOf(j, r)
      receipt == HasIdentity(r)
  IN
  /\ attempt[j].exists
  /\ r.outcome = "scheduled" => j \notin PostNowJobs
  /\ IF attempt[j].token = t
       THEN WriteOutcome(j, outcome, receipt) \/ RepeatOutcome(j, outcome, receipt)
       ELSE ResolveReceipt(j, t, outcome, receipt)
              \/ RepeatFromJobHolder(j, t, outcome, receipt)
  /\ Starts([op |-> "record", job |-> j, token |-> t, result |-> r])
  /\ UNCHANGED <<job, source, published, handled, permits>>

-----------------------------------------------------------------------------
(* The second transaction: the job *)

Records(c, outcome) == c \in calls /\ c.op = "record" /\ c.result.outcome = outcome
Then(c, op) == [c EXCEPT !.op = op]

(* recordStoredAcknowledgedPublication.  An acknowledgement that matches   *)
(* the frozen packet verifies the job and keeps its lease; any other one   *)
(* goes to verification.                                                   *)
RecordAcknowledged(c) ==
  LET j == c.job
      owned == c.result.match /\ j \in PostNowJobs
  IN
  /\ Records(c, "acknowledged")
  /\ job[j].status \in Dispatching \cup Verifying
  /\ Holds(j, c.token) /\ ~Handled(j)
  /\ job' = [job EXCEPT
       ![j].status = IF owned THEN "verified" ELSE "verification_pending",
       ![j].note = TRUE, ![j].share = (c.result.identity = "url"),
       ![j].dispatched = TRUE, ![j].receipt = "acknowledged",
       ![j].leased = owned]
  /\ IF owned THEN Continues(c, Then(c, "backfill")) ELSE Ends(c)
  /\ UNCHANGED <<attempt, source, published, handled, permits>>

(* recordStoredScheduledAcknowledgement *)
RecordScheduled(c) ==
  LET j == c.job IN
  /\ Records(c, "scheduled")
  /\ job[j].status \in Dispatching /\ Holds(j, c.token) /\ ~Handled(j)
  /\ job[j].note => HasIdentity(c.result)
  /\ job' = [job EXCEPT
       ![j].status = IF c.result.match THEN "scheduled" ELSE "verification_pending",
       ![j].note = @ \/ HasIdentity(c.result),
       ![j].dispatched = TRUE, ![j].receipt = "scheduled", ![j].leased = FALSE]
  /\ Ends(c)
  /\ UNCHANGED <<attempt, source, published, handled, permits>>

(* recordStoredAmbiguousOutcome *)
RecordAmbiguous(c) ==
  LET j == c.job IN
  /\ Records(c, "ambiguous")
  /\ job[j].status \in Dispatching /\ Holds(j, c.token) /\ ~Handled(j)
  /\ job' = [job EXCEPT
       ![j].status = "verification_pending", ![j].dispatched = TRUE,
       ![j].receipt = "ambiguous", ![j].leased = FALSE]
  /\ Ends(c)
  /\ UNCHANGED <<attempt, source, published, handled, permits>>

(* recordStoredRejectedOutcome and failStoredLocalPublishJob *)
RecordFailure(c) ==
  LET j == c.job IN
  /\ Records(c, "rejected") \/ (Records(c, "failed") /\ ~Handled(j))
  /\ job[j].status \in Dispatching /\ Holds(j, c.token)
  /\ job' = [job EXCEPT
       ![j].status = "failed", ![j].token = NoToken, ![j].leased = FALSE,
       ![j].receipt = IF c.result.outcome = "rejected" THEN "rejected" ELSE @,
       ![j].error = "worker"]
  /\ Ends(c)
  /\ UNCHANGED <<attempt, source, published, handled, permits>>

(* prepareStoredLocalPublishVerification: the identity is new to a job     *)
(* still being dispatched and must be the recorded one afterwards.         *)
PrepareVerification(c) ==
  LET j == c.job IN
  /\ Records(c, "verified")
  /\ Holds(j, c.token) /\ ~Handled(j)
  /\ \/ job[j].status \in Dispatching
     \/ job[j].status \in Verifying /\ job[j].note /\ job[j].share
  /\ job' = [job EXCEPT ![j].status = "verified",
                        ![j].note = TRUE, ![j].share = TRUE]
  /\ Continues(c, Then(c, "backfill"))
  /\ UNCHANGED <<attempt, source, published, handled, permits>>

(* The replay of a result whose job already is verified. *)
RepeatVerified(c) ==
  LET j == c.job IN
  /\ \/ Records(c, "acknowledged") /\ job[j].receipt = "acknowledged"
     \/ Records(c, "verified") /\ job[j].share
  /\ job[j].status = "verified" /\ job[j].token = c.token
  /\ job[j].note /\ ~Handled(j)
  /\ Continues(c, Then(c, "backfill"))
  /\ UNCHANGED <<job, attempt, source, published, handled, permits>>

(* The backfill of submitLocalPublishJobResult: the Notion page is marked  *)
(* Published before the job is completed.                                  *)
BackfillNotion(c) ==
  /\ c \in calls /\ c.op = "backfill"
  /\ published' = published \cup {PageOf[c.job]}
  /\ Continues(c, Then(c, "complete"))
  /\ UNCHANGED <<job, attempt, source, handled, permits>>

(* completeStoredLocalPublishReconciliation *)
CompleteReconciliation(c) ==
  LET j == c.job IN
  /\ c \in calls /\ c.op = "complete"
  /\ job[j].status = "verified" /\ Holds(j, c.token) /\ ~Handled(j)
  /\ job[j].note /\ job[j].share = (c.result.identity = "url")
  /\ job' = [job EXCEPT ![j].status = "reconciled"]
  /\ Ends(c)
  /\ UNCHANGED <<attempt, source, published, handled, permits>>

-----------------------------------------------------------------------------
(* Results that write only the job *)

\* snapshot.publishAt: a batch item always has one, a plain job if scheduled.
HasPublishAt(j) == j \in BatchJobs \/ j \notin PostNowJobs

(* recordStoredLocalPublishDispatch: the legacy submitted and scheduled. *)
RecordDispatch(j, t) ==
  /\ job[j].status \in Dispatching /\ Holds(j, t) /\ ~Handled(j)
  /\ job' = [job EXCEPT
       ![j].status = IF HasPublishAt(j) THEN "scheduled" ELSE "submitted",
       ![j].note = TRUE, ![j].share = TRUE,
       ![j].dispatched = TRUE, ![j].leased = FALSE]
  /\ UNCHANGED <<attempt, source, published, handled, calls, permits>>

(* deferStoredLocalPublishVerification *)
DeferVerification(j, t) ==
  /\ job[j].status \in Verifying /\ Holds(j, t) /\ ~Handled(j)
  /\ job[j].note /\ job[j].share
  /\ job' = [job EXCEPT ![j].status = "verification_pending", ![j].leased = FALSE]
  /\ UNCHANGED <<attempt, source, published, handled, calls, permits>>

-----------------------------------------------------------------------------
(* After the lease *)

(* guard_rednote_publish_attempt_update: a terminal outcome changes only   *)
(* from outcome_unknown, while the job waits, unclaimed and unreported.    *)
RefinesOutcome(j) ==
  /\ attempt[j].outcome = "outcome_unknown"
  /\ attempt[j].lookup = "identity_pending"
  /\ ~attempt[j].active /\ ~attempt[j].leased
  /\ job[j].status = "verification_pending" /\ job[j].token = NoToken
LookupMayBecome(j, lookup) ==
  \/ attempt[j].lookup \in {"pending", lookup}
  \/ attempt[j].lookup = "identity_pending" /\ lookup \in {"found", "not_required"}

(* recordLateStoredWorkerTerminalResult: attempt and job in one statement, *)
(* for the token the attempt still carries.                                *)
LateOutcome(r) ==
  CASE r.outcome = "rejected" -> "known_failed"
    [] r.outcome = "scheduled" /\ r.match -> "accepted"
    [] OTHER -> "outcome_unknown"
\* Slips: late evidence is not compared; the operator's takeover is not seen.
LateResultUncompared(j, r) ==
  /\ job[j].status \in Dispatching
       \cup {"failed", "scheduled", "verification_pending"}
  /\ ~job[j].leased /\ job[j].receipt = "none" /\ ~Handled(j)
  /\ attempt[j].authorized \/ r.outcome = "rejected"
LateResultOnHandledPage(j, r) ==
  /\ job[j].status \in {"staged", "failed", "scheduled", "verification_pending"}
  /\ ~job[j].leased /\ job[j].receipt = "none" /\ ~attempt[j].reported
  /\ attempt[j].authorized
LateResultAdmissible(j, r) ==
  /\ job[j].status \in Dispatching
       \cup {"failed", "scheduled", "verification_pending"}
  /\ ~job[j].leased \/ job[j].token = NoToken
  /\ job[j].receipt = "none" /\ ~attempt[j].reported /\ ~Handled(j)
  /\ IF r.outcome = "rejected"
       THEN ~job[j].dispatched /\ ~job[j].note /\ ~job[j].share /\ ~attempt[j].receipt
       ELSE attempt[j].authorized
  /\ r.outcome = "scheduled" => j \notin PostNowJobs
RecordLateResult(j, t, r) ==
  LET outcome == LateOutcome(r)
      lookup == LookupFor(outcome, HasIdentity(r))
  IN
  /\ attempt[j].exists /\ attempt[j].token = t
  /\ LateResultAdmissible(j, r)
  /\ attempt[j].outcome \in {"none", outcome} \/ RefinesOutcome(j)
  /\ LookupMayBecome(j, lookup)
  /\ attempt' = [attempt EXCEPT
       ![j].outcome = outcome, ![j].lookup = lookup, ![j].active = FALSE,
       ![j].leased = FALSE, ![j].receipt = @ \/ HasIdentity(r)]
  /\ job' = [job EXCEPT
       ![j].status = CASE outcome = "known_failed" -> "failed"
                       [] outcome = "accepted" -> "scheduled"
                       [] OTHER -> "verification_pending",
       ![j].token = NoToken, ![j].leased = FALSE,
       ![j].dispatched = @ \/ r.outcome # "rejected",
       ![j].note = @ \/ HasIdentity(r), ![j].receipt = r.outcome,
       ![j].error = IF r.outcome = "rejected" THEN "worker" ELSE "none"]
  /\ UNCHANGED <<source, published, handled, calls, permits>>

(* releaseExpiredStoredLocalPublishClaims, run before every claim and by   *)
(* the hourly sweep.  An authorized job may have been published: it is     *)
(* verified and never dispatched again.                                    *)
MayHaveDispatched(j) ==
  \/ attempt[j].receipt /\ attempt[j].lookup = "found"
  \/ job[j].authorized
  \/ attempt[j].authorized /\ attempt[j].outcome = "none"
ReleaseExpired(j) ==
  LET unknown == MayHaveDispatched(j) IN
  /\ job[j].status \in Dispatching /\ ~job[j].leased
  /\ ~job[j].dispatched /\ ~job[j].note /\ ~job[j].share
  /\ unknown => ~Handled(j)
  /\ job' = [job EXCEPT
       ![j].status = IF unknown THEN "verification_pending" ELSE "failed",
       ![j].token = NoToken,
       ![j].error = IF unknown THEN "none" ELSE "CLAIM_LEASE_EXPIRED"]
  /\ attempt' = IF attempt[j].exists /\ attempt[j].outcome = "none"
       THEN [attempt EXCEPT
              ![j].active = FALSE, ![j].leased = FALSE,
              ![j].outcome = IF unknown THEN "outcome_unknown" ELSE "known_failed",
              ![j].lookup = IF attempt[j].receipt THEN "found"
                            ELSE IF unknown THEN "identity_pending"
                            ELSE "not_required"]
       ELSE attempt
  /\ UNCHANGED <<source, published, handled, calls, permits>>

-----------------------------------------------------------------------------
(* The operator and the environment *)

\* Slip: only a running lease counts as ownership.
OwnedWhileLeased(j) == job[j].status # "failed" /\ job[j].leased

(* hasLiveUnsafeOwnership: automation the operator may not take over. *)
OwnedByAutomation(j) ==
  \/ job[j].status \in Verifying \cup {"verified", "reconciled"}
  \/ job[j].status \in Dispatching /\ job[j].leased

\* Slip: a staged job is taken for finished and left as it is.
HandleManuallyUnstaged(p) ==
  /\ p \notin handled
  /\ \A j \in Jobs : PageOf[j] = p => ~OwnedByAutomation(j)
  /\ handled' = handled \cup {p}
  /\ job' = [j \in Jobs |->
       IF PageOf[j] = p /\ job[j].status \in {"queued", "claimed"}
         THEN [job[j] EXCEPT !.status = "failed", !.token = NoToken]
         ELSE job[j]]
  /\ UNCHANGED <<attempt, source, published, calls, permits>>

(* insertManualPostHandling: the operator publishes the page by hand.  Its *)
(* jobs are failed; their attempts are not touched.                        *)
HandleManually(p) ==
  /\ p \notin handled
  /\ \A j \in Jobs : PageOf[j] = p => ~OwnedByAutomation(j)
  /\ handled' = handled \cup {p}
  /\ job' = [j \in Jobs |->
       IF PageOf[j] = p /\ job[j].status \in {"queued"} \cup Dispatching
         THEN [job[j] EXCEPT !.status = "failed", !.token = NoToken,
                 !.leased = FALSE, !.error = "MANUAL_HANDLING_RECORDED"]
         ELSE job[j]]
  /\ UNCHANGED <<attempt, source, published, calls, permits>>

EditSource(p) ==
  /\ source[p] < MaxRevision
  /\ source' = [source EXCEPT ![p] = @ + 1]
  /\ UNCHANGED <<job, attempt, published, handled, calls, permits>>

(* Time: the attempt's lease is never longer than the job's. *)
ExpireLease(j) ==
  /\ job[j].leased
  /\ job' = [job EXCEPT ![j].leased = FALSE]
  /\ attempt' = [attempt EXCEPT ![j].leased = FALSE]
  /\ UNCHANGED <<source, published, handled, calls, permits>>
ExpireAttemptLease(j) ==
  /\ attempt[j].leased
  /\ attempt' = [attempt EXCEPT ![j].leased = FALSE]
  /\ UNCHANGED <<job, source, published, handled, calls, permits>>

(* A call that crashes, times out, or gets an error from its transaction. *)
AbandonCall(c) ==
  /\ c \in calls /\ Ends(c)
  /\ UNCHANGED <<job, attempt, source, published, handled, permits>>

-----------------------------------------------------------------------------
Queueing(j) == InsertJob(j) \/ CreateAttempt(j) \/ ApproveAttempt(j)

Requests(j, t) ==
  \/ \E lane \in Lanes : ClaimNext(j, t, lane)
  \/ Stage(j, t)
  \/ AuthorizeStaleSource(j, t)
  \/ Authorize(j, t)
  \/ \E r \in Results : RecordLinkedOutcome(j, t, r)
  \/ \E r \in LateResults : RecordLateResult(j, t, r)
  \/ RecordDispatch(j, t)
  \/ DeferVerification(j, t)

Continuation(c) ==
  \/ BindAttempt(c) \/ RecheckBatchSource(c)
  \/ AuthorizeAttempt(c) \/ ConsumeDispatchAuthorization(c)
  \/ RecordAcknowledged(c) \/ RecordScheduled(c) \/ RecordAmbiguous(c)
  \/ RecordFailure(c) \/ PrepareVerification(c) \/ RepeatVerified(c)
  \/ BackfillNotion(c) \/ CompleteReconciliation(c)

Environment ==
  \/ \E p \in Pages : HandleManually(p) \/ EditSource(p)
  \/ \E j \in Jobs : ReleaseExpired(j) \/ ExpireLease(j) \/ ExpireAttemptLease(j)
  \/ \E c \in calls : AbandonCall(c)

Next ==
  \/ \E j \in Jobs : Queueing(j)
  \/ \E j \in Jobs, t \in Tokens : Requests(j, t)
  \/ \E c \in calls : Continuation(c)
  \/ Environment

Spec == Init /\ [][Next]_vars

-----------------------------------------------------------------------------
(* Properties *)

(* Every row, call and permit has the shape the tables and the service     *)
(* calls give it.                                                          *)
TypeOK ==
  /\ job \in [Jobs -> JobRow]
  /\ attempt \in [Jobs -> AttemptRow]
  /\ source \in [Pages -> 1..MaxRevision]
  /\ published \subseteq Pages
  /\ handled \subseteq Pages
  /\ calls \subseteq Calls
  /\ permits \subseteq Jobs \X Tokens

(* A page is given at most one dispatch permit, ever: not a second one for *)
(* the same job under another claim token, and not one for a newer job,    *)
(* however its claims, sweeps, edits and retries interleave.               *)
OnePermitPerPage ==
  \A x, y \in permits : PageOf[x[1]] = PageOf[y[1]] => x = y

(* At most one attempt of a page ever consumes its authorization, also     *)
(* when the call died before the job recorded it.                          *)
OneAuthorizationPerPage ==
  \A j, k \in Jobs :
    /\ PageOf[j] = PageOf[k]
    /\ attempt[j].authorized /\ attempt[k].authorized
    => j = k

(* A permit is backed by both rows, and once an attempt is authorized its  *)
(* job is past the states a worker is handed dispatch work from.           *)
AuthorizationClosesDispatch ==
  /\ \A x \in permits : job[x[1]].authorized
  /\ \A j \in Jobs : job[j].authorized => attempt[j].authorized
  /\ \A j \in Jobs : attempt[j].authorized =>
       job[j].status \notin {"absent", "queued", "claimed"}

(* A verified or reconciled job rests on an authorized attempt of its own  *)
(* that was accepted, or on the receipt found for one the sweep had to     *)
(* leave unknown, although the two rows are written by two transactions.   *)
VerifiedIsBacked ==
  \A j \in Jobs : job[j].status \in {"verified", "reconciled"} =>
    /\ attempt[j].authorized
    /\ \/ attempt[j].outcome = "accepted"
       \/ attempt[j].outcome = "outcome_unknown" /\ attempt[j].receipt

(* A schedule the job shows as acknowledged is one the attempt accepted. *)
ScheduledIsAccepted ==
  \A j \in Jobs : job[j].status = "scheduled" /\ job[j].receipt = "scheduled" =>
    attempt[j].outcome = "accepted"

(* A job recorded as rejected carries no trace of a publication. *)
RejectedNeverPublished ==
  \A j \in Jobs : job[j].receipt = "rejected" =>
    /\ attempt[j].outcome = "known_failed" /\ ~attempt[j].receipt
    /\ job[j].status = "failed" /\ ~job[j].note /\ ~job[j].dispatched

(* Notion shows Published only for a page whose job is verified or beyond, *)
(* never for one the operator took over.                                   *)
PublishedHasEvidence ==
  \A p \in published :
    /\ p \notin handled
    /\ \E j \in Jobs : PageOf[j] = p /\ job[j].status \in {"verified", "reconciled"}

(* On a page handled by the operator nothing is left for a worker, and     *)
(* nothing a late call does brings it back.                                *)
HandledClosesAutomation ==
  \A j \in Jobs : Handled(j) => job[j].status \in {"absent", "failed"}

(* An outcome the worker reported, or any definite one, is never rewritten *)
(* and a receipt is never lost: only an outcome the sweep had to leave     *)
(* unknown may be refined.                                                 *)
OutcomeIsFinal ==
  [][\A j \in Jobs :
       /\ (attempt[j].reported \/ attempt[j].outcome \in {"accepted", "known_failed"})
            => attempt'[j].outcome = attempt[j].outcome
       /\ attempt[j].receipt => attempt'[j].receipt
       /\ attempt[j].authorized => attempt'[j].authorized]_vars

-----------------------------------------------------------------------------
(* The queue implements PublishOnce. *)

NoJob == "no job"
ASSUME NoJobAssumption == NoJob \notin Jobs  \* ids are generated UUIDs
Owner == [p \in Pages |->
  IF \E j \in Jobs : PageOf[j] = p /\ attempt[j].authorized
    THEN CHOOSE j \in Jobs : PageOf[j] = p /\ attempt[j].authorized
    ELSE NoJob]
Phase == [p \in Pages |->
  IF p \in handled THEN "by_hand"
  ELSE IF \E j \in Jobs : PageOf[j] = p /\ job[j].status \in {"verified", "reconciled"}
    THEN "confirmed" ELSE "open"]

Once == INSTANCE PublishOnce WITH owner <- Owner, phase <- Phase

(* Every behaviour of the queue is one of PublishOnce: no crash, replay,   *)
(* late result or second job gives a page another owner or takes back a    *)
(* confirmation or the operator's takeover.                                *)
PublishesOnce == Once!Spec

-----------------------------------------------------------------------------
(* Liveness *)

(* The sweep runs every hour and before every claim. *)
FairSpec == Spec /\ \A j \in Jobs : WF_vars(ReleaseExpired(j))

(* A claim whose worker went silent is not left in the dispatch states,    *)
(* whoever else acts on the job, its attempt or its page meanwhile.        *)
ExpiredClaimIsReleased ==
  \A j \in Jobs :
    (job[j].status \in Dispatching /\ ~job[j].leased)
      ~> (job[j].status \notin Dispatching)

(* Workers poll the verification lane and report the identity they were    *)
(* handed.  Leases run out and any request may die between two of its      *)
(* transactions; but not each one does so for ever before it gets on.      *)
NamesIdentity(j, r) == (r.identity = "url") = job[j].share
Reclaim(j, t) ==
  /\ job[j].status = "verified" /\ Cardinality(calls) < MaxCalls
  /\ ClaimNext(j, t, "verification")
Redeliver(j) ==
  \E t \in Tokens, r \in Results :
    /\ job[j].status = "verified" /\ Holds(j, t)
    /\ r.outcome = IF job[j].share THEN "verified" ELSE "acknowledged"
    /\ r.match /\ NamesIdentity(j, r)
    /\ RecordLinkedOutcome(j, t, r)
GetsOn(j, op) ==
  \E c \in calls :
    /\ c.job = j /\ c.op = op
    /\ Holds(j, c.token) /\ NamesIdentity(j, c.result)
    /\ Continuation(c)
FairWorkers ==
  /\ Spec
  /\ \A j \in Jobs : WF_vars(ExpireLease(j))
  /\ WF_vars(\E c \in calls : Continuation(c) \/ AbandonCall(c))
  /\ \A j \in Jobs :
       /\ \A t \in Tokens : SF_vars(Reclaim(j, t))
       /\ SF_vars(Redeliver(j))
       /\ SF_vars(GetsOn(j, "record")) /\ SF_vars(GetsOn(j, "backfill"))
       /\ SF_vars(GetsOn(j, "complete"))

(* A job whose publication was verified is reconciled in the end, although *)
(* the request that verified it may die before it marks Notion, the lease  *)
(* may pass to another worker and the same result may arrive twice.        *)
VerifiedIsReconciled ==
  \A j \in Jobs : (job[j].status = "verified") ~> (job[j].status = "reconciled")
=============================================================================
