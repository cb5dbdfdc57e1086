-------------------------------- MODULE ReadyX3 --------------------------------
(***************************************************************************)
(* Ready x3 consent of xhs-platform: an operator authorizes one exact      *)
(* revision of a Notion packet, the worker may dispatch it only while the  *)
(* packet is still that revision, and a source fence closes the consent    *)
(* before the packet is edited.                                            *)
(*                                                                         *)
(* The module follows one Notion page: the advisory lock, the index of     *)
(* active attempts and the blockers are all per page.  A job stands for an *)
(* idempotency key and carries one attempt.  A request is several          *)
(* transactions, some of them under the page's lock, which the connection  *)
(* that took it holds until the request is over; a worker's claim or       *)
(* authorization reads Notion between its transactions.  Either may die    *)
(* between two of its steps.                                               *)
(*                                                                         *)
(* Abstractions.  A packet is its revision.  A claim token is the number   *)
(* of the claim, 0 for NULL.  The failures that leave the provider         *)
(* untouched (INVALID_CLAIM, NOT_LOGGED_IN, a stale browser frame, a       *)
(* schedule readback mismatch) are one error, "recoverable"; what happens  *)
(* after an authorization is LocalPublishQueue's and is one step here.     *)
(* LegacyJobs are batch jobs whose attempts an earlier release stored as   *)
(* Ready x3 consents; an administrator reclassifies them.                  *)
(***************************************************************************)
EXTENDS Naturals, FiniteSets

CONSTANTS
  Jobs,         \* idempotency keys of local_publish_jobs
  LegacyJobs,   \* batch jobs that may be there with a misclassified attempt
  Requests,     \* authorization requests in flight
  Free,         \* nobody holds the page's advisory lock
  MaxRevision,  \* bound on the edits of the page
  MaxClaims,    \* bound on the claims of a job
  MaxCalls      \* bound on the worker calls in flight

ASSUME ReadyX3Assumption ==
  /\ LegacyJobs \subseteq Jobs /\ IsFiniteSet(LegacyJobs)
  /\ MaxRevision \in Nat \ {0} /\ MaxClaims \in Nat /\ MaxCalls \in Nat
  /\ Free \notin Requests

VARIABLES
  source,   \* the page's current revision
  lock,     \* the request whose session holds the page's advisory lock
  request,  \* authorization requests
  job,      \* local_publish_jobs
  attempt,  \* rednote_publish_attempts, by the job they publish
  calls,    \* worker calls between two of their steps
  permits,  \* permits handed to a worker: job and claim token
  revoked   \* jobs that a fence, a stale packet or a supersession closed

rows == <<job, attempt>>
vars == <<source, lock, request, job, attempt, calls, permits, revoked>>

-----------------------------------------------------------------------------
(* Rows *)

Revisions == 1..MaxRevision
Tokens == 0..MaxClaims

JobRow ==
  [status : {"absent", "queued", "claimed", "staged", "submitted", "failed"},
   revision : 0..MaxRevision,          \* snapshot.notionLastEditedTime
   error : {"none", "superseded", "stale", "recoverable", "other", "expired"},
   token : Tokens, leased : BOOLEAN, claims : Tokens,
   staged : BOOLEAN,                   \* staged_at, kept by a failure
   authorized : BOOLEAN]               \* dispatch_authorized_at
AttemptRow ==
  [state : {"absent", "active", "closed"},
   outcome : {"none", "known_failed", "expired", "other"},
   token : Tokens, leased : BOOLEAN, authorized : BOOLEAN,
   consent : BOOLEAN]                  \* authorization_kind = 'ready_x3'
Idle == [step |-> "idle"]
RequestRow == {Idle} \cup
  [step : {"lock", "persist", "insert", "attempt"},
   job : Jobs, revision : Revisions,
   locks : BOOLEAN]                    \* runs inside withReadyX3SourceLock
Calls ==
  [step : {"bind", "check", "inspect", "recheck", "repeat", "consume", "authorize",
           "stored", "confirm", "fail"},
   job : Jobs, token : Tokens]

AbsentJob == [status |-> "absent", revision |-> 0, error |-> "none", token |-> 0,
              leased |-> FALSE, claims |-> 0, staged |-> FALSE, authorized |-> FALSE]
AbsentAttempt == [state |-> "absent", outcome |-> "none", token |-> 0,
                  leased |-> FALSE, authorized |-> FALSE, consent |-> FALSE]
QueuedJob(revision) == [AbsentJob EXCEPT !.status = "queued", !.revision = revision]
Consent == [AbsentAttempt EXCEPT !.state = "active", !.consent = TRUE]

Exists(j) == job[j].status # "absent"
Working(j) == job[j].status \in {"claimed", "staged"}
Live(j) == job[j].status = "queued" \/ Working(j)
Open(j) == attempt[j].state = "active" /\ attempt[j].outcome = "none"

Call(step, j, t) == [step |-> step, job |-> j, token |-> t]
Starts(c) == Cardinality(calls) < MaxCalls /\ calls' = calls \cup {c}
Continues(c, step) == calls' = (calls \ {c}) \cup {[c EXCEPT !.step = step]}
Ends(c) == calls' = calls \ {c}

Init ==
  /\ source = 1
  /\ lock = Free
  /\ request = [q \in Requests |-> Idle]
  /\ \E stored \in {L \in SUBSET LegacyJobs : Cardinality(L) <= 1} :
       /\ job = [j \in Jobs |-> IF j \in stored THEN QueuedJob(1) ELSE AbsentJob]
       /\ attempt = [j \in Jobs |-> IF j \in stored THEN Consent ELSE AbsentAttempt]
  /\ calls = {}
  /\ permits = {}
  /\ revoked = {}

-----------------------------------------------------------------------------
(* Who owns the page *)

(* rednote_publish_local_job_allows_newer_revision *)
AllowsNewerRevision(j, revision) ==
  /\ job[j].revision < revision
  /\ job[j].status = "failed" /\ ~job[j].staged /\ ~job[j].authorized
  /\ attempt[j].state = "closed" /\ attempt[j].outcome \in {"known_failed", "expired"}
  /\ ~attempt[j].authorized

\* Slip: only a job that is still at work owns its page.
BlocksWhileLive(j, revision) == Live(j)
(* rednote_publish_revision_blockers: any other job of the page *)
Blocks(j, revision) == Exists(j) /\ ~AllowsNewerRevision(j, revision)
Blocked(revision) == \E j \in Jobs : Blocks(j, revision)

(* assertNoCompetingPublishLifecycle for the recovery of a job, which the  *)
(* index of active attempts adds to when its attempt is reactivated.       *)
Recoverable(j) ==
  /\ \A k \in Jobs \ {j} :
       ~Blocks(k, job[j].revision) /\ attempt[k].state # "active"
  /\ ~job[j].staged /\ ~job[j].authorized /\ ~attempt[j].authorized

(* What a fence, a stale packet or a supersession does to a job. *)
Close(closing, error) ==
  /\ job' = [j \in Jobs |-> IF j \in closing
       THEN [job[j] EXCEPT !.status = "failed", !.error = error] ELSE job[j]]
  /\ revoked' = revoked \cup closing

-----------------------------------------------------------------------------
(* The packet is edited *)

EditPost ==
  /\ source < MaxRevision
  /\ source' = source + 1
  /\ UNCHANGED <<lock, request, rows, calls, permits, revoked>>

-----------------------------------------------------------------------------
(* The operator authorizes a packet *)

Step(q, step) == request' = [request EXCEPT ![q].step = step]
EndRequest(q) ==
  /\ request' = [request EXCEPT ![q] = Idle]
  /\ lock' = IF lock = q THEN Free ELSE lock

(* queueLocalPublishJob: a key seen before is answered from its rows, or   *)
(* gets the attempt it is missing; a new one freezes the packet.  The keys *)
(* of batch jobs are not the operator's.                                   *)
Authorize(q, j) ==
  /\ request[q].step = "idle"
  /\ j \notin LegacyJobs /\ attempt[j].state = "absent"
  /\ request' = [request EXCEPT ![q] =
       IF Exists(j)
         THEN [step |-> "attempt", job |-> j, revision |-> job[j].revision,
               locks |-> FALSE]
         ELSE [step |-> "lock", job |-> j, revision |-> source,
               locks |-> TRUE]]
  /\ UNCHANGED <<source, lock, rows, calls, permits, revoked>>

(* withReadyX3SourceLock *)
TakeLock(q) ==
  /\ request[q].step = "lock" /\ lock = Free
  /\ lock' = q
  /\ Step(q, "persist")
  /\ UNCHANGED <<source, rows, calls, permits, revoked>>

(* Under the lock the key is looked up once more. *)
FindRaced(q) ==
  LET j == request[q].job IN
  /\ request[q].step = "persist" /\ Exists(j)
  /\ IF attempt[j].state = "absent" THEN Step(q, "attempt") /\ UNCHANGED lock
     ELSE EndRequest(q)
  /\ UNCHANGED <<source, rows, calls, permits, revoked>>

Consents == {j \in Jobs : Open(j) /\ attempt[j].consent}
Untouched(j) ==
  /\ job[j].status = "queued" /\ job[j].token = 0 /\ ~job[j].authorized
  /\ attempt[j].token = 0 /\ ~attempt[j].authorized

(* supersedeUnclaimedReadyX3Schedule, in a transaction of its own: retires *)
(* every earlier consent unless a worker has touched one.  The attempt is  *)
(* deactivated and keeps its NULL outcome.                                 *)
Supersede(q) ==
  /\ request[q].step = "persist" /\ ~Exists(request[q].job)
  /\ IF \A j \in Consents : Untouched(j)
       THEN /\ attempt' = [j \in Jobs |-> IF j \in Consents
                 THEN [attempt[j] EXCEPT !.state = "closed"] ELSE attempt[j]]
            /\ Close(Consents, "superseded")
            /\ Step(q, "insert")
            /\ UNCHANGED lock
       ELSE EndRequest(q) /\ UNCHANGED <<rows, revoked>>
  /\ UNCHANGED <<source, calls, permits>>

(* insertLocalPublishJob, on a connection of its own, takes the lock of    *)
(* the page too: whoever holds it, this request included, is waited for.   *)
Insert(q) ==
  LET j == request[q].job
      revision == request[q].revision IN
  /\ request[q].step = "insert" /\ lock = Free
  /\ IF IF Exists(j) THEN job[j].revision = revision ELSE ~Blocked(revision)
       THEN /\ job' = [job EXCEPT ![j] = IF Exists(j) THEN @ ELSE QueuedJob(revision)]
            /\ Step(q, "attempt")
            /\ UNCHANGED lock
       ELSE EndRequest(q) /\ UNCHANGED job
  /\ UNCHANGED <<source, attempt, calls, permits, revoked>>

(* createRednotePublishAttempt takes the lock unless it runs inside it.    *)
(* The index of active attempts admits one of the page; what became of the *)
(* job meanwhile is not asked.                                             *)
CreateAttempt(q) ==
  LET j == request[q].job IN
  /\ request[q].step = "attempt" /\ (request[q].locks \/ lock = Free)
  /\ IF attempt[j].state = "absent" /\ \A k \in Jobs : attempt[k].state # "active"
       THEN attempt' = [attempt EXCEPT ![j] = Consent] ELSE UNCHANGED attempt
  /\ EndRequest(q)
  /\ UNCHANGED <<source, job, calls, permits, revoked>>

(* The database ends the idle session that holds the lock; the request     *)
(* itself goes on.                                                         *)
LoseLock ==
  /\ lock # Free
  /\ lock' = Free
  /\ UNCHANGED <<source, request, rows, calls, permits, revoked>>
(* A request dies; its session and the lock go with it. *)
AbandonRequest(q) ==
  /\ request[q].step # "idle"
  /\ EndRequest(q)
  /\ UNCHANGED <<source, rows, calls, permits, revoked>>

-----------------------------------------------------------------------------
(* The worker claims, stages and authorizes *)

(* claimNextStoredLocalPublishJob: a queued job whose attempt is open and  *)
(* not held by a live claim, or again the job the token already holds.     *)
Claim(j) ==
  /\ job[j].status = "queued" /\ job[j].claims < MaxClaims
  /\ Open(j) /\ ~attempt[j].authorized /\ ~attempt[j].leased
  /\ job' = [job EXCEPT ![j].status = "claimed", ![j].claims = @ + 1,
                        ![j].token = job[j].claims + 1, ![j].leased = TRUE,
                        ![j].error = "none"]
  /\ Starts(Call("bind", j, job[j].claims + 1))
  /\ UNCHANGED <<source, lock, request, attempt, permits, revoked>>
Reclaim(j) ==
  /\ job[j].status = "claimed" /\ job[j].leased
  /\ Starts(Call("bind", j, job[j].token))
  /\ UNCHANGED <<source, lock, request, rows, permits, revoked>>

(* bindLinkedAttemptClaim, on the token the claim returned: an attempt     *)
(* that was closed since is not claimable.                                 *)
Bind(c) ==
  LET j == c.job
      bindable == Open(j) /\ ~attempt[j].authorized IN
  /\ c \in calls /\ c.step = "bind"
  /\ IF bindable /\ (~attempt[j].leased \/ attempt[j].token = c.token)
       THEN /\ attempt' = [attempt EXCEPT ![j].token = c.token, ![j].leased = TRUE]
            /\ Continues(c, "check")
       ELSE Ends(c) /\ UNCHANGED attempt
  /\ UNCHANGED <<source, lock, request, job, permits, revoked>>

(* invalidateLinkedReadyX3Source: both rows, or neither. *)
InvalidateSource(j, t) ==
  IF /\ Working(j) /\ job[j].token = t /\ ~job[j].authorized
     /\ Open(j) /\ attempt[j].token = t /\ attempt[j].consent /\ ~attempt[j].authorized
    THEN /\ attempt' = [attempt EXCEPT ![j].state = "closed", ![j].leased = FALSE,
                                      ![j].outcome = "known_failed"]
         /\ Close({j}, "stale")
    ELSE UNCHANGED <<rows, revoked>>
(* invalidateStoredBatchItem fails the batch job of a live claim,          *)
(* authorized or not; the attempt stays as it is.                          *)
InvalidateBatchItem(j, t) ==
  /\ job' = [job EXCEPT ![j] =
       IF Working(j) /\ job[j].token = t /\ job[j].leased
         THEN [@ EXCEPT !.status = "failed", !.error = "stale"] ELSE @]
  /\ UNCHANGED <<attempt, revoked>>

(* The packet is read again before the claim is answered. *)
CheckClaim(c) ==
  /\ c \in calls /\ c.step = "check"
  /\ IF source = job[c.job].revision THEN UNCHANGED <<rows, revoked>>
     ELSE IF attempt[c.job].consent THEN InvalidateSource(c.job, c.token)
     ELSE InvalidateBatchItem(c.job, c.token)
  /\ Ends(c)
  /\ UNCHANGED <<source, lock, request, permits>>

(* stageStoredLocalPublishJob *)
Stage(j) ==
  /\ job[j].status = "claimed" /\ job[j].leased
  /\ job' = [job EXCEPT ![j].status = "staged", ![j].staged = TRUE]
  /\ UNCHANGED <<source, lock, request, attempt, calls, permits, revoked>>

(* authorizeLocalPublishJob reads the job its token holds: what it goes on *)
(* to do depends on the row as it was then.                                *)
AskPermit(j) ==
  /\ Working(j) /\ job[j].leased
  /\ LET step == IF job[j].status = "claimed" THEN "inspect"
                 ELSE IF job[j].authorized THEN "repeat" ELSE "recheck"
     IN  Starts(Call(step, j, job[j].token))
  /\ UNCHANGED <<source, lock, request, rows, permits, revoked>>

Permit(c) == permits' = permits \cup {<<c.job, c.token>>}

(* The packet is read before the permit is consumed: for a batch job, still *)
(* misclassified or not, and then for a consent.  Only a staged job goes   *)
(* on, and a repeated call gets the permit again.                          *)
Recheck(c) ==
  LET j == c.job IN
  /\ c \in calls /\ c.step \in {"inspect", "recheck", "repeat"}
  /\ IF source # job[j].revision
       THEN /\ \/ j \in LegacyJobs /\ InvalidateBatchItem(j, c.token)
               \/ attempt[j].consent /\ InvalidateSource(j, c.token)
            /\ Ends(c)
       ELSE /\ IF c.step # "recheck" THEN Ends(c)
               ELSE Continues(c, IF attempt[j].consent THEN "consume" ELSE "authorize")
            /\ UNCHANGED <<rows, revoked>>
  /\ IF source = job[j].revision /\ c.step = "repeat"
       THEN Permit(c) ELSE UNCHANGED permits
  /\ UNCHANGED <<source, lock, request>>

Authorizable(j, t) ==
  /\ Open(j) /\ attempt[j].token = t /\ attempt[j].leased /\ ~attempt[j].authorized
Holding(j, t) == job[j].status = "staged" /\ job[j].token = t /\ job[j].leased

(* consumeLinkedReadyX3DispatchAuthorization: both rows, under the page's  *)
(* lock.                                                                   *)
ConsumeConsent(c) ==
  LET j == c.job IN
  /\ c \in calls /\ c.step = "consume" /\ lock = Free
  /\ IF /\ Holding(j, c.token) /\ ~job[j].authorized
        /\ Authorizable(j, c.token) /\ attempt[j].consent
       THEN /\ job' = [job EXCEPT ![j].authorized = TRUE]
            /\ attempt' = [attempt EXCEPT ![j].authorized = TRUE]
            /\ Continues(c, "stored")
       ELSE Ends(c) /\ UNCHANGED rows
  /\ UNCHANGED <<source, lock, request, permits, revoked>>

(* authorizeLinkedAttempt, for a reclassified batch job: takes no lock and *)
(* does not ask what became of the job.                                    *)
AuthorizeAttempt(c) ==
  LET j == c.job IN
  /\ c \in calls /\ c.step = "authorize"
  /\ IF Authorizable(j, c.token)
       THEN /\ attempt' = [attempt EXCEPT ![j].authorized = TRUE]
            /\ Continues(c, "stored")
       ELSE Ends(c) /\ UNCHANGED attempt
  /\ UNCHANGED <<source, lock, request, job, permits, revoked>>

(* consumeStoredDispatchAuthorization, a statement of its own, finds a     *)
(* consent's job authorized and authorizes a reclassified one.             *)
StoreAuthorization(c) ==
  LET j == c.job IN
  /\ c \in calls /\ c.step = "stored"
  /\ IF Holding(j, c.token)
       THEN job' = [job EXCEPT ![j].authorized = TRUE] /\ Continues(c, "confirm")
       ELSE Ends(c) /\ UNCHANGED job
  /\ UNCHANGED <<source, lock, request, attempt, permits, revoked>>

\* Slip: the packet is not read again once the permit is consumed.
ConfirmUnread(c) ==
  /\ c \in calls /\ c.step = "confirm"
  /\ Permit(c)
  /\ Ends(c)
  /\ UNCHANGED <<source, lock, request, rows, revoked>>
(* The packet is read once more before a consent's permit is handed out:   *)
(* one that was consumed for a packet edited meanwhile is withheld, and    *)
(* nothing takes the authorization back.                                   *)
Confirm(c) ==
  /\ c \in calls /\ c.step = "confirm"
  /\ IF attempt[c.job].consent /\ source # job[c.job].revision
       THEN UNCHANGED permits ELSE Permit(c)
  /\ Ends(c)
  /\ UNCHANGED <<source, lock, request, rows, revoked>>

(* submitLocalPublishJobResult with a failure closes the attempt first:    *)
(* recordLinkedAttemptOutcome looks for its token and not at the job, and  *)
(* a repeated report finds it closed.                                      *)
FailAttempt(j) ==
  /\ attempt[j].token # 0 /\ attempt[j].outcome \in {"none", "known_failed"}
  /\ attempt' = [attempt EXCEPT ![j].state = "closed", ![j].leased = FALSE,
                                ![j].outcome = "known_failed"]
  /\ Starts(Call("fail", j, attempt[j].token))
  /\ UNCHANGED <<source, lock, request, job, permits, revoked>>
\* Slip: the worker's error text is stored as the code.
FailJobUnmapped(c) ==
  LET j == c.job IN
  /\ c \in calls /\ c.step = "fail"
  /\ Working(j) /\ job[j].token = c.token /\ job[j].leased
  /\ job' = [job EXCEPT ![j].status = "failed", ![j].token = 0,
                        ![j].leased = FALSE, ![j].error = "worker"]
  /\ Ends(c)
  /\ UNCHANGED <<source, lock, request, attempt, permits, revoked>>
(* Then the job, failStoredLocalPublishJob. *)
FailJob(c) ==
  LET j == c.job IN
  /\ c \in calls /\ c.step = "fail"
  /\ IF Working(j) /\ job[j].token = c.token /\ job[j].leased
       THEN \E error \in {"recoverable", "other"} :
              job' = [job EXCEPT ![j].status = "failed", ![j].token = 0,
                                 ![j].leased = FALSE, ![j].error = error]
       ELSE UNCHANGED job
  /\ Ends(c)
  /\ UNCHANGED <<source, lock, request, attempt, permits, revoked>>

(* The outcome of an open attempt; a closed one keeps its own. *)
CloseOpen(j, outcome) ==
  attempt' = [attempt EXCEPT ![j] =
    IF attempt[j].outcome # "none" THEN @
    ELSE [@ EXCEPT !.state = "closed", !.leased = FALSE, !.outcome = outcome]]
(* What else a worker may report of an authorized dispatch. *)
Finish(j) ==
  /\ job[j].status = "staged" /\ job[j].authorized
  /\ job' = [job EXCEPT ![j].status = "submitted", ![j].token = 0, ![j].leased = FALSE]
  /\ CloseOpen(j, "other")
  /\ UNCHANGED <<source, lock, request, calls, permits, revoked>>

(* Leases run out; the attempt's may run out before the job's, when the    *)
(* heartbeat died between the two.                                         *)
ExpireLeases(j) ==
  /\ job[j].leased \/ attempt[j].leased
  /\ attempt' = [attempt EXCEPT ![j].leased = FALSE]
  /\ \E both \in BOOLEAN :
       job' = [job EXCEPT ![j].leased = IF both THEN FALSE ELSE @]
  /\ UNCHANGED <<source, lock, request, calls, permits, revoked>>
(* releaseExpiredStoredLocalPublishClaims: where either row is authorized, *)
(* the post may be there and has to be reconciled.                         *)
ReleaseExpired(j) ==
  LET unknown == \/ job[j].authorized
                 \/ attempt[j].authorized /\ attempt[j].outcome = "none" IN
  /\ Working(j) /\ ~job[j].leased
  /\ job' = [job EXCEPT ![j].status = IF unknown THEN "submitted" ELSE "failed",
                        ![j].token = 0,
                        ![j].error = IF unknown THEN "other" ELSE "expired"]
  /\ CloseOpen(j, IF unknown THEN "other" ELSE "expired")
  /\ UNCHANGED <<source, lock, request, calls, permits, revoked>>

AbandonCall(c) ==
  /\ c \in calls
  /\ Ends(c)
  /\ UNCHANGED <<source, lock, request, rows, permits, revoked>>

-----------------------------------------------------------------------------
(* The fence and the administrator *)

Started == \E j \in Jobs : attempt[j].consent /\ attempt[j].authorized

(* fenceReadyX3SourceMutation: unless a consent of the page was ever       *)
(* consumed, closes every open one and fails every job of the page that is *)
(* not authorized, whose attempts stay as they are if they are no consents. *)
Fence ==
  /\ lock = Free /\ ~Started
  /\ attempt' = [j \in Jobs |-> IF j \in Consents
       THEN [attempt[j] EXCEPT !.state = "closed", !.outcome = "known_failed",
                               !.leased = FALSE] ELSE attempt[j]]
  /\ Close({j \in Jobs : Live(j) /\ ~job[j].authorized}, "stale")
  /\ UNCHANGED <<source, lock, request, calls, permits>>

Requeue(j, row) ==
  /\ job' = [job EXCEPT ![j] = [@ EXCEPT !.status = "queued", !.token = 0,
                                        !.leased = FALSE, !.error = "none"]]
  /\ attempt' = [attempt EXCEPT ![j] = [row EXCEPT !.state = "active",
                    !.outcome = "none", !.token = 0, !.leased = FALSE]]
  /\ UNCHANGED <<source, lock, request, calls, permits, revoked>>
Reclassified(j) == [attempt[j] EXCEPT !.consent = FALSE]

(* requeueReadyX3PrestageClaim: a claim nothing was staged under, whether  *)
(* its lease is over or not.                                               *)
RequeuePrestageClaim(j) ==
  /\ lock = Free /\ Recoverable(j)
  /\ job[j].status = "claimed"
  /\ Open(j) /\ attempt[j].consent /\ attempt[j].token = job[j].token
  /\ Requeue(j, attempt[j])

\* Slip: any consent that was closed without a provider effect is requeued.
RequeueFailureOfAnyKind(j) ==
  /\ lock = Free /\ Recoverable(j)
  /\ job[j].status = "failed"
  /\ attempt[j].consent /\ attempt[j].state = "closed"
  /\ attempt[j].outcome \in {"known_failed", "expired"}
  /\ Requeue(j, attempt[j])
(* requeueReadyX3PreproviderFailure *)
RequeueFailure(j) ==
  /\ lock = Free /\ Recoverable(j)
  /\ job[j].status = "failed" /\ job[j].error = "recoverable"
  /\ attempt[j].consent /\ attempt[j].state = "closed"
  /\ attempt[j].outcome \in {"known_failed", "expired"}
  /\ Requeue(j, attempt[j])

(* requeueMisclassifiedBatchInvalidClaimFailure *)
ReclassifyFailure(j) ==
  /\ lock = Free /\ Recoverable(j) /\ j \in LegacyJobs
  /\ job[j].status = "failed" /\ job[j].error = "recoverable"
  /\ attempt[j].consent /\ attempt[j].state = "closed"
  /\ attempt[j].outcome \in {"known_failed", "expired"}
  /\ Requeue(j, Reclassified(j))
(* EXPIRED_BATCH_CLAIM_SQL_GUARDS: a claim whose leases are over and under *)
(* which nothing was staged or authorized.                                 *)
ExpiredMisclassified(j) ==
  /\ job[j].status = "claimed" /\ ~job[j].leased
  /\ Open(j) /\ attempt[j].consent
  /\ attempt[j].token = job[j].token /\ ~attempt[j].leased
(* requeueExpiredMisclassifiedBatchClaim *)
ReclassifyExpiredClaim(j) ==
  /\ lock = Free /\ Recoverable(j) /\ j \in LegacyJobs
  /\ ExpiredMisclassified(j)
  /\ Requeue(j, Reclassified(j))

(* TERMINAL_EXPIRED_BATCH_CLAIM_SQL_GUARDS: the first claim, which the     *)
(* release closed together with its attempt.                               *)
ReleasedMisclassified(j) ==
  /\ job[j].status = "failed" /\ job[j].error = "expired" /\ job[j].claims = 1
  /\ attempt[j].consent
(* Its attempt kept the claim and has no event after the lease's end.      *)
ClosedByRelease(j) ==
  /\ attempt[j].state = "closed" /\ attempt[j].outcome = "expired"
  /\ attempt[j].token # 0
(* requeueTerminalExpiredMisclassifiedBatchClaim *)
ReclassifyReleasedClaim(j) ==
  /\ lock = Free /\ Recoverable(j) /\ j \in LegacyJobs
  /\ ReleasedMisclassified(j) /\ ClosedByRelease(j)
  /\ Requeue(j, Reclassified(j))

-----------------------------------------------------------------------------

RequestStep(q) ==
  TakeLock(q) \/ FindRaced(q) \/ Supersede(q) \/ Insert(q) \/ CreateAttempt(q)

Next ==
  \/ EditPost \/ LoseLock \/ Fence
  \/ \E q \in Requests :
       (\E j \in Jobs : Authorize(q, j)) \/ RequestStep(q) \/ AbandonRequest(q)
  \/ \E j \in Jobs :
       \/ Claim(j) \/ Reclaim(j) \/ Stage(j) \/ AskPermit(j) \/ FailAttempt(j)
       \/ Finish(j) \/ ExpireLeases(j) \/ ReleaseExpired(j)
       \/ RequeuePrestageClaim(j) \/ RequeueFailure(j) \/ ReclassifyFailure(j)
       \/ ReclassifyExpiredClaim(j) \/ ReclassifyReleasedClaim(j)
  \/ \E c \in calls :
       \/ Bind(c) \/ CheckClaim(c) \/ Recheck(c) \/ ConsumeConsent(c)
       \/ AuthorizeAttempt(c) \/ StoreAuthorization(c) \/ Confirm(c) \/ FailJob(c) \/ AbandonCall(c)

Spec == Init /\ [][Next]_vars

(* A request whose process lives goes on as soon as it can. *)
FairSpec == Spec /\ \A q \in Requests : WF_vars(RequestStep(q))

-----------------------------------------------------------------------------
(* Properties *)

(* The rows, requests and calls have the shape of their tables. *)
TypeOK ==
  /\ source \in Revisions
  /\ lock \in Requests \cup {Free}
  /\ request \in [Requests -> RequestRow]
  /\ job \in [Jobs -> JobRow]
  /\ attempt \in [Jobs -> AttemptRow]
  /\ calls \subseteq Calls
  /\ permits \subseteq Jobs \X Tokens
  /\ revoked \subseteq Jobs

(* One attempt of a page is ever authorized, whatever consents, edits,     *)
(* fences, requeues and reclassifications there are: a packet's provider   *)
(* action starts once.                                                     *)
OneAuthorizedPerPage == Cardinality({j \in Jobs : attempt[j].authorized}) <= 1

(* A job that a fence, a changed packet or a newer consent closed stays    *)
(* closed: no recovery, late bind, repeated request or call in flight      *)
(* brings it back to work, stores its authorization or hands out a permit  *)
(* of it.  Its consent is never consumed; the attempt of a reclassified    *)
(* batch job may be, before or after the fence, to no effect.              *)
RevokedStaysRevoked ==
  \A j \in revoked :
    /\ ~Live(j) /\ ~job[j].authorized
    /\ attempt[j].consent => ~attempt[j].authorized
    /\ \A p \in permits : p[1] # j

(* A permit of a consent is handed out only while the packet is still the  *)
(* revision the operator consented to, though the packet can be edited     *)
(* between any two steps of the call.                                      *)
PermitIsCurrent ==
  [][\A p \in permits' \ permits :
       attempt[p[1]].consent => source = job[p[1]].revision]_vars

(* queueLocalPublishJob answers: a request for a Ready x3 consent does not *)
(* wait for ever.                                                          *)
ConsentIsAnswered ==
  \A q \in Requests : request[q] # Idle ~> request[q] = Idle
=============================================================================
