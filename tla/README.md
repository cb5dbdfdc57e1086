# Verification of the RedNote publishing of xhs-platform

xhs-platform plans posts in Notion and publishes them on RedNote through
workers: browsers driven on somebody's machine, which poll the platform for a
job, ask for permission to press *publish*, and report what they saw. Nothing
may be published twice, a page whose publication is uncertain may not be
offered again, and a worker, a request or the database connection can die
between any two steps. These modules model that part of the platform, check it
with TLC, and prove every safety property of it, and that the queue implements
its abstract specification, with TLAPS.

Paths below are relative to the repository; `lib/` stands for `src/lib/`.

## The system

### Components

| Component | State | Operations | What is hard, what makes it correct | Module |
|---|---|---|---|---|
| **Local publish queue** `lib/local-publish-job-store.ts`, `lib/local-publish-jobs.ts` | `local_publish_jobs`: status, claim token and expiry, staged/authorized/dispatched times, note, worker receipt | queue, claim, stage, authorize, record a result, defer, release expired claims, late result | Each call is several transactions on two tables; leases end meanwhile. One permit per page; a definite outcome is final; nothing verified without evidence | `LocalPublishQueue` |
| **Linked attempts** `lib/rednote-publishing-attempt-store.ts`, `migrations/` | `rednote_publish_attempts`, receipts, events | create, approve, bind, authorize, record the outcome, resolve a receipt | Written before the job by another transaction, guarded by triggers and partial unique indexes | `LocalPublishQueue` |
| **Dispatch activation** `lib/local-publish-dispatch-activation.ts` | one activation, the hold on the lane | prepare, activate, claim exactly, consume, cancel, release | The hold must be exclusive and must end; everything may change between prepare and activate | `DispatchActivation` |
| **Worker heartbeat** `lib/local-publish-worker-heartbeat.ts` | one identity row and its lease | heartbeat | Displaced by another worker, lapses at any time | `DispatchActivation` |
| **Job recovery** `lib/rednote-publish-job-recovery*.ts` | attempt generations, audits | requeue a job that failed before staging | Must never requeue what may have been published, however often it was recovered before | `DispatchActivation`, `Batches` |
| **Publishing batches** `lib/rednote-publish-batches.ts`, `lib/rednote-publish-batch-store.ts` | batch, items, manifest | prepare, rebuild, approve, materialize attempts, invalidate | Source and blockers are read before the transaction that decides; a crash leaves jobs without attempts | `Batches` |
| **Ready x3 consent** in the attempt store | source lock, consents, supersession | request, consume, fence, requeue, reclassify | Advisory lock over several connections; the packet changes under a permit | `ReadyX3` |
| **Operator attestation** `lib/operator-success-attestation-store.ts`, `lib/manual-scheduling-attestation-store.ts` | attested jobs | attest, acknowledge | The operator's word against the worker's | `Reconciliation` |
| **Manual reconciliation, external disposition, external posts** `lib/manual-reconciliation*.ts`, `lib/external-*.ts` | requests with claims and retry counts, external records, receipts | create, claim, complete, defer, fail, retry | A submission is seven transactions and two Notion calls; claims are replaced and records reclaimed on the way | `Reconciliation` |
| **Manual post handling** `lib/manual-post-handling-store.ts` | `plan_operator_scheduled_posts` | the operator takes a page over | Races every call in flight; nothing late may revive the job | `LocalPublishQueue`, `Reconciliation`, `Batches` |
| **Sweeps** `lib/rednote-sweeps.ts` | cadence records | release expired claims, recover receipts; of the batch it asks for it selects no page, so none is created (`lib/rednote-publish-batches.ts:392`) | Runs beside everything else | `ReleaseExpired` in four modules |
| **Notion** `lib/notion-posts.ts` | pages, revisions, published notes | read, write, match | Fails before or after a write; a page is edited at any time | as an environment of all |
| **Metrics collection** `lib/rednote-metrics.ts` | `rednote_metric_collection_state`, `post_performance_snapshots` | claim due posts, record observations | One statement each, which decides with the time of its start and applies later; claims are replaced and observations repeated | `MetricsCollection` |
| **PLAN handoff, quarantine, evidence, contract, schedules, media, UI** | own tables or none | | see *Not modelled* | |

### How they interact

A queued job and its attempt are rows of two tables which the service layer
writes in separate transactions, always in the same order: on a claim the job
and then the attempt; on authorization the attempt and then the job; on a
result the attempt, then the job, then Notion, then the job again. Between two
of them the request may die, the lease may end, the hourly sweep or another
worker may act, and the operator may take the page over. A retry of the worker
repeats the call from the start and finds the earlier writes done. The late
route and the sweep are the exceptions: each writes both rows in one statement.

Around the queue, a batch approval inserts its jobs in one transaction and their
attempts in later ones. An activation holds the whole lane for one job; a
database trigger refuses, during the hold, every other claim, approval, attempt
and requeue. It admits the held job, whoever claims it: that polls return nothing
during a hold is a condition of their own, which they read before the trigger
takes its lock. A recovery runs under such a hold and adds a generation to the
attempts of its job. Whatever owns a page (a job, an open batch item, a
reconciliation request, an external record, a receipt) blocks a new job or item
of it unless it is of an older revision that provably failed: one SQL function
answers that for all of them, and each caller asks it at a moment of its own.

`PROJECT.json` lists every component with its status, and the hazards of this
code at their lines.

## Modules

| Module | Content | Built on the same rows as |
|---|---|---|
| `LocalPublishQueue` | jobs, attempts, calls in flight, operator, sweep | |
| `PublishOnce` | abstract: a page gets one owner for ever, and is confirmed or taken over by hand once | refined by `LocalPublishQueue` |
| `LocalPublishQueueProofs` | theorems: types, one permit per page | |
| `LocalPublishQueueSafety` | theorems: the two rows of a publication, the order of the jobs of a page | extends `LocalPublishQueueProofs` |
| `LocalPublishQueueRefinement` | theorem: the queue implements `PublishOnce` | extends `LocalPublishQueueSafety` |
| `DispatchActivation` | activations, heartbeat, attempt generations and recovery, composed with the jobs they hold | the claim, sweep and results of the queue, coarsened |
| `Batches` | manifests and their approval, composed with jobs, recovery and the hold | a job's status and whether it left evidence |
| `ReadyX3` | consent requests, source lock and fence, the permit of one page | the claim and staging of the queue |
| `Reconciliation` | attestations, requests, external records, receipts, submissions | the job as far as it competes with the operator |
| `MetricsCollection` | metric claims with their numeric lease, observations, snapshots | none: reconciled pages are its input |
| `DispatchActivationProofs`, `BatchesProofs`, `ReadyX3Proofs`, `ReconciliationProofs`, `MetricsCollectionProofs` | theorems about the module each extends | |
| `MC...` | constants of the runs | |

Each module is a system of its own over the columns its properties need.
Components that interact are composed inside a module, at the granularity at
which they interact: an activation with recovery and the claims it excludes, a
batch with the life of its jobs, a request with the submissions in progress.

### Actions

One action is one transaction with all of its guards and writes, or a read on
which the call decides what it does next. A call that is refused changes
nothing and is not an action, unless the refusal ends a call in flight; a call
that dies is `AbandonCall`. Every interleaving of the transactions of up to
`MaxCalls` calls is explored.

**LocalPublishQueue.** `job[j]` is the row of a job (status `absent` before its
insert), `attempt[j]` the attempt linked to it, `source[p]` the revision of the
Notion page, `handled` the pages with a row in
`plan_operator_scheduled_posts`, `published` the pages whose Notion record was
marked Published. `calls` holds the service calls that still owe a transaction,
with their token and result; `permits` is history: which token was answered
with a permit for which job.

| Call of the service layer | Actions, in the order of the transactions |
|---|---|
| queue a job | `InsertJob` (newer-revision rule of migration 030), `CreateAttempt`, `ApproveAttempt` |
| claim | `ClaimNext`, then `BindAttempt` outside the verification lane, then `RecheckBatchSource` for a batch job |
| stage | `Stage` |
| authorize | `AuthorizeStaleSource`, or `Authorize`, `AuthorizeAttempt`, `ConsumeDispatchAuthorization` |
| v2 result | `RecordLinkedOutcome`, then the one of `RecordAcknowledged`, `RecordScheduled`, `RecordAmbiguous`, `RecordFailure`, `PrepareVerification`, `RepeatVerified` that `Records` selects; then `BackfillNotion` and `CompleteReconciliation` of a verified job |
| legacy result | `RecordDispatch`, `DeferVerification` |
| late result | `RecordLateResult` |
| sweep, operator | `ReleaseExpired`, `HandleManually` |
| environment | `EditSource`, `ExpireLease`, `ExpireAttemptLease`, `AbandonCall` |

**DispatchActivation.** `attempts[j]` is the sequence of a job's generations,
`audit[j]` the claim count of its latest recovery. An activation is prepared
(`DispatchReady` or `RecoveryReady`), activated, consumed by `ClaimExact`,
cancelled or released; `Admits...` is the trigger of migration 038, which every
write of a job or attempt passes. An ordinary claim is one statement and three
actions: `Poll` selects a job on a snapshot without a hold (`polls` holds the
jobs so selected), `ClaimOrdinary` writes it if its row is still queued and the
trigger admits it then, and `EndPoll` returns nothing. `Recover` is one transaction: audit, next
generation, requeue. The worker's claim, authorization and result are two
transactions each, as in the queue.

**Batches.** `ReadSelection` reads the sources and blockers; `CreateBatch`
stores the manifest under the page locks and supersedes a pending bootstrap.
`Approve` starts an approval, `ReadDecision` reads the posts one by one,
`ApproveManifest` decides all items, `ListApproved` and `MaterializeAttempt`
create the attempts. `Claim`, `Fail`, `Submit`, `InvalidateItem` and `Recover`
are what becomes of a job, with the trigger that moves its item (`SetJob`).

**ReadyX3.** A consent request is `Authorize`, `TakeLock`, `FindRaced` or
`Supersede`, `Insert`, `CreateAttempt`; `lock` is the advisory lock of the page
and belongs to the connection that took it. A worker's claim is `Claim`,
`Bind`, `CheckClaim`; its permit `AskPermit`, `Recheck`, then `ConsumeConsent`
(both rows in one transaction) or, for a reclassified batch job,
`AuthorizeAttempt`, then `StoreAuthorization` and `Confirm`. A stale packet
invalidates the batch item (`InvalidateBatchItem`) or the consent
(`InvalidateSource`). A failure is reported to the attempt, `FailAttempt`, and
then to the job, `FailJob`. `Fence` closes the consents before an edit; five
requeue and reclassification procedures bring jobs back. `permits` and
`revoked` are history.

**Reconciliation.** A submission of a verified result is a member of `calls`
and moves from `Prepare` (targeted requests) over `Begin`, `Lookup`, `Write`,
`Succeed` to `CompleteManual` or `CompleteDisposition`, or to `CloseExternal`
and `Settle` on an error. `external` is the record of a note, `receipt` and
`canonical` what the platform and Notion show for a page.

**MetricsCollection.** A claim is a read of candidates (`ReadDue`) and an upsert
(`ClaimDue`) within one SQL statement; an observation is one statement that is
sent (`Submit`) and applies later (`WriteObservation`, or `RefuseObservation` for
a stale claim). `calls` holds the statements in progress with the time of their
start, which is what CURRENT_TIMESTAMP means in all of them. `Observe` is the
worker's measurement; a worker measures, submits and submits again as it likes.
`recorded` is history: the observations that were accepted.

### Abstractions

- A lease is a Boolean, except in `MetricsCollection`, which has a clock. It may end at any moment, so a heartbeat, which only
  postpones that moment, is a stutter. Times to live are the same.
- In `MetricsCollection` every page was published at time 0, `Cadence` is the
  interval that follows a measurement by its time, and a worker measures after
  it was answered.
- Due times of jobs are reached at some point. The claim query takes the first
  candidate in time order; the models take any.
- A note is its id and URL, a snapshot or packet its revision, an identity
  tuple of an activation its job. Reports that do not match are a flag or a
  failed report.
- Workers choose their claim tokens in the queue, so tokens are replayed there;
  elsewhere a claim is numbered.
- The sweep releases one job per step. It does so in one statement for all
  expired jobs, and the rows do not depend on each other.
- `RecordLinkedOutcome` is enabled also where the late route would have been
  taken at that moment, because the code chooses on a read that is older than
  the write.
- `ReadyX3` ends an authorized dispatch in one step (`Finish`) and
  `DispatchActivation` and `Reconciliation` call every status after a
  publication "dispatched": those lives are `LocalPublishQueue`'s.
- `Reconciliation` has one job per page; a second one needs a newer revision,
  which the queue's properties cover.
- `DispatchActivation` gives every job a page of its own; what two jobs of a
  page may do to each other is in the queue and in `Batches`.

## What is checked

Deadlock is not checked: a system whose jobs all reached a final state, with no
edits or requests left, rightly stops.

| Run | Instance | Shows |
|---|---|---|
| `queue_handoff` | two jobs of one page (batch with a native schedule, plain immediate), two tokens, one edit, two calls in flight | `OnePermitPerPage`, `OneAuthorizationPerPage`: failures, edits, sweeps and newer revisions never lead to a second permit or authorized attempt; `ExpiredClaimIsReleased`: a silent worker's claim does not stay; `PublishesOnce`: the queue implements `PublishOnce`; `ScheduledIsAccepted`, `AuthorizationClosesDispatch`, `HandledClosesAutomation`: a schedule is backed, and late results and retries reopen nothing |
| `results_post_now` | one immediate job, two tokens, two calls, combined and verification lanes | `VerifiedIsBacked`, `PublishedHasEvidence`, `RejectedNeverPublished`, `OutcomeIsFinal`: two results crossing each other, repeated, late or cut short leave both rows consistent; `VerifiedIsReconciled` |
| `activation` | two jobs, one worker, two activations, two recoveries of the first job | `LaneIsExclusive`: no other job is worked on beside a hold, neither one claimed before it nor one a poll selected before it; `ConsumedClaimedItsGeneration`; `StagedIsNotRequeued`, `SupersededNeverAuthorized` over generations; `ConsumedHoldEnds` |
| `requests` | two pages, one note, a job on one page, two requests, two submissions | `ReconciledIsBacked`: a reconciled request has its external record, its receipt and its job, although records are reclaimed and calls die; `ReportedPageIsNotDispatched`; `ClosedStaysClosed` |
| `requests_settle` | one request, two claims, two deferrals, retries | `RequestsSettle`: no request waits for ever |
| `batches` | three batches over one page, one edit, two calls | `OneOwnerPerPage`, `OneReviewPerPage`, `SupersededIsNeverWorked`, `DecisionIsFinal`, `ApprovalDecidesEveryItem`, `InvalidatedIsNeverWorked`, `UnattachedJobIsRepairable` |
| `ready_x3` | a consent and a misclassified batch job of one page, two requests, two calls, two claims of a job, one edit | `OneAuthorizedPerPage`; `RevokedStaysRevoked`: what a fence, an edit or a newer consent closed gets no permit and never comes back, although the fence may fall between the two writes that authorize a reclassified job; `PermitIsCurrent` |
| `metrics` | one page, two claims, two metrics values, four measurements, two statements in progress, a clock of five | `OneCollectorAtATime`: claims that read the same candidates lease a page to one of them; `LastClaimIsShown`: a page shows what its last recorded claim measured, later than all that the claims before it recorded; `ReplayWritesNothing`: a repeated observation changes nothing, under the lease or after it |

Each module's `TypeOK` is checked by one of its runs; that of `MetricsCollection` is proved.

Four runs end in a counterexample; each states what a document or a test of the
repository says and shows the code doing something else:

| Run | Claim | What the code does |
|---|---|---|
| `stuck_hold` | `README.md:690-691`: an unconsumed active activation can be cancelled once its worker is offline | cancel also wants the job queued; an activation for a failed job that expires before the recovery can be neither used, cancelled nor released |
| `unattestable` | `README.md:392-393`: Admin offers the attestation for a terminal `AMBIGUOUS_CREATOR_UI` attempt | the failure erases the claim token the attestation demands |
| `rebuilt_bootstrap` | `README.md:521-524`: rebuilding a pending bootstrap releases its items to the replacement | the blockers are read before the old manifest is superseded, so its items block the replacement |
| `ready_x3_hangs` | `lib/ready-x3-regressions.test.ts:79`: a consent creates its frozen attempt | the request waits on one connection for the advisory lock it holds on another |

`stuck_hold` and `ready_x3_hangs` are liveness properties under a specification
with fairness; the other two are an invariant and an action property.

### Other gaps the models reach

The models follow the code in these as well. No run of the project states them:

- `README.md:240-242`, `877-878` say a stale claimed or staged job is recovered
  by a later worker; the claim query takes queued jobs only and the sweep fails
  expired claims (`lib/local-publish-job-store.ts:535`, `958`).
- `README.md:874-875` says ordinary dispatch polling returns no claim while an
  activation is active or consumed. A poll reads that on its snapshot
  (`lib/local-publish-job-store.ts:539`); one that began before the activation
  committed is admitted by the trigger if its candidate is the held job
  (`migrations/038_exact_job_dispatch_activations.sql:235-240`), and claims it
  for a worker the operator did not name. When that claim fails, the active hold
  is stuck as in `stuck_hold`. That no *other* job is claimed is
  `LaneIsExclusive`, which holds.
- `README.md:886-887` says a poll without a lane keeps working; a combined poll
  that takes a verification job commits its lease and then fails to bind the
  settled attempt (`lib/local-publish-jobs.ts:773`).
- `lib/local-publish-jobs.ts:800` asks to refresh a changed source into a new
  batch; the failed job's attempt stays active and migration 030 refuses the
  newer revision for it (`lib/rednote-publish-batch-store.ts:832`).
- `docs/REDNOTE_PUBLISHING_CONTRACT_V1.md:79-85` promises a late, idempotent
  delivery; a rejection that reached the attempt and not the job is refused
  late, and the job waits (`lib/local-publish-job-store.ts:1932`).
- A superseded Ready x3 consent keeps no terminal outcome, so the newer-revision
  rule refuses the replacement it was retired for
  (`lib/rednote-publishing-attempt-store.ts:537`).
- Repairing a consent's missing attempt creates an active one also for a job
  that a fence failed meanwhile, and the fence leaves attempts of other kinds
  active; either keeps newer attempts of the page out.
- A permit that was consumed and then withheld because the packet changed stays
  consumed; the job waits for the sweep.
- `lib/rednote-metrics.test.ts:43` says the scheduled metrics query claims only
  due posts; its upsert asks again for the lease only. An observation that began
  before the lease ran out and applies between the candidate read and the upsert
  leaves the page free and not due, and it is claimed (`lib/rednote-metrics.ts:264`).
- `README.md:958-961` says a changed metrics replay after expiry is stale and
  counted as a failure. A statement compares the lease with its own start, and
  nothing orders two different submissions of one claim that overlap: the one
  that started first may apply last, is accepted although the other ended the
  lease, and takes the row back to an earlier measurement than its own latest
  snapshot (`lib/rednote-metrics.ts:303-317`). `MetricsCollection` reaches this;
  across claims the order is kept, which is `LastClaimIsShown`.
- The source fence asks for the attempts of consents only
  (`lib/rednote-publishing-attempt-store.ts:897-903`). Of a reclassified batch
  job it may fail the job after the attempt was authorized: the permit is then
  refused, and the authorized attempt keeps the page blocked until its worker
  reports an outcome, for the sweep releases claimed and staged jobs only.
- An on-demand claim is measured before the page is due and the next checkpoint
  is counted from there, so frequent manual collection of unchanged metrics
  postpones the checkpoint snapshot (`lib/rednote-metrics.ts:355-366`).
- A retried reconciliation request keeps its claim count, so one whose claims
  were exhausted gets a single claim per retry.

### Bounds

- *Two jobs of one page* (queue): what relates two jobs is the page, and every
  such relation is between two jobs. The theorem below covers any number.
- *Two claim tokens* (queue): the holder and one other, with replays; the runs
  with liveness or a refinement use no symmetry.
- *Dispatch lane only* (`queue_handoff`): what verification does to a job is in
  `results_post_now`, with an immediate job. A job with a native schedule in
  verification is beyond the bounds of the runs and covered by the theorems.
- *`MaxCalls` 1 or 2*: a call can be overtaken between two of its transactions
  by another one; single transactions and the environment interleave anyway.
  `stuck_hold` and the violations need less.
- *`MaxRevision` 2*: one edit, enough for an approved revision to be stale and
  for a newer job to be queued. One where no property is about edits.
- *Two activations, `MaxGeneration` 2 and 0*: a second activation prepared
  before or during the first, and a recovery of a recovered job; the second job
  is a bystander that claims beside the hold.
- *Three batches, one page*: one superseded, one pending, one approved, or two
  approved. Pages of a batch interact only through the manifest's status, which
  one page already decides.
- *`MaxClaims` 2* (`ReadyX3`): a requeue after a first claim; `claim_attempts=1`
  tells the reclassified claim from a later one.
- *Two requests, two pages, one note*: two reports of one note for different
  pages, or two for one page after another. `ClaimLimit` and
  `VerificationLimit` are constants of the code (12 and 4), small here; `RetryBound` bounds the operator's retries.
- *Clock of 5, lease of 3, interval of 2, four measurements* (`metrics`): a lease
  can be ended by an observation or run out, be replaced, and be observed again,
  both claims can record, and different statements of one claim and of two cross. Pages of a batch do not depend on each other; the proof
  has any number.

### Fairness

`VerifiedIsReconciled` is checked for an immediate job. A scheduled job whose
outcome stayed unknown can be verified only under another token than its
attempt's, which recorded that other outcome; a worker that reuses one token is
refused, and `FairWorkers` does not ask for another.

`LocalPublishQueue!FairSpec` assumes that the sweep runs again and again: the
code runs it before each claim and on the hourly schedule of
`lib/rednote-sweeps.ts`.

`FairWorkers` is what reconciliation needs. Leases end; as long as requests are
in flight, some request goes on or ends (the platform's functions time out).
Workers keep polling the verification lane and reporting what they were handed,
and although any one request may die or lose its lease at any point, this does
not happen to all of them for ever: strong fairness of `Reclaim`, `Redeliver`
and the three remaining transactions, for a call that holds the lease and names
the recorded identity. Workers that are not fair in this sense really do leave
a job verified; nothing else in the code reconciles it.

`DispatchActivation!FairSpec`: leases run out, the sweep runs, and the operator
keeps retiring a hold that can be retired (`Release`, `Cancel`).
`Reconciliation!FairSpec`: request leases run out, and a worker keeps asking for
due requests, which also fails the exhausted ones. What the worker does with a
claim is not fair; it may say nothing for ever. `ReadyX3!FairSpec`: a request
whose process lives takes its next step when it can.

## What is proved

TLC explores the instances above. TLAPS proves the same properties for every
set of jobs, pages, notes, requests, batches, workers and tokens, for every
bound, and for any number of calls in flight. Every invariant and every action
property of a passing run is a theorem:

| Module | Theorems, and the property each states |
|---|---|
| `LocalPublishQueueProofs` | `TypeCorrect` (`TypeOK`), `OnePermit` (`OnePermitPerPage`) |
| `LocalPublishQueueSafety` | `OneAuthorization` (`OneAuthorizationPerPage`), `AuthorizationCloses` (`AuthorizationClosesDispatch`), `VerifiedBacked` (`VerifiedIsBacked`), `ScheduledAccepted` (`ScheduledIsAccepted`), `RejectedUnpublished` (`RejectedNeverPublished`), `HandledCloses` (`HandledClosesAutomation`), `PublishedEvident` (`PublishedHasEvidence`), `OutcomeFinal` (`OutcomeIsFinal`) |
| `LocalPublishQueueRefinement` | `ImplementsPublishOnce` (`PublishesOnce`) |
| `DispatchActivationProofs` | `TypeCorrect`, `ExclusiveLane` (`LaneIsExclusive`), `ConsumedIsExact` (`ConsumedClaimedItsGeneration`), `SupersededUnauthorized` (`SupersededNeverAuthorized`), `StagedStays` (`StagedIsNotRequeued`) |
| `BatchesProofs` | `TypeCorrect`, `OneOwner` (`OneOwnerPerPage`), `OneReview` (`OneReviewPerPage`), `SupersededUnworked` (`SupersededIsNeverWorked`), `ApprovalDecides` (`ApprovalDecidesEveryItem`), `InvalidatedUnworked` (`InvalidatedIsNeverWorked`), `UnattachedRepairable` (`UnattachedJobIsRepairable`), `DecidedOnce` (`DecisionIsFinal`) |
| `ReadyX3Proofs` | `TypeCorrect`, `AuthorizedOnce` (`OneAuthorizedPerPage`), `RevokedStays` (`RevokedStaysRevoked`), `PermitsAreCurrent` (`PermitIsCurrent`) |
| `ReconciliationProofs` | `TypeCorrect`, `ReconciledBacked` (`ReconciledIsBacked`), `ReportedNotDispatched` (`ReportedPageIsNotDispatched`), `ClosedStays` (`ClosedStaysClosed`) |
| `MetricsCollectionProofs` | `TypeCorrect`, `OneCollector` (`OneCollectorAtATime`), `LastClaimShown` (`LastClaimIsShown`), `ReplaysWriteNothing` (`ReplayWritesNothing`) |

Each proof module starts with its inductive invariant, proves for every action
a lemma that the invariant survives it, combines them in one lemma over `Next`,
and derives the theorems. Each invariant was first found to hold in every state
of a TLC instance.

### The inductive invariants, and why they are needed

None of the properties is inductive. What each lacks is the reason the code
has, and that is what the invariants add.

**One permit per page** (`PermitInv`). A permit's job is authorized and, while
it can be dispatched, carries the permit's token (`PermitBacked`); an authorized
job is past the states a claim starts from (`AuthorizedIsStaged`); of two jobs
of a page one is out of the dispatch states and was never authorized
(`OneJobAtATime`), which the newer-revision rule establishes when it inserts a
job.

**The two rows of a publication** (`SafetyInv`). A result is written to the
attempt by one transaction and to the job by a later one, so no property of both
rows can be shown from the rows alone. `RowInv` says what one pair of rows may
show; its core is that an authorized attempt is held by the token that staged
its job, so the author of the outcome and the holder of the job are one worker.
`CallInv` says what a call learned in its first transaction and still may rely
on in its next, with any number of steps of others between them. It holds
because of `Forward`, the list of what no step takes back (an authorization, a
definite outcome, a receipt, a token of a staged job), which the proof shows of
every action; `OutcomeIsFinal` is part of that list. `OneOpenJob` orders the
jobs of a page on the attempt's side of the gap, where a crash between the two
authorizations leaves them different.

**The refinement.** The mapping reads the owner of a page off its authorized
attempt (`Owner`, a `CHOOSE` that `OneAuthorizationPerPage` makes unique) and its
phase off the jobs and the handled pages. Initial states map to initial states;
`AuthorizeAttempt` is the abstract `Authorize`; the two steps that verify a job
are `Confirm`, or a stutter on a page that is confirmed already; `HandleManually`
is `TakeOver`; every other step is a stutter.

**The exclusive lane** (`HoldInv`). What a hold promises holds because there is
one hold (`OneHold`): the claim that consumes one activation would break the
exclusivity of another. A recovery's promise rests on the job's row (`RowRule`):
it has an attempt once it left the queue and no trace of a dispatch before.

**One owner of a page** (`PageInv` of `BatchesProofs` and of `ReadyX3Proofs`).
Jobs and items of a page are ordered by revision: of two, the older one failed
for certain and without evidence. A newer one is only admitted beside such a
job, and every recovery asks for the page to be free of newer ones, so the order
is kept although jobs come back. In `ReadyX3Proofs` the authorization of a
consent is written to both rows at once and never taken back, so the rows agree;
that of a reclassified job is written to its attempt first. A call that owes the
second write or has done it knows the attempt authorized (`CallRule`), a permit
needs the job authorized (`PermitInv`), and a revoked job is failed and
unauthorized, from which neither the second write nor a requeue leads back
(`RevokedInv`).

**Reconciliation.** `RequestRule` and `CallRule` rest on what nobody takes back:
an external record that succeeded, the receipt of a page, a reconciled job
(`RecordsGoOn`, `JobGoesOn`). A submission that reached its last step has seen
the record of its note succeed, so it may wait there for any time and still
completes a request that is backed. `JobRule` says that an attested job never
returns to a status a worker claims, stages or releases from.

**Metrics.** A statement decides with the time of its start, so what it finds has
to be related to that time. The order of the claims of a page is kept because a
claim is answered after all that earlier ones recorded was measured (`HeldRule`)
and measures later still (`MeasuredRule`); a statement that still may apply
submits such a measurement (`CallInv`), and the row accepts the current token
only, so a write is of the last claim. `RowRule` says that a page that shows
something has a snapshot, without which a repetition would be a checkpoint; that
a measured page is due again only later is the other half (`TypeOK`).

### Assumptions

The theorems assume what the modules' `ASSUME`s say of the constants, and
nothing else; TLC evaluates them in every run. Null values are not ids
(`NoToken`, `NoJob`, `NoWorker`, `NoNote`, `NoRequest`: columns are NULL, ids
are UUIDs or digests); each job has a page; lanes and error classes are those of
the code; bounds are naturals, revisions start at 1, a lease takes time and an
interval is a natural. Rows that were never
inserted are represented by rows with arbitrary references, so there must be
something to refer to: `JobsAssumption` of `DispatchActivation` and
`RowsAssumption` of `Reconciliation` say there is a job, a page, a note.
`LegacyJobs` of `ReadyX3` is finite, because at most one of them is stored and
that is said with a cardinality. The bounds (`MaxCalls`, `MaxRevision`, `MaxObserved`, ...)
are arbitrary, so they limit the instances TLC explores but not the theorems.

### What the proofs showed about the models

- A `CASE` in `Batches` had overlapping guards (an open item is also active), for
  which TLA+ leaves the value open; TLC takes the first. It is an `IF` now.
- The calls of `Batches` were built from `SUBSET Pages \ {{}}` without
  parentheses, which reads two ways; it says now what TLC had evaluated.
- The type invariants of `DispatchActivation` and `Reconciliation` need a
  non-empty set to refer to, which was implicit in the instances.

## What is only model-checked

- *Liveness*: `ExpiredClaimIsReleased`, `VerifiedIsReconciled`,
  `ConsumedHoldEnds`, `RequestsSettle`. Proofs of leads-to under fairness need
  ENABLED, which the proof system cannot reason about.
- *The four counterexamples*: a theorem has no use for them.

## Not modelled

- *Sources of the metric claims*: which job or receipt shows a publication, and
  a claim that finds another source than the one before; the order of the
  candidates; the run summary.
- *PLAN handoff* beyond its rows: HTTP with a remote planner, a read-only
  projection, and manifest tables nothing else reads.
- *Queue quarantine*: a one-off reset against an exact manifest of the queue.
- *External posts reported without a page*, for which Notion is searched and a
  page may be created; *stable-link capture*; *cadence records* of the sweeps.
- *The worker's own verification of an operator-attested job*, and exact
  replays of operator requests, which answer from their rows.
- *`repair_missing_attempt_lineage`* of the recovery: it needs a job without an
  attempt under a hold, and the attempt cannot be created under it.
- *Numbers of leases, due times and backoffs*: a lease ends at some moment.
- *Contract parsing, editorial schedules, evidence precedence*: pure functions
  without state; *media, sessions, storage, admin UI*: I/O and rendering.

## Plan

What is left, in this order:

1. A numeric **lease** module for the jobs, with the clock of
   `MetricsCollection`: claim, heartbeat and expiry, shown to implement the
   Boolean lease used here.
2. Pure algorithms (verification backoff, schedule slots, evidence precedence)
   as functions checked against reference definitions.
3. Composition across modules: that the permit of `ReadyX3`
   and the coarse jobs of `DispatchActivation` are what `LocalPublishQueue` does.
