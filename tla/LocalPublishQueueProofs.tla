---------------------- MODULE LocalPublishQueueProofs ----------------------
(***************************************************************************)
(* Theorems about the publishing queue, for any sets of jobs, pages and    *)
(* claim tokens and any bound on edits and calls.                          *)
(***************************************************************************)
EXTENDS LocalPublishQueue, TLAPS

-----------------------------------------------------------------------------
(* Type correctness *)

LEMMA EmptyRows == AbsentJob \in JobRow /\ NoAttempt \in AttemptRow
  BY BoundsAssumption, TokensAssumption DEF AbsentJob, NoAttempt, JobRow, AttemptRow, JobStatus

LEMMA InitType == Init => TypeOK
  <1> SUFFICES ASSUME Init PROVE TypeOK
    OBVIOUS
  <1>1. job \in [Jobs -> JobRow] /\ attempt \in [Jobs -> AttemptRow]
    BY EmptyRows DEF Init
  <1>2. source \in [Pages -> 1..MaxRevision]
    BY BoundsAssumption DEF Init
  <1> QED
    BY <1>1, <1>2 DEF Init, TypeOK

LEMMA InsertJobType ==
  ASSUME TypeOK, NEW j \in Jobs, InsertJob(j)
  PROVE  TypeOK'
  <1>1. PICK revision \in 1..source[PageOf[j]] :
          job' = [job EXCEPT ![j] =
                    [AbsentJob EXCEPT !.status = "queued", !.revision = revision]]
    BY DEF InsertJob
  <1>2. revision \in 0..MaxRevision
    BY JobsAssumption, BoundsAssumption, <1>1 DEF TypeOK
  <1>3. [AbsentJob EXCEPT !.status = "queued", !.revision = revision] \in JobRow
    BY <1>2, EmptyRows DEF JobRow, JobStatus
  <1>4. job' \in [Jobs -> JobRow]
    BY <1>1, <1>3 DEF TypeOK
  <1> QED
    BY <1>4 DEF InsertJob, TypeOK

LEMMA RowTypes ==
  ASSUME TypeOK, NEW j \in Jobs
  PROVE  job[j] \in JobRow /\ attempt[j] \in AttemptRow
  BY DEF TypeOK

LEMMA CallTypes ==
  ASSUME TypeOK, NEW c \in calls
  PROVE  /\ c.job \in Jobs /\ c.token \in Tokens
         /\ job[c.job] \in JobRow /\ attempt[c.job] \in AttemptRow
  <1>1. c.job \in Jobs /\ c.token \in Tokens
    BY DEF TypeOK, Calls, ClaimCalls, PermitCalls, ResultCalls
  <1> QED
    BY <1>1, RowTypes

LEMMA ResultCallTypes ==
  ASSUME TypeOK, NEW c \in calls, c.op \in {"record", "backfill", "complete"}
  PROVE  /\ c.result \in Results
         /\ \A op \in {"backfill", "complete"} : Then(c, op) \in Calls
  BY DEF TypeOK, Calls, ClaimCalls, PermitCalls, ResultCalls, Then

LEMMA CreateAttemptType ==
  ASSUME TypeOK, NEW j \in Jobs, CreateAttempt(j)
  PROVE  TypeOK'
  <1> DEFINE batch == j \in BatchJobs
  <1>1. batch \in BOOLEAN
    OBVIOUS
  <1>2. attempt' = [attempt EXCEPT ![j] =
          [NoAttempt EXCEPT !.exists = TRUE, !.approved = batch, !.active = batch]]
    BY DEF CreateAttempt
  <1> HIDE DEF batch
  <1>3. attempt' \in [Jobs -> AttemptRow]
    BY <1>1, <1>2, EmptyRows DEF TypeOK, AttemptRow
  <1> QED
    BY <1>3 DEF CreateAttempt, TypeOK

LEMMA ApproveAttemptType ==
  ASSUME TypeOK, NEW j \in Jobs, ApproveAttempt(j)
  PROVE  TypeOK'
  <1>1. [attempt[j] EXCEPT !.approved = TRUE, !.active = TRUE] \in AttemptRow
    BY RowTypes DEF AttemptRow
  <1> QED
    BY <1>1 DEF ApproveAttempt, TypeOK

LEMMA ClaimNextType ==
  ASSUME TypeOK, NEW j \in Jobs, NEW t \in Tokens, NEW lane \in Lanes,
         ClaimNext(j, t, lane)
  PROVE  TypeOK'
  <1> DEFINE s == IF job[j].status = "queued" THEN "claimed" ELSE job[j].status
  <1>1. s \in JobStatus
    BY RowTypes DEF JobRow, JobStatus
  <1>2. job' = [job EXCEPT ![j] =
          [job[j] EXCEPT !.status = s, !.token = t, !.leased = TRUE]]
    BY DEF ClaimNext, TypeOK
  <1> HIDE DEF s
  <1>3. job' \in [Jobs -> JobRow]
    BY <1>1, <1>2, RowTypes DEF TypeOK, JobRow
  <1>4. calls' \subseteq Calls
    BY DEF ClaimNext, TypeOK, Starts, Calls, ClaimCalls
  <1> QED
    BY <1>3, <1>4 DEF ClaimNext, TypeOK

LEMMA BindAttemptType ==
  ASSUME TypeOK, NEW c \in calls, BindAttempt(c)
  PROVE  TypeOK'
  <1>1. calls' \subseteq Calls
    BY CallTypes DEF BindAttempt, TypeOK, Continues, Ends, Calls, ClaimCalls
  <1> DEFINE lease == Holds(c.job, c.token)
  <1>2. lease \in BOOLEAN
    BY CallTypes DEF Holds, JobRow
  <1>3. \/ attempt' = [attempt EXCEPT ![c.job] =
                         [attempt[c.job] EXCEPT !.token = c.token, !.leased = lease]]
        \/ UNCHANGED attempt
    BY CallTypes DEF BindAttempt, TypeOK
  <1> HIDE DEF lease
  <1>4. [attempt[c.job] EXCEPT !.token = c.token, !.leased = lease] \in AttemptRow
    BY <1>2, CallTypes DEF AttemptRow
  <1>5. attempt' \in [Jobs -> AttemptRow]
    BY <1>3, <1>4 DEF TypeOK
  <1> QED
    BY <1>1, <1>5 DEF BindAttempt, TypeOK

LEMMA InvalidateType ==
  ASSUME TypeOK, NEW j \in Jobs, NEW t \in Tokens, InvalidateBatchItem(j, t)
  PROVE  job' \in [Jobs -> JobRow]
  <1>1. [job[j] EXCEPT !.status = "failed", !.error = "BATCH_SOURCE_CHANGED"] \in JobRow
    BY RowTypes DEF JobRow, JobStatus
  <1> QED
    BY <1>1 DEF InvalidateBatchItem, TypeOK

LEMMA RecheckType ==
  ASSUME TypeOK, NEW c \in calls, RecheckBatchSource(c)
  PROVE  TypeOK'
  <1>1. job' \in [Jobs -> JobRow]
    BY CallTypes, InvalidateType DEF RecheckBatchSource, TypeOK
  <1> QED
    BY <1>1 DEF RecheckBatchSource, TypeOK, Ends

LEMMA StageType ==
  ASSUME TypeOK, NEW j \in Jobs, NEW t \in Tokens, Stage(j, t)
  PROVE  TypeOK'
  <1>1. [job[j] EXCEPT !.status = "staged", !.staged = TRUE] \in JobRow
    BY RowTypes DEF JobRow, JobStatus
  <1> QED
    BY <1>1 DEF Stage, TypeOK

LEMMA AuthorizeType ==
  ASSUME TypeOK, NEW j \in Jobs, NEW t \in Tokens,
         AuthorizeStaleSource(j, t) \/ Authorize(j, t)
  PROVE  TypeOK'
  <1>1. CASE AuthorizeStaleSource(j, t)
    BY <1>1, InvalidateType DEF AuthorizeStaleSource, TypeOK
  <1>2. CASE Authorize(j, t)
    BY <1>2 DEF Authorize, TypeOK, Starts, Calls, PermitCalls
  <1> QED
    BY <1>1, <1>2

LEMMA AuthorizeAttemptType ==
  ASSUME TypeOK, NEW c \in calls, AuthorizeAttempt(c)
  PROVE  TypeOK'
  <1>1. calls' \subseteq Calls
    BY CallTypes DEF AuthorizeAttempt, TypeOK, Continues, Calls, PermitCalls
  <1>2. [attempt[c.job] EXCEPT !.authorized = TRUE] \in AttemptRow
    BY CallTypes DEF AttemptRow
  <1>3. attempt' = [attempt EXCEPT ![c.job].authorized = TRUE]
    BY DEF AuthorizeAttempt
  <1> QED
    BY <1>1, <1>2, <1>3 DEF AuthorizeAttempt, TypeOK

LEMMA ConsumeType ==
  ASSUME TypeOK, NEW c \in calls, ConsumeDispatchAuthorization(c)
  PROVE  TypeOK'
  <1>1. [job[c.job] EXCEPT !.authorized = TRUE] \in JobRow
    BY CallTypes DEF JobRow
  <1>2. permits' \subseteq Jobs \X Tokens
    BY CallTypes DEF ConsumeDispatchAuthorization, TypeOK
  <1> QED
    BY <1>1, <1>2 DEF ConsumeDispatchAuthorization, TypeOK, Ends

-----------------------------------------------------------------------------
(* The outcome of the attempt *)

LEMMA WriteOutcomeType ==
  ASSUME TypeOK, NEW j \in Jobs, NEW receipt \in BOOLEAN,
         NEW outcome \in {"accepted", "known_failed", "outcome_unknown"},
         WriteOutcome(j, outcome, receipt)
  PROVE  attempt' \in [Jobs -> AttemptRow]
  <1> DEFINE lookup == LookupFor(outcome, receipt)
  <1>1. lookup \in {"identity_pending", "found", "not_required"}
    BY DEF LookupFor
  <1>2. attempt' = [attempt EXCEPT ![j] = [attempt[j] EXCEPT
          !.outcome = outcome, !.lookup = lookup, !.active = FALSE,
          !.leased = FALSE, !.receipt = receipt, !.reported = TRUE]]
    BY DEF WriteOutcome, TypeOK
  <1> HIDE DEF lookup
  <1>3. [attempt[j] EXCEPT
          !.outcome = outcome, !.lookup = lookup, !.active = FALSE,
          !.leased = FALSE, !.receipt = receipt, !.reported = TRUE] \in AttemptRow
    BY <1>1, RowTypes DEF AttemptRow
  <1> QED
    BY <1>2, <1>3 DEF TypeOK

LEMMA ResolveReceiptType ==
  ASSUME TypeOK, NEW j \in Jobs, NEW t \in Tokens, NEW outcome, NEW receipt,
         ResolveReceipt(j, t, outcome, receipt)
  PROVE  attempt' \in [Jobs -> AttemptRow]
  <1>1. [attempt[j] EXCEPT !.lookup = "found", !.receipt = TRUE] \in AttemptRow
    BY RowTypes DEF AttemptRow
  <1> QED
    BY <1>1 DEF ResolveReceipt, TypeOK

LEMMA OutcomeTypes ==
  ASSUME NEW j \in Jobs, NEW r \in Results
  PROVE  /\ OutcomeOf(j, r) \in {"accepted", "known_failed", "outcome_unknown"}
         /\ HasIdentity(r) \in BOOLEAN
  <1>1. OutcomeOf(j, r) \in {"accepted", "known_failed", "outcome_unknown"}
    BY DEF OutcomeOf
  <1> QED
    BY <1>1 DEF HasIdentity

LEMMA RecordLinkedOutcomeType ==
  ASSUME TypeOK, NEW j \in Jobs, NEW t \in Tokens, NEW r \in Results,
         RecordLinkedOutcome(j, t, r)
  PROVE  TypeOK'
  <1>1. attempt' \in [Jobs -> AttemptRow]
    <2>1. CASE WriteOutcome(j, OutcomeOf(j, r), HasIdentity(r))
      BY <2>1, OutcomeTypes, WriteOutcomeType
    <2>2. CASE ResolveReceipt(j, t, OutcomeOf(j, r), HasIdentity(r))
      BY <2>2, ResolveReceiptType
    <2>3. CASE UNCHANGED attempt
      BY <2>3 DEF TypeOK
    <2> QED
      BY <2>1, <2>2, <2>3 DEF RecordLinkedOutcome, RepeatOutcome, RepeatFromJobHolder
  <1>2. calls' \subseteq Calls
    BY DEF RecordLinkedOutcome, Starts, TypeOK, Calls, ResultCalls
  <1> QED
    BY <1>1, <1>2 DEF RecordLinkedOutcome, TypeOK

-----------------------------------------------------------------------------
(* The job's part of a result *)

LEMMA RecordAcknowledgedType ==
  ASSUME TypeOK, NEW c \in calls, RecordAcknowledged(c)
  PROVE  TypeOK'
  <1> DEFINE owned == c.result.match /\ c.job \in PostNowJobs
             url == c.result.identity = "url"
             s == IF owned THEN "verified" ELSE "verification_pending"
  <1>1. owned \in BOOLEAN /\ url \in BOOLEAN /\ s \in JobStatus
    BY DEF JobStatus
  <1>2. job' = [job EXCEPT ![c.job] = [job[c.job] EXCEPT
          !.status = s, !.note = TRUE, !.share = url, !.dispatched = TRUE,
          !.receipt = "acknowledged", !.leased = owned]]
    BY CallTypes DEF RecordAcknowledged, TypeOK
  <1>3. calls' \subseteq Calls
    BY ResultCallTypes DEF RecordAcknowledged, Records, Continues, Ends, TypeOK
  <1> HIDE DEF owned, url, s
  <1>4. [job[c.job] EXCEPT
          !.status = s, !.note = TRUE, !.share = url, !.dispatched = TRUE,
          !.receipt = "acknowledged", !.leased = owned] \in JobRow
    BY <1>1, CallTypes DEF JobRow
  <1>5. job' \in [Jobs -> JobRow]
    BY <1>2, <1>4 DEF TypeOK
  <1> QED
    BY <1>3, <1>5 DEF RecordAcknowledged, TypeOK

LEMMA RecordScheduledType ==
  ASSUME TypeOK, NEW c \in calls, RecordScheduled(c)
  PROVE  TypeOK'
  <1> DEFINE note == job[c.job].note \/ HasIdentity(c.result)
             s == IF c.result.match THEN "scheduled" ELSE "verification_pending"
  <1>1. note \in BOOLEAN /\ s \in JobStatus
    BY DEF JobStatus
  <1>2. job' = [job EXCEPT ![c.job] = [job[c.job] EXCEPT
          !.status = s, !.note = note, !.dispatched = TRUE,
          !.receipt = "scheduled", !.leased = FALSE]]
    BY CallTypes DEF RecordScheduled, TypeOK
  <1> HIDE DEF note, s
  <1>3. [job[c.job] EXCEPT
          !.status = s, !.note = note, !.dispatched = TRUE,
          !.receipt = "scheduled", !.leased = FALSE] \in JobRow
    BY <1>1, CallTypes DEF JobRow
  <1>4. job' \in [Jobs -> JobRow]
    BY <1>2, <1>3 DEF TypeOK
  <1> QED
    BY <1>4 DEF RecordScheduled, Ends, TypeOK

LEMMA RecordAmbiguousType ==
  ASSUME TypeOK, NEW c \in calls, RecordAmbiguous(c)
  PROVE  TypeOK'
  <1>1. [job[c.job] EXCEPT
          !.status = "verification_pending", !.dispatched = TRUE,
          !.receipt = "ambiguous", !.leased = FALSE] \in JobRow
    BY CallTypes DEF JobRow, JobStatus
  <1> QED
    BY <1>1 DEF RecordAmbiguous, Ends, TypeOK

LEMMA RecordFailureType ==
  ASSUME TypeOK, NEW c \in calls, RecordFailure(c)
  PROVE  TypeOK'
  <1> DEFINE rec == IF c.result.outcome = "rejected" THEN "rejected"
                    ELSE job[c.job].receipt
  <1>1. rec \in {"none", "acknowledged", "scheduled", "ambiguous", "rejected"}
    BY CallTypes DEF JobRow
  <1>2. job' = [job EXCEPT ![c.job] = [job[c.job] EXCEPT
          !.status = "failed", !.token = NoToken, !.leased = FALSE,
          !.receipt = rec, !.error = "worker"]]
    BY CallTypes DEF RecordFailure, TypeOK
  <1> HIDE DEF rec
  <1>3. [job[c.job] EXCEPT
          !.status = "failed", !.token = NoToken, !.leased = FALSE,
          !.receipt = rec, !.error = "worker"] \in JobRow
    BY <1>1, CallTypes DEF JobRow, JobStatus
  <1> QED
    BY <1>2, <1>3 DEF RecordFailure, Ends, TypeOK

LEMMA PrepareVerificationType ==
  ASSUME TypeOK, NEW c \in calls, PrepareVerification(c)
  PROVE  TypeOK'
  <1>1. [job[c.job] EXCEPT !.status = "verified", !.note = TRUE, !.share = TRUE] \in JobRow
    BY CallTypes DEF JobRow, JobStatus
  <1>2. job' \in [Jobs -> JobRow]
    BY <1>1 DEF PrepareVerification, TypeOK
  <1>3. calls' \subseteq Calls
    BY ResultCallTypes DEF PrepareVerification, Records, Continues, TypeOK
  <1> QED
    BY <1>2, <1>3 DEF PrepareVerification, TypeOK

LEMMA RepeatVerifiedType ==
  ASSUME TypeOK, NEW c \in calls, RepeatVerified(c)
  PROVE  TypeOK'
  <1>1. calls' \subseteq Calls
    BY ResultCallTypes DEF RepeatVerified, Records, Continues, TypeOK
  <1> QED
    BY <1>1 DEF RepeatVerified, TypeOK

LEMMA BackfillType ==
  ASSUME TypeOK, NEW c \in calls, BackfillNotion(c)
  PROVE  TypeOK'
  <1>1. calls' \subseteq Calls
    BY ResultCallTypes DEF BackfillNotion, Continues, TypeOK
  <1>2. published' \subseteq Pages
    BY CallTypes, JobsAssumption DEF BackfillNotion, TypeOK
  <1> QED
    BY <1>1, <1>2 DEF BackfillNotion, TypeOK

LEMMA CompleteType ==
  ASSUME TypeOK, NEW c \in calls, CompleteReconciliation(c)
  PROVE  TypeOK'
  <1>1. [job[c.job] EXCEPT !.status = "reconciled"] \in JobRow
    BY CallTypes DEF JobRow, JobStatus
  <1>2. job' = [job EXCEPT ![c.job].status = "reconciled"]
    BY DEF CompleteReconciliation
  <1> QED
    BY <1>1, <1>2 DEF CompleteReconciliation, Ends, TypeOK

LEMMA RecordDispatchType ==
  ASSUME TypeOK, NEW j \in Jobs, NEW t \in Tokens, RecordDispatch(j, t)
  PROVE  TypeOK'
  <1> DEFINE s == IF HasPublishAt(j) THEN "scheduled" ELSE "submitted"
  <1>1. s \in JobStatus
    BY DEF JobStatus
  <1>2. job' = [job EXCEPT ![j] = [job[j] EXCEPT
          !.status = s, !.note = TRUE, !.share = TRUE,
          !.dispatched = TRUE, !.leased = FALSE]]
    BY DEF RecordDispatch, TypeOK
  <1> HIDE DEF s
  <1>3. [job[j] EXCEPT
          !.status = s, !.note = TRUE, !.share = TRUE,
          !.dispatched = TRUE, !.leased = FALSE] \in JobRow
    BY <1>1, RowTypes DEF JobRow
  <1>4. job' \in [Jobs -> JobRow]
    BY <1>2, <1>3 DEF TypeOK
  <1> QED
    BY <1>4 DEF RecordDispatch, TypeOK

LEMMA DeferVerificationType ==
  ASSUME TypeOK, NEW j \in Jobs, NEW t \in Tokens, DeferVerification(j, t)
  PROVE  TypeOK'
  <1>1. [job[j] EXCEPT !.status = "verification_pending", !.leased = FALSE] \in JobRow
    BY RowTypes DEF JobRow, JobStatus
  <1> QED
    BY <1>1 DEF DeferVerification, TypeOK

-----------------------------------------------------------------------------
(* After the lease *)

LEMMA RecordLateResultType ==
  ASSUME TypeOK, NEW j \in Jobs, NEW t \in Tokens, NEW r \in LateResults,
         RecordLateResult(j, t, r)
  PROVE  TypeOK'
  <1> DEFINE outcome == LateOutcome(r)
             lookup == LookupFor(outcome, HasIdentity(r))
             s == CASE outcome = "known_failed" -> "failed"
                    [] outcome = "accepted" -> "scheduled"
                    [] OTHER -> "verification_pending"
             receipt == attempt[j].receipt \/ HasIdentity(r)
             note == job[j].note \/ HasIdentity(r)
             dispatched == job[j].dispatched \/ r.outcome # "rejected"
             error == IF r.outcome = "rejected" THEN "worker" ELSE "none"
  <1>1. /\ outcome \in {"accepted", "known_failed", "outcome_unknown"}
        /\ lookup \in {"identity_pending", "found", "not_required"}
    BY DEF LateOutcome, LookupFor
  <1>2. s \in JobStatus /\ error \in {"none", "worker"}
    BY DEF JobStatus
  <1>3. receipt \in BOOLEAN /\ note \in BOOLEAN /\ dispatched \in BOOLEAN
    OBVIOUS
  <1>4. r.outcome \in {"scheduled", "ambiguous", "rejected"}
    BY DEF LateResults
  <1>5. attempt' = [attempt EXCEPT ![j] = [attempt[j] EXCEPT
          !.outcome = outcome, !.lookup = lookup, !.active = FALSE,
          !.leased = FALSE, !.receipt = receipt]]
    BY DEF RecordLateResult, TypeOK
  <1>6. job' = [job EXCEPT ![j] = [job[j] EXCEPT
          !.status = s, !.token = NoToken, !.leased = FALSE,
          !.dispatched = dispatched, !.note = note,
          !.receipt = r.outcome, !.error = error]]
    BY DEF RecordLateResult, TypeOK
  <1> HIDE DEF outcome, lookup, s, receipt, note, dispatched, error
  <1>7. [attempt[j] EXCEPT
          !.outcome = outcome, !.lookup = lookup, !.active = FALSE,
          !.leased = FALSE, !.receipt = receipt] \in AttemptRow
    BY <1>1, <1>3, RowTypes DEF AttemptRow
  <1>8. [job[j] EXCEPT
          !.status = s, !.token = NoToken, !.leased = FALSE,
          !.dispatched = dispatched, !.note = note,
          !.receipt = r.outcome, !.error = error] \in JobRow
    BY <1>2, <1>3, <1>4, RowTypes DEF JobRow
  <1>9. attempt' \in [Jobs -> AttemptRow] /\ job' \in [Jobs -> JobRow]
    BY <1>5, <1>6, <1>7, <1>8 DEF TypeOK
  <1> QED
    BY <1>9 DEF RecordLateResult, TypeOK

LEMMA ReleaseExpiredType ==
  ASSUME TypeOK, NEW j \in Jobs, ReleaseExpired(j)
  PROVE  TypeOK'
  <1> DEFINE unknown == MayHaveDispatched(j)
             s == IF unknown THEN "verification_pending" ELSE "failed"
             error == IF unknown THEN "none" ELSE "CLAIM_LEASE_EXPIRED"
             outcome == IF unknown THEN "outcome_unknown" ELSE "known_failed"
             lookup == IF attempt[j].receipt THEN "found"
                       ELSE IF unknown THEN "identity_pending" ELSE "not_required"
  <1>1. s \in JobStatus /\ error \in {"none", "CLAIM_LEASE_EXPIRED"}
    BY DEF JobStatus
  <1>2. /\ outcome \in {"outcome_unknown", "known_failed"}
        /\ lookup \in {"found", "identity_pending", "not_required"}
    OBVIOUS
  <1>3. job' = [job EXCEPT ![j] = [job[j] EXCEPT
          !.status = s, !.token = NoToken, !.error = error]]
    BY DEF ReleaseExpired, TypeOK
  <1>4. \/ attempt' = [attempt EXCEPT ![j] = [attempt[j] EXCEPT
             !.active = FALSE, !.leased = FALSE,
             !.outcome = outcome, !.lookup = lookup]]
        \/ attempt' = attempt
    BY DEF ReleaseExpired, TypeOK
  <1> HIDE DEF unknown, s, error, outcome, lookup
  <1>5. [job[j] EXCEPT !.status = s, !.token = NoToken, !.error = error] \in JobRow
    BY <1>1, RowTypes DEF JobRow
  <1>6. [attempt[j] EXCEPT !.active = FALSE, !.leased = FALSE,
           !.outcome = outcome, !.lookup = lookup] \in AttemptRow
    BY <1>2, RowTypes DEF AttemptRow
  <1>7. job' \in [Jobs -> JobRow] /\ attempt' \in [Jobs -> AttemptRow]
    BY <1>3, <1>4, <1>5, <1>6 DEF TypeOK
  <1> QED
    BY <1>7 DEF ReleaseExpired, TypeOK

-----------------------------------------------------------------------------
(* The operator and the environment *)

LEMMA HandleManuallyType ==
  ASSUME TypeOK, NEW p \in Pages, HandleManually(p)
  PROVE  TypeOK'
  <1>1. ASSUME NEW j \in Jobs
        PROVE  [job[j] EXCEPT !.status = "failed", !.token = NoToken,
                  !.leased = FALSE, !.error = "MANUAL_HANDLING_RECORDED"] \in JobRow
    BY RowTypes DEF JobRow, JobStatus
  <1>2. job' \in [Jobs -> JobRow]
    BY <1>1, RowTypes DEF HandleManually
  <1> QED
    BY <1>2 DEF HandleManually, TypeOK

LEMMA EditSourceType ==
  ASSUME TypeOK, NEW p \in Pages, EditSource(p)
  PROVE  TypeOK'
  <1>1. source[p] + 1 \in 1..MaxRevision
    BY BoundsAssumption DEF EditSource, TypeOK
  <1> QED
    BY <1>1 DEF EditSource, TypeOK

LEMMA ExpireType ==
  ASSUME TypeOK, NEW j \in Jobs, ExpireLease(j) \/ ExpireAttemptLease(j)
  PROVE  TypeOK'
  <1>1. /\ [job[j] EXCEPT !.leased = FALSE] \in JobRow
        /\ [attempt[j] EXCEPT !.leased = FALSE] \in AttemptRow
    BY RowTypes DEF JobRow, AttemptRow
  <1>2. CASE ExpireLease(j)
    BY <1>1, <1>2 DEF ExpireLease, TypeOK
  <1>3. CASE ExpireAttemptLease(j)
    BY <1>1, <1>3 DEF ExpireAttemptLease, TypeOK
  <1> QED
    BY <1>2, <1>3

LEMMA AbandonCallType ==
  ASSUME TypeOK, NEW c \in calls, AbandonCall(c)
  PROVE  TypeOK'
  BY DEF AbandonCall, Ends, TypeOK

-----------------------------------------------------------------------------
(* Every step, and the theorem *)

LEMMA RequestsType ==
  ASSUME TypeOK, NEW j \in Jobs, NEW t \in Tokens, Requests(j, t)
  PROVE  TypeOK'
  BY ClaimNextType, StageType, AuthorizeType, RecordLinkedOutcomeType,
     RecordLateResultType, RecordDispatchType, DeferVerificationType
  DEF Requests

LEMMA ContinuationType ==
  ASSUME TypeOK, NEW c \in calls, Continuation(c)
  PROVE  TypeOK'
  BY BindAttemptType, RecheckType, AuthorizeAttemptType, ConsumeType,
     RecordAcknowledgedType, RecordScheduledType, RecordAmbiguousType,
     RecordFailureType, PrepareVerificationType, RepeatVerifiedType,
     BackfillType, CompleteType
  DEF Continuation

LEMMA NextType == TypeOK /\ [Next]_vars => TypeOK'
  <1> SUFFICES ASSUME TypeOK, [Next]_vars PROVE TypeOK'
    OBVIOUS
  <1>1. ASSUME NEW j \in Jobs, Queueing(j) PROVE TypeOK'
    BY <1>1, InsertJobType, CreateAttemptType, ApproveAttemptType DEF Queueing
  <1>2. ASSUME NEW j \in Jobs, NEW t \in Tokens, Requests(j, t) PROVE TypeOK'
    BY <1>2, RequestsType
  <1>3. ASSUME NEW c \in calls, Continuation(c) PROVE TypeOK'
    BY <1>3, ContinuationType
  <1>4. CASE Environment
    BY <1>4, HandleManuallyType, EditSourceType, ReleaseExpiredType, ExpireType,
       AbandonCallType DEF Environment
  <1>5. CASE UNCHANGED vars
    BY <1>5 DEF vars, TypeOK
  <1> QED
    BY <1>1, <1>2, <1>3, <1>4, <1>5 DEF Next

(* Every reachable state has the shape the tables and the service calls    *)
(* give it: no action of the queue writes a value outside its column.      *)
THEOREM TypeCorrect == Spec => []TypeOK
  BY InitType, NextType, PTL DEF Spec

-----------------------------------------------------------------------------
(* One permit for a page *)

(* A job nothing will be dispatched for any more: it has left the states a *)
(* worker may be handed the page in, and it never got a permit.            *)
Spent(j) ==
  /\ job[j].status \notin {"absent", "queued"} \cup Dispatching
  /\ ~job[j].authorized

(* OnePermitPerPage alone is not inductive: it does not say why the next   *)
(* permit finds no earlier one.  It is because a permit's token is the one *)
(* the staged job still carries, an authorized job is never claimed again, *)
(* and of two jobs of a page one is spent.                                 *)
PermitBacked ==
  \A x \in permits :
    /\ job[x[1]].authorized
    /\ job[x[1]].status \in Dispatching => job[x[1]].token = x[2]
AuthorizedIsStaged ==
  \A j \in Jobs : job[j].authorized =>
    job[j].status \notin {"absent", "queued", "claimed"}
OnePermitPerJob == \A x, y \in permits : x[1] = y[1] => x = y
OneJobAtATime ==
  \A j \in Jobs : \A k \in SamePage(j) :
    job[j].status # "absent" /\ job[k].status # "absent" => Spent(j) \/ Spent(k)
PermitInv == PermitBacked /\ AuthorizedIsStaged /\ OnePermitPerJob /\ OneJobAtATime

(* What most steps do to a job: nothing the permits depend on, or one move *)
(* along its life that neither authorizes it nor returns it to a worker.   *)
Keeps(j) ==
  /\ job'[j].status = job[j].status
  /\ job[j].status \in Dispatching => job'[j].token = job[j].token
Advances(j) ==
  \/ job[j].status = "queued" /\ job'[j].status = "claimed"
  \/ job[j].status = "claimed" /\ job'[j].status = "staged"
  \/ /\ job[j].status # "absent"
     /\ job'[j].status \notin {"absent", "queued"} \cup Dispatching
Quiet(j) ==
  /\ job'[j].authorized = job[j].authorized
  /\ Keeps(j) \/ Advances(j)

LEMMA InitPermit == Init => PermitInv
  BY DEF Init, PermitInv, PermitBacked, AuthorizedIsStaged, OnePermitPerJob,
         OneJobAtATime, AbsentJob, SamePage

LEMMA QuietStep ==
  ASSUME TypeOK, PermitInv, permits' = permits, \A j \in Jobs : Quiet(j)
  PROVE  PermitInv'
  <1>1. \A x \in permits : x[1] \in Jobs
    BY DEF TypeOK
  <1>2. PermitBacked'
    BY <1>1 DEF PermitInv, PermitBacked, AuthorizedIsStaged, Quiet, Keeps,
                Advances, Dispatching
  <1>3. AuthorizedIsStaged'
    BY DEF PermitInv, AuthorizedIsStaged, Quiet, Keeps, Advances, Dispatching
  <1>4. OnePermitPerJob'
    BY DEF PermitInv, OnePermitPerJob
  <1>5. \A j \in Jobs :
          /\ job[j].status = "absent" => job'[j].status = "absent"
          /\ Spent(j) => Spent(j)'
    BY DEF Quiet, Keeps, Advances, Spent, Dispatching
  <1>6. OneJobAtATime'
    BY <1>5 DEF PermitInv, OneJobAtATime, SamePage
  <1> QED
    BY <1>2, <1>3, <1>4, <1>6 DEF PermitInv

LEMMA QuietUnchanged ==
  ASSUME UNCHANGED job
  PROVE  \A j \in Jobs : Quiet(j)
  BY DEF Quiet, Keeps

LEMMA QuietRow ==
  ASSUME TypeOK, NEW j \in Jobs, NEW row,
         job' = [job EXCEPT ![j] = row],
         row.authorized = job[j].authorized,
         \/ /\ row.status = job[j].status
            /\ job[j].status \in Dispatching => row.token = job[j].token
         \/ job[j].status = "queued" /\ row.status = "claimed"
         \/ job[j].status = "claimed" /\ row.status = "staged"
         \/ /\ job[j].status # "absent"
            /\ row.status \notin {"absent", "queued"} \cup Dispatching
  PROVE  \A k \in Jobs : Quiet(k)
  <1>1. job'[j] = row /\ \A k \in Jobs \ {j} : job'[k] = job[k]
    BY DEF TypeOK
  <1>2. Quiet(j)
    BY <1>1 DEF Quiet, Keeps, Advances
  <1>3. \A k \in Jobs \ {j} : Quiet(k)
    BY <1>1 DEF Quiet, Keeps
  <1> QED
    BY <1>2, <1>3

LEMMA QuietInvalidate ==
  ASSUME TypeOK, NEW j \in Jobs, NEW t \in Tokens, InvalidateBatchItem(j, t)
  PROVE  \A k \in Jobs : Quiet(k)
  <1> DEFINE row == [job[j] EXCEPT !.status = "failed",
                                   !.error = "BATCH_SOURCE_CHANGED"]
  <1>1. row.authorized = job[j].authorized /\ row.status = "failed"
    BY RowTypes DEF JobRow
  <1>2. \/ job' = [job EXCEPT ![j] = row] /\ job[j].status \in Dispatching
        \/ UNCHANGED job
    BY DEF InvalidateBatchItem, TypeOK
  <1> HIDE DEF row
  <1> QED
    BY <1>1, <1>2, QuietRow, QuietUnchanged DEF Dispatching

LEMMA QuietClaims ==
  ASSUME TypeOK, NEW j \in Jobs, NEW t \in Tokens,
         (\E lane \in Lanes : ClaimNext(j, t, lane)) \/ Stage(j, t)
           \/ AuthorizeStaleSource(j, t)
  PROVE  \A k \in Jobs : Quiet(k)
  <1>1. ASSUME NEW lane \in Lanes, ClaimNext(j, t, lane)
        PROVE  \A k \in Jobs : Quiet(k)
    <2> DEFINE row == [job[j] EXCEPT
                 !.status = IF job[j].status = "queued" THEN "claimed" ELSE @,
                 !.token = t, !.leased = TRUE]
    <2>1. job' = [job EXCEPT ![j] = row]
      BY <1>1 DEF ClaimNext, TypeOK
    <2>2. /\ row.authorized = job[j].authorized
          /\ row.status = IF job[j].status = "queued" THEN "claimed"
                          ELSE job[j].status
          /\ row.token = t
      BY RowTypes DEF JobRow
    <2>3. job[j].status \in Dispatching => t = job[j].token
      BY <1>1 DEF ClaimNext, ReplaysClaim, DispatchCandidate,
                  VerificationCandidate, Holds, Dispatching, Verifying
    <2> HIDE DEF row
    <2> QED
      BY <2>1, <2>2, <2>3, QuietRow
  <1>2. CASE Stage(j, t)
    <2> DEFINE row == [job[j] EXCEPT !.status = "staged", !.staged = TRUE]
    <2>1. job' = [job EXCEPT ![j] = row]
      BY <1>2 DEF Stage, TypeOK
    <2>2. row.authorized = job[j].authorized /\ row.status = "staged"
      BY RowTypes DEF JobRow
    <2> HIDE DEF row
    <2> QED
      BY <1>2, <2>1, <2>2, QuietRow DEF Stage
  <1> QED
    BY <1>1, <1>2, QuietInvalidate DEF AuthorizeStaleSource

LEMMA QuietContinuation ==
  ASSUME TypeOK, NEW c \in calls, Continuation(c),
         ~ConsumeDispatchAuthorization(c)
  PROVE  \A k \in Jobs : Quiet(k)
  <1> DEFINE j == c.job
             Closes(row) ==
               /\ job' = [job EXCEPT ![j] = row]
               /\ row.authorized = job[j].authorized
               /\ job[j].status # "absent"
               /\ row.status \notin {"absent", "queued"} \cup Dispatching
  <1>1. ASSUME NEW row, Closes(row)
        PROVE  \A k \in Jobs : Quiet(k)
    BY <1>1, CallTypes, QuietRow
  <1>2. CASE RecordAcknowledged(c)
    <2> DEFINE row == [job[j] EXCEPT
                 !.status = IF c.result.match /\ j \in PostNowJobs
                              THEN "verified" ELSE "verification_pending",
                 !.note = TRUE, !.share = (c.result.identity = "url"),
                 !.dispatched = TRUE, !.receipt = "acknowledged",
                 !.leased = (c.result.match /\ j \in PostNowJobs)]
    <2>1. job' = [job EXCEPT ![j] = row]
      BY <1>2, CallTypes DEF RecordAcknowledged, TypeOK
    <2>2. /\ row.authorized = job[j].authorized
          /\ row.status \in {"verified", "verification_pending"}
      BY CallTypes DEF JobRow
    <2> HIDE DEF row
    <2> QED
      BY <1>1, <1>2, <2>1, <2>2 DEF RecordAcknowledged, Dispatching, Verifying
  <1>3. CASE RecordScheduled(c)
    <2> DEFINE row == [job[j] EXCEPT
                 !.status = IF c.result.match THEN "scheduled"
                            ELSE "verification_pending",
                 !.note = @ \/ HasIdentity(c.result),
                 !.dispatched = TRUE, !.receipt = "scheduled", !.leased = FALSE]
    <2>1. job' = [job EXCEPT ![j] = row]
      BY <1>3, CallTypes DEF RecordScheduled, TypeOK
    <2>2. /\ row.authorized = job[j].authorized
          /\ row.status \in {"scheduled", "verification_pending"}
      BY CallTypes DEF JobRow
    <2> HIDE DEF row
    <2> QED
      BY <1>1, <1>3, <2>1, <2>2 DEF RecordScheduled, Dispatching
  <1>4. CASE RecordAmbiguous(c)
    <2> DEFINE row == [job[j] EXCEPT
                 !.status = "verification_pending", !.dispatched = TRUE,
                 !.receipt = "ambiguous", !.leased = FALSE]
    <2>1. job' = [job EXCEPT ![j] = row]
      BY <1>4, CallTypes DEF RecordAmbiguous, TypeOK
    <2>2. /\ row.authorized = job[j].authorized
          /\ row.status = "verification_pending"
      BY CallTypes DEF JobRow
    <2> HIDE DEF row
    <2> QED
      BY <1>1, <1>4, <2>1, <2>2 DEF RecordAmbiguous, Dispatching
  <1>5. CASE RecordFailure(c)
    <2> DEFINE row == [job[j] EXCEPT
                 !.status = "failed", !.token = NoToken, !.leased = FALSE,
                 !.receipt = IF c.result.outcome = "rejected" THEN "rejected" ELSE @,
                 !.error = "worker"]
    <2>1. job' = [job EXCEPT ![j] = row]
      BY <1>5, CallTypes DEF RecordFailure, TypeOK
    <2>2. row.authorized = job[j].authorized /\ row.status = "failed"
      BY CallTypes DEF JobRow
    <2> HIDE DEF row
    <2> QED
      BY <1>1, <1>5, <2>1, <2>2 DEF RecordFailure, Dispatching
  <1>6. CASE PrepareVerification(c)
    <2> DEFINE row == [job[j] EXCEPT !.status = "verified", !.note = TRUE, !.share = TRUE]
    <2>1. job' = [job EXCEPT ![j] = row]
      BY <1>6, CallTypes DEF PrepareVerification, TypeOK
    <2>2. row.authorized = job[j].authorized /\ row.status = "verified"
      BY CallTypes DEF JobRow
    <2> HIDE DEF row
    <2> QED
      BY <1>1, <1>6, <2>1, <2>2 DEF PrepareVerification, Dispatching, Verifying
  <1>7. CASE CompleteReconciliation(c)
    <2> DEFINE row == [job[j] EXCEPT !.status = "reconciled"]
    <2>1. job' = [job EXCEPT ![j] = row]
      BY <1>7, CallTypes DEF CompleteReconciliation, TypeOK
    <2>2. row.authorized = job[j].authorized /\ row.status = "reconciled"
      BY CallTypes DEF JobRow
    <2> HIDE DEF row
    <2> QED
      BY <1>1, <1>7, <2>1, <2>2 DEF CompleteReconciliation, Dispatching
  <1>8. CASE RecheckBatchSource(c)
    BY <1>8, CallTypes, QuietInvalidate, QuietUnchanged DEF RecheckBatchSource
  <1>9. CASE BindAttempt(c) \/ AuthorizeAttempt(c) \/ RepeatVerified(c) \/ BackfillNotion(c)
    BY <1>9, QuietUnchanged
    DEF BindAttempt, AuthorizeAttempt, RepeatVerified, BackfillNotion
  <1> QED
    BY <1>2, <1>3, <1>4, <1>5, <1>6, <1>7, <1>8, <1>9 DEF Continuation

LEMMA QuietResults ==
  ASSUME TypeOK, NEW j \in Jobs, NEW t \in Tokens,
         \/ \E r \in LateResults : RecordLateResult(j, t, r)
         \/ RecordDispatch(j, t) \/ DeferVerification(j, t)
  PROVE  \A k \in Jobs : Quiet(k)
  <1>1. ASSUME NEW r \in LateResults, RecordLateResult(j, t, r)
        PROVE  \A k \in Jobs : Quiet(k)
    <2> DEFINE outcome == LateOutcome(r)
               row == [job[j] EXCEPT
                 !.status = CASE outcome = "known_failed" -> "failed"
                              [] outcome = "accepted" -> "scheduled"
                              [] OTHER -> "verification_pending",
                 !.token = NoToken, !.leased = FALSE,
                 !.dispatched = @ \/ r.outcome # "rejected",
                 !.note = @ \/ HasIdentity(r), !.receipt = r.outcome,
                 !.error = IF r.outcome = "rejected" THEN "worker" ELSE "none"]
    <2>1. job' = [job EXCEPT ![j] = row]
      BY <1>1 DEF RecordLateResult, TypeOK
    <2>2. /\ row.authorized = job[j].authorized
          /\ row.status \in {"failed", "scheduled", "verification_pending"}
      BY RowTypes DEF JobRow
    <2>3. job[j].status # "absent"
      BY <1>1 DEF RecordLateResult, LateResultAdmissible, Dispatching
    <2> HIDE DEF row
    <2> QED
      BY <2>1, <2>2, <2>3, QuietRow DEF Dispatching
  <1>2. CASE RecordDispatch(j, t)
    <2> DEFINE row == [job[j] EXCEPT
                 !.status = IF HasPublishAt(j) THEN "scheduled" ELSE "submitted",
                 !.note = TRUE, !.share = TRUE,
                 !.dispatched = TRUE, !.leased = FALSE]
    <2>1. job' = [job EXCEPT ![j] = row]
      BY <1>2 DEF RecordDispatch, TypeOK
    <2>2. row.authorized = job[j].authorized /\ row.status \in {"scheduled", "submitted"}
      BY RowTypes DEF JobRow
    <2> HIDE DEF row
    <2> QED
      BY <1>2, <2>1, <2>2, QuietRow DEF RecordDispatch, Dispatching
  <1>3. CASE DeferVerification(j, t)
    <2> DEFINE row == [job[j] EXCEPT !.status = "verification_pending", !.leased = FALSE]
    <2>1. job' = [job EXCEPT ![j] = row]
      BY <1>3 DEF DeferVerification, TypeOK
    <2>2. row.authorized = job[j].authorized /\ row.status = "verification_pending"
      BY RowTypes DEF JobRow
    <2> HIDE DEF row
    <2> QED
      BY <1>3, <2>1, <2>2, QuietRow DEF DeferVerification, Dispatching, Verifying
  <1> QED
    BY <1>1, <1>2, <1>3

LEMMA QuietEnvironment ==
  ASSUME TypeOK, Environment
  PROVE  \A k \in Jobs : Quiet(k)
  <1>1. ASSUME NEW j \in Jobs, ReleaseExpired(j)
        PROVE  \A k \in Jobs : Quiet(k)
    <2> DEFINE row == [job[j] EXCEPT
                 !.status = IF MayHaveDispatched(j) THEN "verification_pending"
                            ELSE "failed",
                 !.token = NoToken,
                 !.error = IF MayHaveDispatched(j) THEN "none"
                           ELSE "CLAIM_LEASE_EXPIRED"]
    <2>1. job' = [job EXCEPT ![j] = row]
      BY <1>1 DEF ReleaseExpired, TypeOK
    <2>2. /\ row.authorized = job[j].authorized
          /\ row.status \in {"verification_pending", "failed"}
      BY RowTypes DEF JobRow
    <2> HIDE DEF row
    <2> QED
      BY <1>1, <2>1, <2>2, QuietRow DEF ReleaseExpired, Dispatching
  <1>2. ASSUME NEW j \in Jobs, ExpireLease(j)
        PROVE  \A k \in Jobs : Quiet(k)
    <2> DEFINE row == [job[j] EXCEPT !.leased = FALSE]
    <2>1. job' = [job EXCEPT ![j] = row]
      BY <1>2 DEF ExpireLease, TypeOK
    <2>2. /\ row.authorized = job[j].authorized /\ row.status = job[j].status
          /\ row.token = job[j].token
      BY RowTypes DEF JobRow
    <2> HIDE DEF row
    <2> QED
      BY <2>1, <2>2, QuietRow
  <1>3. ASSUME NEW p \in Pages, HandleManually(p), NEW k \in Jobs
        PROVE  Quiet(k)
    <2> DEFINE row == [job[k] EXCEPT !.status = "failed", !.token = NoToken,
                         !.leased = FALSE, !.error = "MANUAL_HANDLING_RECORDED"]
    <2>1. \/ job'[k] = job[k]
          \/ job'[k] = row /\ job[k].status # "absent"
      BY <1>3 DEF HandleManually, Dispatching
    <2>2. row.authorized = job[k].authorized /\ row.status = "failed"
      BY RowTypes DEF JobRow
    <2> HIDE DEF row
    <2> QED
      BY <2>1, <2>2 DEF Quiet, Keeps, Advances, Dispatching
  <1>4. CASE UNCHANGED job
    BY <1>4, QuietUnchanged
  <1> QED
    BY <1>1, <1>2, <1>3, <1>4
    DEF Environment, EditSource, ExpireAttemptLease, AbandonCall

(* A new job of a page is queued only when every earlier one is spent. *)
LEMMA InsertJobPermit ==
  ASSUME TypeOK, PermitInv, NEW j \in Jobs, InsertJob(j)
  PROVE  PermitInv'
  <1>1. PICK revision \in 1..source[PageOf[j]] :
          /\ \A k \in SamePage(j) :
               job[k].status # "absent" => AllowsNewerRevision(k, revision)
          /\ job' = [job EXCEPT ![j] =
                       [AbsentJob EXCEPT !.status = "queued", !.revision = revision]]
    BY DEF InsertJob
  <1>2. /\ job'[j].status = "queued" /\ ~job'[j].authorized
        /\ \A k \in Jobs \ {j} : job'[k] = job[k]
    BY <1>1 DEF TypeOK, AbsentJob
  <1>3. job[j].status = "absent" /\ ~job[j].authorized /\ permits' = permits
    BY DEF InsertJob, PermitInv, AuthorizedIsStaged
  <1>4. \A x \in permits : x[1] \in Jobs \ {j}
    BY <1>3 DEF TypeOK, PermitInv, PermitBacked
  <1>5. PermitBacked'
    BY <1>2, <1>3, <1>4 DEF PermitInv, PermitBacked
  <1>6. AuthorizedIsStaged'
    BY <1>2 DEF PermitInv, AuthorizedIsStaged
  <1>7. OnePermitPerJob'
    BY <1>3 DEF PermitInv, OnePermitPerJob
  <1>8. \A k \in SamePage(j) : job[k].status # "absent" => Spent(k)'
    BY <1>1, <1>2 DEF AllowsNewerRevision, Spent, SamePage, Dispatching
  <1>9. \A k \in Jobs \ {j} : Spent(k) => Spent(k)'
    BY <1>2 DEF Spent
  <1>10. OneJobAtATime'
    BY <1>2, <1>8, <1>9 DEF PermitInv, OneJobAtATime, SamePage
  <1> QED
    BY <1>5, <1>6, <1>7, <1>10 DEF PermitInv

(* A repeated check answers only the token the permit was given to. *)
LEMMA AuthorizePermit ==
  ASSUME TypeOK, PermitInv, NEW j \in Jobs, NEW t \in Tokens, Authorize(j, t)
  PROVE  PermitInv'
  <1>1. job' = job
    BY DEF Authorize
  <1>2. CASE permits' = permits
    BY <1>1, <1>2, QuietUnchanged, QuietStep
  <1>3. CASE permits' = permits \cup {<<j, t>>} /\ job[j].authorized
    <2>1. job[j].status \in Dispatching /\ job[j].token = t
      BY DEF Authorize, AuthorizationRead, Holds
    <2>2. \A x \in permits : x[1] = j => x = <<j, t>>
      BY <2>1 DEF TypeOK, PermitInv, PermitBacked
    <2>3. PermitBacked'
      BY <1>1, <1>3, <2>1 DEF PermitInv, PermitBacked
    <2>4. OnePermitPerJob'
      BY <1>3, <2>2 DEF PermitInv, OnePermitPerJob
    <2>5. AuthorizedIsStaged' /\ OneJobAtATime'
      BY <1>1 DEF PermitInv, AuthorizedIsStaged, OneJobAtATime, Spent, SamePage
    <2> QED
      BY <2>3, <2>4, <2>5 DEF PermitInv
  <1> QED
    BY <1>2, <1>3 DEF Authorize

(* The permit is given to the token the staged job carries; another job of *)
(* the page that is not absent is spent.                                   *)
LEMMA ConsumePermit ==
  ASSUME TypeOK, PermitInv, NEW c \in calls, ConsumeDispatchAuthorization(c)
  PROVE  PermitInv'
  <1> DEFINE j == c.job
             t == c.token
  <1>1. j \in Jobs /\ t \in Tokens
    BY CallTypes
  <1>2. /\ job[j].status = "staged" /\ job[j].token = t
        /\ job' = [job EXCEPT ![j].authorized = TRUE]
        /\ permits' = permits \cup {<<j, t>>}
    BY DEF ConsumeDispatchAuthorization, Holds
  <1>3. /\ job'[j].authorized /\ job'[j].status = "staged" /\ job'[j].token = t
        /\ \A k \in Jobs \ {j} : job'[k] = job[k]
    BY <1>1, <1>2, RowTypes DEF TypeOK, JobRow
  <1> HIDE DEF j, t
  <1>4. \A x \in permits : x[1] \in Jobs /\ (x[1] = j => x = <<j, t>>)
    BY <1>2 DEF TypeOK, PermitInv, PermitBacked, Dispatching
  <1>5. PermitBacked'
    BY <1>2, <1>3, <1>4 DEF PermitInv, PermitBacked
  <1>6. AuthorizedIsStaged'
    BY <1>3 DEF PermitInv, AuthorizedIsStaged
  <1>7. OnePermitPerJob'
    BY <1>2, <1>4 DEF PermitInv, OnePermitPerJob
  <1>8. OneJobAtATime'
    <2>1. ~Spent(j)
      BY <1>2 DEF Spent, Dispatching
    <2>2. \A k \in Jobs \ {j} : Spent(k) => Spent(k)'
      BY <1>3 DEF Spent
    <2>3. \A k \in Jobs : job'[k].status = job[k].status
      BY <1>2, <1>3
    <2> QED
      BY <1>1, <2>1, <2>2, <2>3 DEF PermitInv, OneJobAtATime, SamePage
  <1> QED
    BY <1>5, <1>6, <1>7, <1>8 DEF PermitInv

LEMMA NextPermit == TypeOK /\ PermitInv /\ [Next]_vars => PermitInv'
  <1> SUFFICES ASSUME TypeOK, PermitInv, [Next]_vars PROVE PermitInv'
    OBVIOUS
  <1>1. ASSUME NEW j \in Jobs, Queueing(j) PROVE PermitInv'
    <2>1. CASE InsertJob(j)
      BY <2>1, InsertJobPermit
    <2>2. CASE CreateAttempt(j) \/ ApproveAttempt(j)
      BY <2>2, QuietUnchanged, QuietStep DEF CreateAttempt, ApproveAttempt
    <2> QED
      BY <1>1, <2>1, <2>2 DEF Queueing
  <1>2. ASSUME NEW j \in Jobs, NEW t \in Tokens, Requests(j, t) PROVE PermitInv'
    <2>1. CASE Authorize(j, t)
      BY <2>1, AuthorizePermit
    <2>2. CASE (\E lane \in Lanes : ClaimNext(j, t, lane)) \/ Stage(j, t)
                 \/ AuthorizeStaleSource(j, t)
      BY <2>2, QuietClaims, QuietStep DEF ClaimNext, Stage, AuthorizeStaleSource
    <2>3. CASE \/ \E r \in LateResults : RecordLateResult(j, t, r)
               \/ RecordDispatch(j, t) \/ DeferVerification(j, t)
      BY <2>3, QuietResults, QuietStep
      DEF RecordLateResult, RecordDispatch, DeferVerification
    <2>4. CASE \E r \in Results : RecordLinkedOutcome(j, t, r)
      BY <2>4, QuietUnchanged, QuietStep DEF RecordLinkedOutcome
    <2> QED
      BY <1>2, <2>1, <2>2, <2>3, <2>4 DEF Requests
  <1>3. ASSUME NEW c \in calls, Continuation(c) PROVE PermitInv'
    <2>1. CASE ConsumeDispatchAuthorization(c)
      BY <2>1, ConsumePermit
    <2>2. CASE ~ConsumeDispatchAuthorization(c)
      <3>1. permits' = permits
        BY <1>3, <2>2 DEF Continuation, BindAttempt, RecheckBatchSource,
           AuthorizeAttempt, RecordAcknowledged, RecordScheduled,
           RecordAmbiguous, RecordFailure, PrepareVerification,
           RepeatVerified, BackfillNotion, CompleteReconciliation
      <3> QED
        BY <1>3, <2>2, <3>1, QuietContinuation, QuietStep
    <2> QED
      BY <2>1, <2>2
  <1>4. CASE Environment
    BY <1>4, QuietEnvironment, QuietStep DEF Environment, HandleManually,
       EditSource, ReleaseExpired, ExpireLease, ExpireAttemptLease, AbandonCall
  <1>5. CASE UNCHANGED vars
    BY <1>5, QuietUnchanged, QuietStep DEF vars
  <1> QED
    BY <1>1, <1>2, <1>3, <1>4, <1>5 DEF Next

(* Two permits of one page are one: of the same job because a job has only *)
(* one, of two jobs because one of them would be spent.                    *)
LEMMA PermitInvImplies == TypeOK /\ PermitInv => OnePermitPerPage
  <1> SUFFICES ASSUME TypeOK, PermitInv, NEW x \in permits, NEW y \in permits,
                      PageOf[x[1]] = PageOf[y[1]], x[1] # y[1]
               PROVE  FALSE
    BY DEF OnePermitPerPage, PermitInv, OnePermitPerJob
  <1>1. x[1] \in Jobs /\ y[1] \in SamePage(x[1])
    BY DEF TypeOK, SamePage
  <1>2. /\ job[x[1]].authorized /\ job[x[1]].status # "absent"
        /\ job[y[1]].authorized /\ job[y[1]].status # "absent"
    BY <1>1 DEF PermitInv, PermitBacked, AuthorizedIsStaged, SamePage
  <1> QED
    BY <1>1, <1>2 DEF PermitInv, OneJobAtATime, Spent

(* A page is given at most one dispatch permit, for any number of jobs and *)
(* tokens: however claims, sweeps, edits, lost calls and retries           *)
(* interleave, no second worker and no newer job is told to publish it.    *)
THEOREM OnePermit == Spec => []OnePermitPerPage
  <1>1. Init => TypeOK /\ PermitInv
    BY InitType, InitPermit
  <1>2. TypeOK /\ PermitInv /\ [Next]_vars => (TypeOK /\ PermitInv)'
    BY NextType, NextPermit
  <1>3. TypeOK /\ PermitInv => OnePermitPerPage
    BY PermitInvImplies
  <1> QED
    BY <1>1, <1>2, <1>3, PTL DEF Spec
=============================================================================
