---------------------- MODULE LocalPublishQueueSafety ----------------------
(***************************************************************************)
(* What the queue's two rows may say of each other.  A result reaches the  *)
(* attempt in one transaction and the job in another, and between the two  *)
(* anything may happen; the theorems below say what holds nevertheless,    *)
(* for any sets of jobs, pages and tokens and any bounds.                  *)
(*                                                                         *)
(* The inductive invariant has four parts: what one pair of rows may show  *)
(* (RowInv), what a call in flight may rely on when it continues (CallInv),*)
(* that of two jobs of a page one is retired (OneOpenJob), and what is     *)
(* known of handled and published pages.  The first two are proved         *)
(* together with Forward, the list of what no step takes back: it carries  *)
(* the promises to the calls in flight over the steps of all others.       *)
(***************************************************************************)
EXTENDS LocalPublishQueueProofs

-----------------------------------------------------------------------------
(* The inductive invariant *)

\* The job was not handed to a browser yet.
Unstaged == {"absent", "queued", "claimed"}

(* An attempt has an outcome and a settled lookup together, has a receipt  *)
(* exactly when the lookup found one, and was authorized if its outcome    *)
(* may be a publication.                                                   *)
AttemptRule(a) ==
  /\ ~a.exists => a.outcome = "none" /\ ~a.active /\ ~a.authorized /\ ~a.reported
  /\ a.outcome = "none" <=> a.lookup = "pending"
  /\ a.outcome = "known_failed" => a.lookup = "not_required"
  /\ a.receipt <=> a.lookup = "found"
  /\ a.outcome \in {"accepted", "outcome_unknown"} => a.authorized
  /\ a.outcome # "none" => ~a.active
  /\ a.reported => a.outcome # "none"

Backed(a) ==
  /\ a.authorized
  /\ a.outcome = "accepted" \/ (a.outcome = "outcome_unknown" /\ a.receipt)

(* What job b and its attempt a show of one publication.  An authorized    *)
(* attempt is held by the token that staged the job: so the holder of a    *)
(* staged job and the author of the attempt's outcome are one worker.      *)
JobRule(b, a) ==
  /\ b.status \in Unstaged \cup {"staged"} =>
       ~b.note /\ ~b.share /\ ~b.dispatched /\ b.receipt = "none"
  /\ b.authorized => a.authorized
  /\ a.authorized => b.status \notin Unstaged
  /\ a.authorized /\ b.status = "staged" => a.token = b.token
  /\ b.status \in {"verified", "reconciled"} => Backed(a)
  /\ b.status = "scheduled" /\ b.receipt = "scheduled" => a.outcome = "accepted"
  /\ b.receipt = "rejected" =>
       a.outcome = "known_failed" /\ b.status = "failed" /\ ~b.note /\ ~b.dispatched
RowInv == \A j \in Jobs : AttemptRule(attempt[j]) /\ JobRule(job[j], attempt[j])

(* What a call in flight learned and still may rely on.  A result whose    *)
(* outcome is "accepted" may have met an attempt left unknown, but then it *)
(* was not the attempt's own worker that reported it.                      *)
Recorded(c) ==
  LET a == attempt[c.job]
      outcome == OutcomeOf(c.job, c.result) IN
  /\ outcome = "known_failed" => a.outcome = "known_failed"
  /\ outcome = "accepted" =>
       Backed(a) /\ (a.outcome = "accepted" \/ a.token # c.token)
CallRule(c) ==
  /\ c.op \in {"authorizeAttempt", "consume"} =>
       /\ job[c.job].status \notin Unstaged
       /\ job[c.job].status = "staged" => job[c.job].token = c.token
  /\ c.op = "consume" => attempt[c.job].authorized
  /\ c.op = "record" => Recorded(c)
  /\ c.op \in {"backfill", "complete"} =>
       job[c.job].status \in {"verified", "reconciled"}
CallInv == \A c \in calls : CallRule(c)

(* An attempt that failed for certain and never was authorized is retired: *)
(* of two jobs of a page one at least is.                                  *)
Retired(j) == attempt[j].outcome = "known_failed" /\ ~attempt[j].authorized
OneOpenJob ==
  \A j \in Jobs : \A k \in SamePage(j) :
    job[j].status # "absent" /\ job[k].status # "absent" => Retired(j) \/ Retired(k)

SafetyInv ==
  /\ RowInv /\ CallInv /\ OneOpenJob
  /\ HandledClosesAutomation /\ PublishedHasEvidence

(* What no step takes back from the rows of a job. *)
AttemptForward(j) ==
  LET a == attempt[j]
      b == attempt'[j] IN
  /\ a.authorized => b.authorized /\ b.token = a.token
  /\ a.outcome # "none" => b.authorized = a.authorized
  /\ a.outcome \in {"accepted", "known_failed"} \/ a.reported => b.outcome = a.outcome
  /\ a.outcome = "outcome_unknown" /\ a.receipt => b.outcome = "outcome_unknown"
  /\ a.receipt => b.receipt
JobForward(j) ==
  LET a == job[j]
      b == job'[j] IN
  /\ a.status = "absent" => b.status = "absent" \/ InsertJob(j)
  /\ a.status \notin Unstaged =>
       /\ b.status \notin Unstaged
       /\ b.status = "staged" => a.status = "staged" /\ b.token = a.token
  /\ a.status \in {"verified", "reconciled"} => b.status \in {"verified", "reconciled"}
  /\ Handled(j) /\ a.status \in {"absent", "failed"} => b.status \in {"absent", "failed"}
Forward(j) == AttemptForward(j) /\ JobForward(j)

\* A step keeps the rules of the rows of j and takes nothing back from them.
Good(j) == AttemptRule(attempt[j])' /\ JobRule(job[j], attempt[j])' /\ Forward(j)

LEMMA InitSafety == Init => SafetyInv
  BY DEF Init, SafetyInv, RowInv, AttemptRule, JobRule, Backed, CallInv, OneOpenJob,
     HandledClosesAutomation, PublishedHasEvidence, AbsentJob, NoAttempt, SamePage, Handled

-----------------------------------------------------------------------------
(* Every step keeps the rules of the rows *)

LEMMA SameRow ==
  ASSUME RowInv, NEW j \in Jobs, job'[j] = job[j], attempt'[j] = attempt[j]
  PROVE  Good(j)
  BY DEF RowInv, AttemptRule, JobRule, Backed, Good, Forward, AttemptForward,
         JobForward, Unstaged

LEMMA OneRow ==
  ASSUME RowInv, NEW j \in Jobs, Good(j),
         \A k \in Jobs \ {j} : job'[k] = job[k] /\ attempt'[k] = attempt[k]
  PROVE  \A k \in Jobs : Good(k)
  BY SameRow

LEMMA InsertJobRow ==
  ASSUME TypeOK, RowInv, NEW j \in Jobs,
         InsertJob(j)
  PROVE  \A k \in Jobs : Good(k)
  <1>1. Good(j)
    <2>1. /\ job'[j].status = "queued" /\ job'[j].receipt = "none"
          /\ ~job'[j].note /\ ~job'[j].share /\ ~job'[j].dispatched
          /\ ~job'[j].authorized
      BY DEF InsertJob, TypeOK, AbsentJob
    <2>2. /\ AttemptRule(attempt[j]) /\ ~attempt[j].authorized
          /\ job[j].status = "absent" /\ attempt' = attempt
      BY DEF InsertJob, RowInv, JobRule, Unstaged
    <2>3. AttemptRule(attempt[j])' /\ JobRule(job[j], attempt[j])'
      BY <2>1, <2>2 DEF AttemptRule, JobRule, Unstaged
    <2>4. Forward(j)
      BY <2>1, <2>2 DEF Forward, AttemptForward, JobForward, Unstaged, InsertJob
    <2> QED
      BY <2>3, <2>4 DEF Good
  <1>2. \A k \in Jobs \ {j} : job'[k] = job[k] /\ attempt'[k] = attempt[k]
    BY DEF InsertJob, TypeOK
  <1> QED
    BY <1>1, <1>2, OneRow

LEMMA CreateAttemptRow ==
  ASSUME TypeOK, RowInv, NEW j \in Jobs,
         CreateAttempt(j)
  PROVE  \A k \in Jobs : Good(k)
  <1>1. Good(j)
    BY RowTypes
    DEF Good, RowInv, AttemptRule, JobRule, Backed, Forward, AttemptForward,
        JobForward, Unstaged, CreateAttempt, TypeOK, JobRow, AttemptRow,
        NoAttempt
  <1>2. \A k \in Jobs \ {j} : job'[k] = job[k] /\ attempt'[k] = attempt[k]
    BY DEF CreateAttempt, TypeOK
  <1> QED
    BY <1>1, <1>2, OneRow

LEMMA ApproveAttemptRow ==
  ASSUME TypeOK, RowInv, NEW j \in Jobs,
         ApproveAttempt(j)
  PROVE  \A k \in Jobs : Good(k)
  <1>1. Good(j)
    BY RowTypes
    DEF Good, RowInv, AttemptRule, JobRule, Backed, Forward, AttemptForward,
        JobForward, Unstaged, ApproveAttempt, TypeOK, JobRow, AttemptRow
  <1>2. \A k \in Jobs \ {j} : job'[k] = job[k] /\ attempt'[k] = attempt[k]
    BY DEF ApproveAttempt, TypeOK
  <1> QED
    BY <1>1, <1>2, OneRow

LEMMA ClaimNextRow ==
  ASSUME TypeOK, RowInv, NEW j \in Jobs, NEW t \in Tokens, NEW lane \in Lanes,
         ClaimNext(j, t, lane)
  PROVE  \A k \in Jobs : Good(k)
  <1>1. Good(j)
    BY RowTypes
    DEF Good, RowInv, AttemptRule, JobRule, Backed, Forward, AttemptForward,
        JobForward, Unstaged, ClaimNext, TypeOK, JobRow, AttemptRow,
        ReplaysClaim, DispatchCandidate, VerificationCandidate,
        AttemptClaimable, Verifying, Holds
  <1>2. \A k \in Jobs \ {j} : job'[k] = job[k] /\ attempt'[k] = attempt[k]
    BY DEF ClaimNext, TypeOK
  <1> QED
    BY <1>1, <1>2, OneRow

LEMMA BindAttemptRow ==
  ASSUME TypeOK, RowInv, NEW c \in calls,
         BindAttempt(c)
  PROVE  \A k \in Jobs : Good(k)
  <1>1. Good(c.job)
    BY CallTypes
    DEF Good, RowInv, AttemptRule, JobRule, Backed, Forward, AttemptForward,
        JobForward, Unstaged, BindAttempt, TypeOK, JobRow, AttemptRow,
        AttemptClaimable, Holds
  <1>2. \A k \in Jobs \ {c.job} : job'[k] = job[k] /\ attempt'[k] = attempt[k]
    BY DEF BindAttempt, TypeOK
  <1> QED
    BY <1>1, <1>2, OneRow, CallTypes

LEMMA InvalidateRow ==
  ASSUME TypeOK, RowInv, NEW j \in Jobs, NEW t \in Tokens,
         InvalidateBatchItem(j, t), UNCHANGED attempt
  PROVE  \A k \in Jobs : Good(k)
  <1>1. Good(j)
    BY RowTypes
    DEF Good, RowInv, AttemptRule, JobRule, Backed, Forward, AttemptForward,
        JobForward, Unstaged, InvalidateBatchItem, TypeOK, JobRow, AttemptRow,
        Holds, Dispatching
  <1>2. \A k \in Jobs \ {j} : job'[k] = job[k] /\ attempt'[k] = attempt[k]
    BY DEF InvalidateBatchItem, TypeOK
  <1> QED
    BY <1>1, <1>2, OneRow

LEMMA StageRow ==
  ASSUME TypeOK, RowInv, NEW j \in Jobs, NEW t \in Tokens,
         Stage(j, t)
  PROVE  \A k \in Jobs : Good(k)
  <1>1. Good(j)
    BY RowTypes
    DEF Good, RowInv, AttemptRule, JobRule, Backed, Forward, AttemptForward,
        JobForward, Unstaged, Stage, TypeOK, JobRow, AttemptRow, Holds
  <1>2. \A k \in Jobs \ {j} : job'[k] = job[k] /\ attempt'[k] = attempt[k]
    BY DEF Stage, TypeOK
  <1> QED
    BY <1>1, <1>2, OneRow

(* The attempt's permit is consumed by the token that staged the job, and  *)
(* the job's only after the attempt's.                                     *)
LEMMA AuthorizeAttemptRow ==
  ASSUME TypeOK, RowInv, CallInv, NEW c \in calls,
         AuthorizeAttempt(c)
  PROVE  \A k \in Jobs : Good(k)
  <1>1. Good(c.job)
    BY CallTypes
    DEF Good, RowInv, AttemptRule, JobRule, Backed, Forward, AttemptForward,
        JobForward, Unstaged, CallInv, CallRule, AuthorizeAttempt, TypeOK,
        JobRow, AttemptRow
  <1>2. \A k \in Jobs \ {c.job} : job'[k] = job[k] /\ attempt'[k] = attempt[k]
    BY DEF AuthorizeAttempt, TypeOK
  <1> QED
    BY <1>1, <1>2, OneRow, CallTypes

LEMMA ConsumeRow ==
  ASSUME TypeOK, RowInv, CallInv, NEW c \in calls,
         ConsumeDispatchAuthorization(c)
  PROVE  \A k \in Jobs : Good(k)
  <1>1. Good(c.job)
    BY CallTypes
    DEF Good, RowInv, AttemptRule, JobRule, Backed, Forward, AttemptForward,
        JobForward, Unstaged, CallInv, CallRule, ConsumeDispatchAuthorization,
        TypeOK, JobRow, AttemptRow, Holds
  <1>2. \A k \in Jobs \ {c.job} : job'[k] = job[k] /\ attempt'[k] = attempt[k]
    BY DEF ConsumeDispatchAuthorization, TypeOK
  <1> QED
    BY <1>1, <1>2, OneRow, CallTypes

(* The outcome of the attempt, written once or completed with a receipt.   *)
LEMMA RecordLinkedOutcomeRow ==
  ASSUME TypeOK, RowInv, NEW j \in Jobs, NEW t \in Tokens, NEW r \in Results,
         RecordLinkedOutcome(j, t, r)
  PROVE  \A k \in Jobs : Good(k)
  <1>1. Good(j)
    BY RowTypes
    DEF Good, RowInv, AttemptRule, JobRule, Backed, Forward, AttemptForward,
        JobForward, Unstaged, RecordLinkedOutcome, TypeOK, JobRow, AttemptRow,
        WriteOutcome, RepeatOutcome, ResolveReceipt, RepeatFromJobHolder,
        LookupFor, OutcomeOf, HasIdentity, Holds, Results
  <1>2. \A k \in Jobs \ {j} : job'[k] = job[k] /\ attempt'[k] = attempt[k]
    BY DEF WriteOutcome, RepeatOutcome, ResolveReceipt, RepeatFromJobHolder,
           RecordLinkedOutcome, TypeOK
  <1> QED
    BY <1>1, <1>2, OneRow

(* The job's part of a result relies on what the call recorded.            *)
LEMMA RecordAcknowledgedRow ==
  ASSUME TypeOK, RowInv, CallInv, NEW c \in calls,
         RecordAcknowledged(c)
  PROVE  \A k \in Jobs : Good(k)
  <1> DEFINE owned == c.result.match /\ c.job \in PostNowJobs
             a == attempt[c.job]
             b == job[c.job]
  <1>1. /\ job'[c.job].status = IF owned THEN "verified" ELSE "verification_pending"
        /\ job'[c.job].receipt = "acknowledged"
        /\ job'[c.job].authorized = b.authorized
    BY CallTypes DEF RecordAcknowledged, TypeOK, JobRow
  <1>2. \A k \in Jobs \ {c.job} : job'[k] = job[k] /\ attempt'[k] = attempt[k]
    BY DEF RecordAcknowledged, TypeOK
  <1>3. owned => Backed(a)
    BY DEF RecordAcknowledged, Records, CallInv, CallRule, Recorded, OutcomeOf
  <1>4. /\ b.status \in Dispatching \cup Verifying /\ ~Handled(c.job)
        /\ attempt' = attempt
        /\ c.result.outcome = "acknowledged" /\ CallRule(c) /\ c.op = "record"
    BY DEF RecordAcknowledged, Records, CallInv
  <1>5. c.job \in Jobs /\ AttemptRule(a) /\ JobRule(b, a)
    BY CallTypes DEF RowInv
  <1> HIDE DEF owned
  <1>6. AttemptRule(attempt[c.job])' /\ JobRule(job[c.job], attempt[c.job])'
    BY <1>1, <1>3, <1>4, <1>5 DEF AttemptRule, JobRule, Backed, Unstaged
  <1>7. Forward(c.job)
    BY <1>1, <1>4, <1>5
    DEF Forward, AttemptForward, JobForward, Unstaged, Dispatching, Verifying
  <1> QED
    BY <1>2, <1>5, <1>6, <1>7, OneRow DEF Good

LEMMA RecordScheduledRow ==
  ASSUME TypeOK, RowInv, CallInv, NEW c \in calls,
         RecordScheduled(c)
  PROVE  \A k \in Jobs : Good(k)
  <1>1. Good(c.job)
    BY CallTypes
    DEF Good, RowInv, AttemptRule, JobRule, Backed, Forward, AttemptForward,
        JobForward, Unstaged, CallInv, CallRule, RecordScheduled, TypeOK,
        JobRow, AttemptRow, Records, Recorded, OutcomeOf, Holds, Dispatching,
        Verifying, HasIdentity
  <1>2. \A k \in Jobs \ {c.job} : job'[k] = job[k] /\ attempt'[k] = attempt[k]
    BY DEF RecordScheduled, TypeOK
  <1> QED
    BY <1>1, <1>2, OneRow, CallTypes

LEMMA RecordAmbiguousRow ==
  ASSUME TypeOK, RowInv, CallInv, NEW c \in calls,
         RecordAmbiguous(c)
  PROVE  \A k \in Jobs : Good(k)
  <1>1. Good(c.job)
    BY CallTypes
    DEF Good, RowInv, AttemptRule, JobRule, Backed, Forward, AttemptForward,
        JobForward, Unstaged, CallInv, CallRule, RecordAmbiguous, TypeOK,
        JobRow, AttemptRow, Records, Recorded, OutcomeOf, Holds, Dispatching,
        Verifying
  <1>2. \A k \in Jobs \ {c.job} : job'[k] = job[k] /\ attempt'[k] = attempt[k]
    BY DEF RecordAmbiguous, TypeOK
  <1> QED
    BY <1>1, <1>2, OneRow, CallTypes

LEMMA RecordFailureRow ==
  ASSUME TypeOK, RowInv, CallInv, NEW c \in calls,
         RecordFailure(c)
  PROVE  \A k \in Jobs : Good(k)
  <1>1. Good(c.job)
    BY CallTypes
    DEF Good, RowInv, AttemptRule, JobRule, Backed, Forward, AttemptForward,
        JobForward, Unstaged, CallInv, CallRule, RecordFailure, TypeOK,
        JobRow, AttemptRow, Records, Recorded, OutcomeOf, Holds, Dispatching,
        Verifying
  <1>2. \A k \in Jobs \ {c.job} : job'[k] = job[k] /\ attempt'[k] = attempt[k]
    BY DEF RecordFailure, TypeOK
  <1> QED
    BY <1>1, <1>2, OneRow, CallTypes

LEMMA PrepareVerificationRow ==
  ASSUME TypeOK, RowInv, CallInv, NEW c \in calls,
         PrepareVerification(c)
  PROVE  \A k \in Jobs : Good(k)
  <1>1. Good(c.job)
    BY CallTypes
    DEF Good, RowInv, AttemptRule, JobRule, Backed, Forward, AttemptForward,
        JobForward, Unstaged, CallInv, CallRule, PrepareVerification, TypeOK,
        JobRow, AttemptRow, Records, Recorded, OutcomeOf, Holds, Dispatching,
        Verifying
  <1>2. \A k \in Jobs \ {c.job} : job'[k] = job[k] /\ attempt'[k] = attempt[k]
    BY DEF PrepareVerification, TypeOK
  <1> QED
    BY <1>1, <1>2, OneRow, CallTypes

LEMMA CompleteRow ==
  ASSUME TypeOK, RowInv, CallInv, NEW c \in calls,
         CompleteReconciliation(c)
  PROVE  \A k \in Jobs : Good(k)
  <1>1. Good(c.job)
    BY CallTypes
    DEF Good, RowInv, AttemptRule, JobRule, Backed, Forward, AttemptForward,
        JobForward, Unstaged, CallInv, CallRule, CompleteReconciliation,
        TypeOK, JobRow, AttemptRow, Holds
  <1>2. \A k \in Jobs \ {c.job} : job'[k] = job[k] /\ attempt'[k] = attempt[k]
    BY DEF CompleteReconciliation, TypeOK
  <1> QED
    BY <1>1, <1>2, OneRow, CallTypes

LEMMA RecordDispatchRow ==
  ASSUME TypeOK, RowInv, NEW j \in Jobs, NEW t \in Tokens,
         RecordDispatch(j, t)
  PROVE  \A k \in Jobs : Good(k)
  <1>1. Good(j)
    BY RowTypes
    DEF Good, RowInv, AttemptRule, JobRule, Backed, Forward, AttemptForward,
        JobForward, Unstaged, RecordDispatch, TypeOK, JobRow, AttemptRow,
        HasPublishAt, Holds, Dispatching
  <1>2. \A k \in Jobs \ {j} : job'[k] = job[k] /\ attempt'[k] = attempt[k]
    BY DEF RecordDispatch, TypeOK
  <1> QED
    BY <1>1, <1>2, OneRow

LEMMA DeferVerificationRow ==
  ASSUME TypeOK, RowInv, NEW j \in Jobs, NEW t \in Tokens,
         DeferVerification(j, t)
  PROVE  \A k \in Jobs : Good(k)
  <1>1. Good(j)
    BY RowTypes
    DEF Good, RowInv, AttemptRule, JobRule, Backed, Forward, AttemptForward,
        JobForward, Unstaged, DeferVerification, TypeOK, JobRow, AttemptRow,
        Holds, Verifying
  <1>2. \A k \in Jobs \ {j} : job'[k] = job[k] /\ attempt'[k] = attempt[k]
    BY DEF DeferVerification, TypeOK
  <1> QED
    BY <1>1, <1>2, OneRow

(* A late result writes both rows of a job whose attempt has no definite   *)
(* outcome, or repeats the outcome there is.                               *)
LEMMA RecordLateResultRow ==
  ASSUME TypeOK, RowInv, NEW j \in Jobs, NEW t \in Tokens, NEW r \in LateResults,
         RecordLateResult(j, t, r)
  PROVE  \A k \in Jobs : Good(k)
  <1> DEFINE outcome == LateOutcome(r)
             lookup == LookupFor(outcome, HasIdentity(r))
             s == CASE outcome = "known_failed" -> "failed"
                    [] outcome = "accepted" -> "scheduled"
                    [] OTHER -> "verification_pending"
             a == attempt[j]
             b == job[j]
  <1>1. /\ attempt'[j] = [a EXCEPT
             !.outcome = outcome, !.lookup = lookup, !.active = FALSE,
             !.leased = FALSE, !.receipt = @ \/ HasIdentity(r)]
        /\ job'[j] = [b EXCEPT
             !.status = s, !.token = NoToken, !.leased = FALSE,
             !.dispatched = @ \/ r.outcome # "rejected",
             !.note = @ \/ HasIdentity(r), !.receipt = r.outcome,
             !.error = IF r.outcome = "rejected" THEN "worker" ELSE "none"]
    BY DEF RecordLateResult, TypeOK
  <1>2. \A k \in Jobs \ {j} : job'[k] = job[k] /\ attempt'[k] = attempt[k]
    BY DEF RecordLateResult, TypeOK
  <1>3. /\ LateResultAdmissible(j, r) /\ a.exists
        /\ a.outcome \in {"none", outcome} \/ RefinesOutcome(j)
        /\ LookupMayBecome(j, lookup)
    BY DEF RecordLateResult
  <1>4. /\ r.outcome \in {"scheduled", "ambiguous", "rejected"}
        /\ r.outcome = "rejected" => ~HasIdentity(r)
        /\ outcome \in {"accepted", "known_failed", "outcome_unknown"}
        /\ outcome = "known_failed" <=> r.outcome = "rejected"
        /\ outcome = "accepted" => r.outcome = "scheduled"
    BY DEF Results, LateResults, HasIdentity, LateOutcome
  <1>5. lookup = IF outcome = "known_failed" THEN "not_required"
                 ELSE IF HasIdentity(r) THEN "found" ELSE "identity_pending"
    BY DEF LookupFor
  <1>6. AttemptRule(a) /\ JobRule(b, a) /\ a \in AttemptRow /\ b \in JobRow
    BY RowTypes DEF RowInv
  <1>7. /\ attempt'[j].outcome = outcome /\ attempt'[j].lookup = lookup
        /\ ~attempt'[j].active /\ attempt'[j].exists = a.exists
        /\ attempt'[j].authorized = a.authorized /\ attempt'[j].token = a.token
        /\ attempt'[j].receipt = (a.receipt \/ HasIdentity(r))
        /\ attempt'[j].reported = a.reported
    BY <1>1, <1>6 DEF AttemptRow
  <1>8. /\ job'[j].status = s /\ job'[j].receipt = r.outcome
        /\ job'[j].authorized = b.authorized
        /\ job'[j].note = (b.note \/ HasIdentity(r))
        /\ job'[j].dispatched = (b.dispatched \/ r.outcome # "rejected")
    BY <1>1, <1>6 DEF JobRow
  <1> HIDE DEF outcome, lookup
  <1>9. AttemptRule(attempt[j])'
    BY <1>3, <1>4, <1>5, <1>6, <1>7
    DEF AttemptRule, AttemptRow, LateResultAdmissible, LookupMayBecome
  <1>10. JobRule(job[j], attempt[j])'
    BY <1>3, <1>4, <1>5, <1>6, <1>7, <1>8
    DEF JobRule, AttemptRule, Backed, LateResultAdmissible, LookupMayBecome,
        Dispatching, Unstaged
  <1>11. Forward(j)
    BY <1>3, <1>4, <1>5, <1>6, <1>7, <1>8
    DEF Forward, AttemptForward, JobForward, AttemptRule, JobRule, Unstaged,
        LateResultAdmissible, LookupMayBecome, RefinesOutcome, Dispatching
  <1> QED
    BY <1>2, <1>9, <1>10, <1>11, OneRow DEF Good

LEMMA ReleaseExpiredRow ==
  ASSUME TypeOK, RowInv, NEW j \in Jobs,
         ReleaseExpired(j)
  PROVE  \A k \in Jobs : Good(k)
  <1>1. Good(j)
    BY RowTypes
    DEF Good, RowInv, AttemptRule, JobRule, Backed, Forward, AttemptForward,
        JobForward, Unstaged, ReleaseExpired, TypeOK, JobRow, AttemptRow,
        MayHaveDispatched, Dispatching
  <1>2. \A k \in Jobs \ {j} : job'[k] = job[k] /\ attempt'[k] = attempt[k]
    BY DEF ReleaseExpired, TypeOK
  <1> QED
    BY <1>1, <1>2, OneRow

LEMMA HandleManuallyRow ==
  ASSUME TypeOK, RowInv, NEW p \in Pages, HandleManually(p), NEW j \in Jobs
  PROVE  Good(j)
  <1>1. attempt'[j] = attempt[j]
    BY DEF HandleManually
  <1>2. CASE job'[j] = job[j]
    BY <1>1, <1>2, SameRow
  <1>3. CASE job'[j] # job[j]
    <2>1. /\ job[j].status \in {"queued"} \cup Dispatching
          /\ job'[j] = [job[j] EXCEPT !.status = "failed", !.token = NoToken,
               !.leased = FALSE, !.error = "MANUAL_HANDLING_RECORDED"]
      BY <1>3 DEF HandleManually, TypeOK
    <2>2. /\ job'[j].status = "failed" /\ job'[j].authorized = job[j].authorized
          /\ job'[j].receipt = job[j].receipt /\ job'[j].note = job[j].note
          /\ job'[j].dispatched = job[j].dispatched
      BY <2>1, RowTypes DEF JobRow
    <2> QED
      BY <1>1, <2>1, <2>2
      DEF Good, RowInv, AttemptRule, JobRule, Backed, Forward, AttemptForward,
          JobForward, Unstaged, Dispatching
  <1> QED
    BY <1>2, <1>3

LEMMA ExpireLeaseRow ==
  ASSUME TypeOK, RowInv, NEW j \in Jobs,
         ExpireLease(j)
  PROVE  \A k \in Jobs : Good(k)
  <1>1. Good(j)
    BY RowTypes
    DEF Good, RowInv, AttemptRule, JobRule, Backed, Forward, AttemptForward,
        JobForward, Unstaged, ExpireLease, TypeOK, JobRow, AttemptRow
  <1>2. \A k \in Jobs \ {j} : job'[k] = job[k] /\ attempt'[k] = attempt[k]
    BY DEF ExpireLease, TypeOK
  <1> QED
    BY <1>1, <1>2, OneRow

LEMMA ExpireAttemptLeaseRow ==
  ASSUME TypeOK, RowInv, NEW j \in Jobs,
         ExpireAttemptLease(j)
  PROVE  \A k \in Jobs : Good(k)
  <1>1. Good(j)
    BY RowTypes
    DEF Good, RowInv, AttemptRule, JobRule, Backed, Forward, AttemptForward,
        JobForward, Unstaged, ExpireAttemptLease, TypeOK, JobRow, AttemptRow
  <1>2. \A k \in Jobs \ {j} : job'[k] = job[k] /\ attempt'[k] = attempt[k]
    BY DEF ExpireAttemptLease, TypeOK
  <1> QED
    BY <1>1, <1>2, OneRow

LEMMA NextRow ==
  ASSUME TypeOK, RowInv, CallInv, [Next]_vars
  PROVE  \A k \in Jobs : Good(k)
  <1>1. ASSUME NEW j \in Jobs, Queueing(j) PROVE \A k \in Jobs : Good(k)
    BY <1>1, InsertJobRow, CreateAttemptRow, ApproveAttemptRow DEF Queueing
  <1>2. ASSUME NEW j \in Jobs, NEW t \in Tokens, Requests(j, t)
        PROVE  \A k \in Jobs : Good(k)
    <2>1. CASE AuthorizeStaleSource(j, t)
      BY <2>1, InvalidateRow DEF AuthorizeStaleSource
    <2>2. CASE Authorize(j, t)
      BY <2>2, SameRow DEF Authorize
    <2> QED
      BY <1>2, <2>1, <2>2, ClaimNextRow, StageRow, RecordLinkedOutcomeRow,
         RecordLateResultRow, RecordDispatchRow, DeferVerificationRow
      DEF Requests
  <1>3. ASSUME NEW c \in calls, Continuation(c) PROVE \A k \in Jobs : Good(k)
    <2>1. CASE RecheckBatchSource(c)
      BY <2>1, CallTypes, InvalidateRow, SameRow DEF RecheckBatchSource
    <2>2. CASE RepeatVerified(c) \/ BackfillNotion(c)
      BY <2>2, SameRow DEF RepeatVerified, BackfillNotion
    <2> QED
      BY <1>3, <2>1, <2>2, BindAttemptRow, AuthorizeAttemptRow, ConsumeRow,
         RecordAcknowledgedRow, RecordScheduledRow, RecordAmbiguousRow,
         RecordFailureRow, PrepareVerificationRow, CompleteRow
      DEF Continuation
  <1>4. CASE Environment
    <2>1. CASE (\E p \in Pages : EditSource(p)) \/ (\E c \in calls : AbandonCall(c))
      BY <2>1, SameRow DEF EditSource, AbandonCall
    <2> QED
      BY <1>4, <2>1, HandleManuallyRow, ReleaseExpiredRow, ExpireLeaseRow,
         ExpireAttemptLeaseRow DEF Environment
  <1>5. CASE UNCHANGED vars
    BY <1>5, SameRow DEF vars
  <1> QED
    BY <1>1, <1>2, <1>3, <1>4, <1>5 DEF Next

-----------------------------------------------------------------------------
(* Every step keeps the promises to the calls in flight *)

LEMMA OldCall ==
  ASSUME TypeOK, TypeOK', RowInv, CallInv, NEW c \in calls, Good(c.job)
  PROVE  CallRule(c)'
  <1>1. c.job \in Jobs /\ CallRule(c) /\ AttemptRule(attempt[c.job])
    BY CallTypes DEF CallInv, RowInv
  <1>2. c.op = "record" => Recorded(c)'
    BY <1>1 DEF CallRule, Recorded, Backed, Good, AttemptRule, Forward, AttemptForward
  <1> QED
    BY <1>1, <1>2 DEF CallRule, Good, Forward, AttemptForward, JobForward

LEMMA NewCall ==
  ASSUME TypeOK, TypeOK', RowInv, CallInv, \A k \in Jobs : Good(k),
         NEW d, calls' \subseteq calls \cup {d}, CallRule(d)'
  PROVE  CallInv'
  BY OldCall, CallTypes DEF CallInv

LEMMA NoNewCall ==
  ASSUME TypeOK, TypeOK', RowInv, CallInv, \A k \in Jobs : Good(k), calls' \subseteq calls
  PROVE  CallInv'
  BY OldCall, CallTypes DEF CallInv

(* What a result recorded on the attempt is what its call relies on.       *)
LEMMA RecordCall ==
  ASSUME TypeOK, TypeOK', RowInv, CallInv, \A k \in Jobs : Good(k),
         NEW j \in Jobs, NEW t \in Tokens, NEW r \in Results,
         RecordLinkedOutcome(j, t, r)
  PROVE  CallInv'
  <1> DEFINE outcome == OutcomeOf(j, r)
             d == [op |-> "record", job |-> j, token |-> t, result |-> r]
  <1>1. calls' = calls \cup {d}
    BY DEF RecordLinkedOutcome, Starts
  <1>2. outcome = "accepted" \/ outcome = "known_failed" => Recorded(d)'
    <2>1. attempt'[j].token = attempt[j].token
      BY DEF RecordLinkedOutcome, WriteOutcome, RepeatOutcome, ResolveReceipt,
             RepeatFromJobHolder, TypeOK, AttemptRow
    <2>2. CASE attempt[j].token = t
      <3>1. attempt'[j].outcome = outcome
        BY <2>2, RowTypes DEF RecordLinkedOutcome, WriteOutcome, RepeatOutcome, TypeOK, AttemptRow
      <3> QED
        BY <3>1 DEF Recorded, Backed, Good, AttemptRule
    <2>3. CASE attempt[j].token # t
      <3>1. \/ attempt'[j].outcome = outcome
            \/ /\ outcome = "accepted" /\ attempt'[j].outcome = "outcome_unknown"
               /\ attempt'[j].receipt
        BY <2>3, RowTypes DEF RecordLinkedOutcome, ResolveReceipt, RepeatFromJobHolder,
           TypeOK, AttemptRow, RowInv, AttemptRule
      <3> QED
        BY <2>1, <2>3, <3>1 DEF Recorded, Backed, Good, AttemptRule
    <2> QED
      BY <2>2, <2>3
  <1>3. CallRule(d)'
    BY <1>2 DEF CallRule, Recorded
  <1> QED
    BY <1>1, <1>3, NewCall

LEMMA NextCalls ==
  ASSUME TypeOK, RowInv, CallInv, [Next]_vars
  PROVE  CallInv'
  <1>0. TypeOK' /\ \A k \in Jobs : Good(k)
    BY NextType, NextRow
  <1>1. ASSUME NEW j \in Jobs, Queueing(j) PROVE CallInv'
    BY <1>0, <1>1, NoNewCall DEF Queueing, InsertJob, CreateAttempt, ApproveAttempt
  <1>2. ASSUME NEW j \in Jobs, NEW t \in Tokens, Requests(j, t) PROVE CallInv'
    <2>1. ASSUME NEW lane \in Lanes, ClaimNext(j, t, lane) PROVE CallInv'
      <3> DEFINE d == [op |-> "bind", job |-> j, token |-> t]
      <3>1. calls' \subseteq calls \cup {d}
        BY <2>1 DEF ClaimNext, Starts
      <3>2. CallRule(d)'
        BY DEF CallRule
      <3> QED
        BY <1>0, <3>1, <3>2, NewCall
    <2>2. CASE Authorize(j, t)
      <3> DEFINE d == [op |-> "authorizeAttempt", job |-> j, token |-> t]
      <3>1. calls' \subseteq calls \cup {d}
        BY <2>2 DEF Authorize, Starts
      <3>2. CallRule(d)'
        BY <2>2 DEF Authorize, AuthorizationRead, Holds, CallRule, Unstaged
      <3> QED
        BY <1>0, <3>1, <3>2, NewCall
    <2>3. CASE \/ Stage(j, t) \/ AuthorizeStaleSource(j, t)
               \/ \E r \in LateResults : RecordLateResult(j, t, r)
               \/ RecordDispatch(j, t) \/ DeferVerification(j, t)
      BY <1>0, <2>3, NoNewCall DEF Stage, AuthorizeStaleSource, RecordLateResult,
         RecordDispatch, DeferVerification
    <2> QED
      BY <1>0, <1>2, <2>1, <2>2, <2>3, RecordCall DEF Requests
  <1>3. ASSUME NEW c \in calls, Continuation(c) PROVE CallInv'
    <2>1. CASE BindAttempt(c)
      <3> DEFINE d == [op |-> "recheck", job |-> c.job, token |-> c.token]
      <3>1. calls' \subseteq calls \cup {d} /\ CallRule(d)'
        BY <2>1 DEF BindAttempt, Continues, Ends, CallRule
      <3> QED
        BY <1>0, <3>1, NewCall
    <2>2. CASE AuthorizeAttempt(c)
      <3> DEFINE d == [op |-> "consume", job |-> c.job, token |-> c.token]
      <3>1. calls' \subseteq calls \cup {d}
        BY <2>2 DEF AuthorizeAttempt, Continues
      <3>2. attempt'[c.job].authorized /\ job' = job
        BY <2>2, CallTypes DEF AuthorizeAttempt, TypeOK, AttemptRow
      <3>3. CallRule(d)'
        BY <2>2, <3>2 DEF AuthorizeAttempt, CallInv, CallRule
      <3> QED
        BY <1>0, <3>1, <3>3, NewCall
    <2>3. CASE RecordAcknowledged(c) \/ PrepareVerification(c) \/ RepeatVerified(c)
      <3> DEFINE d == Then(c, "backfill")
      <3>1. d.op = "backfill" /\ d.job = c.job
        BY <2>3 DEF RecordAcknowledged, PrepareVerification, RepeatVerified, Records,
           Then, TypeOK, Calls, ClaimCalls, PermitCalls, ResultCalls
      <3>2. \/ calls' \subseteq calls
            \/ calls' \subseteq calls \cup {d} /\ job'[c.job].status = "verified"
        BY <2>3, CallTypes DEF RecordAcknowledged, PrepareVerification, RepeatVerified,
           Continues, Ends, TypeOK, JobRow
      <3> HIDE DEF d
      <3>3. job'[c.job].status = "verified" => CallRule(d)'
        BY <3>1 DEF CallRule
      <3> QED
        BY <1>0, <3>2, <3>3, NewCall, NoNewCall
    <2>4. CASE BackfillNotion(c)
      <3> DEFINE d == Then(c, "complete")
      <3>1. d.op = "complete" /\ d.job = c.job
        BY <2>4 DEF BackfillNotion, Then, TypeOK, Calls, ClaimCalls, PermitCalls, ResultCalls
      <3>2. calls' \subseteq calls \cup {d} /\ job' = job
        BY <2>4 DEF BackfillNotion, Continues
      <3>3. job[c.job].status \in {"verified", "reconciled"}
        BY <2>4 DEF BackfillNotion, CallInv, CallRule
      <3> HIDE DEF d
      <3>4. CallRule(d)'
        BY <3>1, <3>2, <3>3 DEF CallRule
      <3> QED
        BY <1>0, <3>2, <3>4, NewCall
    <2>5. CASE \/ RecheckBatchSource(c) \/ ConsumeDispatchAuthorization(c)
               \/ RecordScheduled(c) \/ RecordAmbiguous(c) \/ RecordFailure(c)
               \/ CompleteReconciliation(c)
      BY <1>0, <2>5, NoNewCall DEF RecheckBatchSource, ConsumeDispatchAuthorization,
         RecordScheduled, RecordAmbiguous, RecordFailure, CompleteReconciliation, Ends
    <2> QED
      BY <1>3, <2>1, <2>2, <2>3, <2>4, <2>5 DEF Continuation
  <1>4. CASE Environment
    BY <1>0, <1>4, NoNewCall DEF Environment, HandleManually, EditSource,
       ReleaseExpired, ExpireLease, ExpireAttemptLease, AbandonCall, Ends
  <1>5. CASE UNCHANGED vars
    BY <1>0, <1>5, NoNewCall DEF vars
  <1> QED
    BY <1>1, <1>2, <1>3, <1>4, <1>5 DEF Next

-----------------------------------------------------------------------------
(* Every step keeps what is known of the pages *)

LEMMA OneOpenJobStep ==
  ASSUME TypeOK, TypeOK', RowInv, OneOpenJob, \A k \in Jobs : Good(k)
  PROVE  OneOpenJob'
  <1>1. \A j \in Jobs : Retired(j) => Retired(j)'
    BY DEF Good, Forward, AttemptForward, Retired
  <1>2. ASSUME NEW j \in Jobs, NEW k \in SamePage(j), InsertJob(j),
               job'[k].status # "absent"
        PROVE  Retired(k)'
    <2>1. k \in Jobs /\ job'[k] = job[k]
      BY <1>2 DEF InsertJob, SamePage, TypeOK
    <2>2. Retired(k)
      BY <1>2, <2>1 DEF InsertJob, AllowsNewerRevision, Retired
    <2> QED
      BY <1>1, <2>1, <2>2
  <1>3. SUFFICES ASSUME NEW j \in Jobs, NEW k \in SamePage(j),
                        job'[j].status # "absent", job'[k].status # "absent"
                 PROVE  Retired(j)' \/ Retired(k)'
    BY DEF OneOpenJob, SamePage
  <1>4. k \in Jobs /\ j \in SamePage(k)
    BY DEF SamePage
  <1>5. CASE InsertJob(j) \/ InsertJob(k)
    BY <1>2, <1>3, <1>4, <1>5
  <1>6. CASE job[j].status # "absent" /\ job[k].status # "absent"
    BY <1>1, <1>4, <1>6 DEF OneOpenJob
  <1> QED
    BY <1>3, <1>4, <1>5, <1>6 DEF Good, Forward, JobForward

(* Only the operator's takeover and the backfill write the pages' sets. *)
LEMMA PageSets ==
  ASSUME [Next]_vars
  PROVE  /\ handled' = handled \/ \E p \in Pages : HandleManually(p)
         /\ published' = published \/ \E c \in calls : BackfillNotion(c)
  <1>1. ASSUME NEW j \in Jobs, Queueing(j) PROVE UNCHANGED <<handled, published>>
    BY <1>1 DEF Queueing, InsertJob, CreateAttempt, ApproveAttempt
  <1>2. ASSUME NEW j \in Jobs, NEW t \in Tokens, Requests(j, t)
        PROVE  UNCHANGED <<handled, published>>
    BY <1>2 DEF Requests, ClaimNext, Stage, AuthorizeStaleSource, Authorize,
       RecordLinkedOutcome, RecordLateResult, RecordDispatch, DeferVerification
  <1>3. ASSUME NEW c \in calls, Continuation(c)
        PROVE  handled' = handled /\ (published' = published \/ BackfillNotion(c))
    BY <1>3 DEF Continuation, BindAttempt, RecheckBatchSource, AuthorizeAttempt,
       ConsumeDispatchAuthorization, RecordAcknowledged, RecordScheduled,
       RecordAmbiguous, RecordFailure, PrepareVerification, RepeatVerified,
       BackfillNotion, CompleteReconciliation
  <1>4. CASE Environment \/ UNCHANGED vars
    BY <1>4 DEF Environment, HandleManually, EditSource, ReleaseExpired,
       ExpireLease, ExpireAttemptLease, AbandonCall, vars
  <1> QED
    BY <1>1, <1>2, <1>3, <1>4 DEF Next

LEMMA HandledStep ==
  ASSUME TypeOK, HandledClosesAutomation, \A k \in Jobs : Good(k), [Next]_vars
  PROVE  HandledClosesAutomation'
  <1>1. ASSUME NEW p \in Pages, HandleManually(p), NEW j \in Jobs, Handled(j)'
        PROVE  job'[j].status \in {"absent", "failed"}
    <2>1. CASE PageOf[j] = p
      <3>1. job[j].status \in {"absent", "failed", "queued"} \cup Dispatching
        BY <1>1, <2>1, RowTypes
        DEF HandleManually, OwnedByAutomation, JobRow, JobStatus, Verifying, Dispatching
      <3> QED
        BY <1>1, <2>1, <3>1, RowTypes DEF HandleManually, JobRow, TypeOK, Dispatching
    <2>2. CASE PageOf[j] # p
      BY <1>1, <2>2 DEF HandleManually, Handled, HandledClosesAutomation
    <2> QED
      BY <2>1, <2>2
  <1>2. CASE handled' = handled
    BY <1>2 DEF HandledClosesAutomation, Handled, Good, Forward, JobForward
  <1> QED
    BY <1>1, <1>2, PageSets DEF HandledClosesAutomation

(* A page stays published: its verified job keeps the operator from taking *)
(* it over; and a call that marks Notion found such a job.                 *)
LEMMA PublishedStep ==
  ASSUME TypeOK, SafetyInv, \A k \in Jobs : Good(k), [Next]_vars
  PROVE  PublishedHasEvidence'
  <1> DEFINE Evident(j) == job[j].status \in {"verified", "reconciled"}
  <1>1. \A j \in Jobs : Evident(j) => Evident(j)'
    BY DEF Good, Forward, JobForward
  <1>2. ASSUME NEW j \in Jobs, Evident(j), PageOf[j] \notin handled
        PROVE  PageOf[j] \notin handled'
    <2>1. ASSUME NEW p \in Pages, HandleManually(p) PROVE PageOf[j] # p
      BY <1>2, <2>1 DEF HandleManually, OwnedByAutomation
    <2> QED
      BY <1>2, <2>1, PageSets DEF HandleManually
  <1>3. \A p \in published : p \notin handled' /\ \E j \in Jobs : PageOf[j] = p /\ Evident(j)'
    BY <1>1, <1>2 DEF SafetyInv, PublishedHasEvidence
  <1>4. ASSUME NEW c \in calls, BackfillNotion(c)
        PROVE  PageOf[c.job] \notin handled' /\ Evident(c.job)' /\ c.job \in Jobs
    BY <1>1, <1>2, <1>4, CallTypes
    DEF BackfillNotion, SafetyInv, CallInv, CallRule, HandledClosesAutomation, Handled
  <1>5. ASSUME NEW c \in calls, BackfillNotion(c)
        PROVE  published' = published \cup {PageOf[c.job]}
    BY <1>5 DEF BackfillNotion
  <1> QED
    BY <1>3, <1>4, <1>5, PageSets DEF PublishedHasEvidence

LEMMA NextSafety == TypeOK /\ SafetyInv /\ [Next]_vars => SafetyInv'
  <1> SUFFICES ASSUME TypeOK, SafetyInv, [Next]_vars PROVE SafetyInv'
    OBVIOUS
  <1>1. TypeOK' /\ \A k \in Jobs : Good(k)
    BY NextType, NextRow DEF SafetyInv
  <1>2. RowInv'
    BY <1>1 DEF RowInv, Good
  <1>3. CallInv'
    BY NextCalls DEF SafetyInv
  <1>4. OneOpenJob'
    BY <1>1, OneOpenJobStep DEF SafetyInv
  <1>5. HandledClosesAutomation'
    BY <1>1, HandledStep DEF SafetyInv
  <1>6. PublishedHasEvidence'
    BY <1>1, PublishedStep
  <1> QED
    BY <1>2, <1>3, <1>4, <1>5, <1>6 DEF SafetyInv

LEMMA SafetyInvariant == Spec => [](TypeOK /\ SafetyInv)
  <1>1. Init => TypeOK /\ SafetyInv
    BY InitType, InitSafety
  <1>2. TypeOK /\ SafetyInv /\ [Next]_vars => (TypeOK /\ SafetyInv)'
    BY NextType, NextSafety
  <1> QED
    BY <1>1, <1>2, PTL DEF Spec

-----------------------------------------------------------------------------
(* The theorems *)

LEMMA AtMostOneAuthorized == TypeOK /\ SafetyInv => OneAuthorizationPerPage
  BY DEF SafetyInv, RowInv, JobRule, Unstaged, OneOpenJob, Retired, SamePage,
     OneAuthorizationPerPage

(* At most one attempt of a page ever consumes its authorization, whatever *)
(* jobs are queued for it and whichever call died before the job recorded  *)
(* it: a second job is admitted only beside one that failed unauthorized,  *)
(* and such a job stays so.                                                *)
THEOREM OneAuthorization == Spec => []OneAuthorizationPerPage
  BY SafetyInvariant, AtMostOneAuthorized, PTL

(* Every dispatch permit ever answered is backed by the authorization of   *)
(* the job and that by the attempt's, and an authorized job never again is *)
(* handed out as dispatch work.                                            *)
THEOREM AuthorizationCloses == Spec => []AuthorizationClosesDispatch
  <1>1. Init => PermitInv
    BY InitPermit
  <1>2. TypeOK /\ PermitInv /\ [Next]_vars => PermitInv'
    BY NextPermit
  <1>3. TypeOK /\ SafetyInv /\ PermitInv => AuthorizationClosesDispatch
    BY DEF TypeOK, SafetyInv, RowInv, JobRule, Unstaged, PermitInv, PermitBacked,
       AuthorizationClosesDispatch
  <1> QED
    BY <1>1, <1>2, <1>3, SafetyInvariant, PTL DEF Spec

(* A verified or reconciled job rests on an authorized attempt that was    *)
(* accepted, or on the receipt of one left unknown, although job and       *)
(* attempt are written by two transactions with anything between them.     *)
THEOREM VerifiedBacked == Spec => []VerifiedIsBacked
  <1>1. SafetyInv => VerifiedIsBacked
    BY DEF SafetyInv, RowInv, JobRule, Backed, VerifiedIsBacked
  <1> QED
    BY <1>1, SafetyInvariant, PTL

(* A job shows an acknowledged schedule only if its attempt was accepted:  *)
(* a result that met an attempt left unknown does not get that far, since  *)
(* its token does not hold the staged job.                                 *)
THEOREM ScheduledAccepted == Spec => []ScheduledIsAccepted
  <1>1. SafetyInv => ScheduledIsAccepted
    BY DEF SafetyInv, RowInv, JobRule, ScheduledIsAccepted
  <1> QED
    BY <1>1, SafetyInvariant, PTL

(* A job recorded as rejected shows no trace of a publication, in either   *)
(* of its rows, in the order its results arrive or late.                   *)
THEOREM RejectedUnpublished == Spec => []RejectedNeverPublished
  <1>1. SafetyInv => RejectedNeverPublished
    BY DEF SafetyInv, RowInv, AttemptRule, JobRule, RejectedNeverPublished
  <1> QED
    BY <1>1, SafetyInvariant, PTL

(* On a page the operator took over no job is left for a worker, and no    *)
(* call that began before, nor a late result or a sweep, brings one back.  *)
THEOREM HandledCloses == Spec => []HandledClosesAutomation
  BY SafetyInvariant, PTL DEF SafetyInv

(* Notion shows Published only for pages with a verified job and never for *)
(* one the operator took over, although the backfill runs in a transaction *)
(* of its own, possibly long after the one that verified the job.          *)
THEOREM PublishedEvident == Spec => []PublishedHasEvidence
  BY SafetyInvariant, PTL DEF SafetyInv

(* A reported or definite outcome is never rewritten, a receipt never lost *)
(* and an authorization never taken back, by any step of any actor.        *)
THEOREM OutcomeFinal == Spec => OutcomeIsFinal
  <1>1. TypeOK /\ SafetyInv /\ [Next]_vars =>
          [\A j \in Jobs :
             /\ (attempt[j].reported \/ attempt[j].outcome \in {"accepted", "known_failed"})
                  => attempt'[j].outcome = attempt[j].outcome
             /\ attempt[j].receipt => attempt'[j].receipt
             /\ attempt[j].authorized => attempt'[j].authorized]_vars
    BY NextRow DEF SafetyInv, Good, Forward, AttemptForward
  <1> QED
    BY <1>1, SafetyInvariant, PTL DEF Spec, OutcomeIsFinal
=============================================================================
