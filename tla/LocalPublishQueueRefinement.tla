-------------------- MODULE LocalPublishQueueRefinement --------------------
(***************************************************************************)
(* The queue implements PublishOnce, for any sets of jobs, pages and       *)
(* tokens.  The mapping reads the owner of a page off the attempts and its *)
(* phase off the jobs and the handled pages.  AuthorizeAttempt is the      *)
(* abstract Authorize; the two steps that verify a job are the abstract    *)
(* Confirm, or a stutter if the page is confirmed already; HandleManually  *)
(* is TakeOver; no other step moves the owner or the phase of a page.      *)
(***************************************************************************)
EXTENDS LocalPublishQueueSafety

Evident(j) == job[j].status \in {"verified", "reconciled"}
NoChange(j) ==
  /\ attempt'[j].authorized <=> attempt[j].authorized
  /\ Evident(j)' <=> Evident(j)

-----------------------------------------------------------------------------
(* The mapping *)

(* The owner of a page is its authorized attempt, and there is but one for *)
(* CHOOSE to pick; where there is none the page has no owner.              *)
OwnerFound ==
  /\ \A j \in Jobs : attempt[j].authorized => Owner[PageOf[j]] = j
  /\ \A p \in Pages :
       (\A j \in Jobs : PageOf[j] = p => ~attempt[j].authorized) => Owner[p] = NoJob

LEMMA OwnerIs == OneAuthorizationPerPage => OwnerFound
  <1> SUFFICES ASSUME OneAuthorizationPerPage PROVE OwnerFound
    OBVIOUS
  <1>1. ASSUME NEW j \in Jobs, attempt[j].authorized PROVE Owner[PageOf[j]] = j
    <2> DEFINE P(k) == k \in Jobs /\ PageOf[k] = PageOf[j] /\ attempt[k].authorized
               i == CHOOSE k \in Jobs : PageOf[k] = PageOf[j] /\ attempt[k].authorized
    <2>1. i \in Jobs /\ PageOf[i] = PageOf[j] /\ attempt[i].authorized
      BY <1>1
    <2>2. i = j
      BY <1>1, <2>1 DEF OneAuthorizationPerPage
    <2> QED
      BY <1>1, <2>2, JobsAssumption DEF Owner
  <1>2. ASSUME NEW p \in Pages, \A j \in Jobs : PageOf[j] = p => ~attempt[j].authorized
        PROVE  Owner[p] = NoJob
    BY <1>2 DEF Owner
  <1> QED
    BY <1>1, <1>2 DEF OwnerFound

LEMMA OwnerIsNext == OneAuthorizationPerPage' => OwnerFound'
  BY OwnerIs, PTL

LEMMA OwnerStays ==
  ASSUME OneAuthorizationPerPage, OneAuthorizationPerPage', NEW p \in Pages,
         \A j \in Jobs : PageOf[j] = p => (attempt'[j].authorized <=> attempt[j].authorized)
  PROVE  Owner'[p] = Owner[p]
  <1>1. CASE \E j \in Jobs : PageOf[j] = p /\ attempt[j].authorized
    BY <1>1, OwnerIs, OwnerIsNext DEF OwnerFound
  <1>2. CASE \A j \in Jobs : PageOf[j] = p => ~attempt[j].authorized
    BY <1>2, OwnerIs, OwnerIsNext DEF OwnerFound
  <1> QED
    BY <1>1, <1>2

LEMMA PhaseStays ==
  ASSUME NEW p \in Pages, p \in handled' <=> p \in handled,
         \A j \in Jobs : PageOf[j] = p => (Evident(j)' <=> Evident(j))
  PROVE  Phase'[p] = Phase[p]
  BY DEF Phase, Evident

LEMMA MapTypes ==
  /\ Owner \in [Pages -> Jobs \cup {NoJob}]
  /\ Owner' \in [Pages -> Jobs \cup {NoJob}]
  /\ Phase \in [Pages -> {"by_hand", "confirmed", "open"}]
  /\ Phase' \in [Pages -> {"by_hand", "confirmed", "open"}]
  BY DEF Owner, Phase

LEMMA Stutters ==
  ASSUME OneAuthorizationPerPage, OneAuthorizationPerPage', handled' = handled,
         \A j \in Jobs : NoChange(j)
  PROVE  UNCHANGED Once!vars
  <1>1. Owner' = Owner
    BY MapTypes, OwnerStays DEF NoChange
  <1>2. Phase' = Phase
    BY MapTypes, PhaseStays DEF NoChange
  <1> QED
    BY <1>1, <1>2 DEF Once!vars

LEMMA InitOnce == Init => Once!Init
  <1> SUFFICES ASSUME Init PROVE Once!Init
    OBVIOUS
  <1>1. \A j \in Jobs : ~attempt[j].authorized /\ ~Evident(j)
    BY DEF Init, AbsentJob, NoAttempt, Evident
  <1>2. \A p \in Pages : Owner[p] = NoJob /\ Phase[p] = "open"
    BY <1>1 DEF Owner, Phase, Evident, Init
  <1> QED
    BY <1>2, MapTypes DEF Once!Init

-----------------------------------------------------------------------------
(* The steps that move a page *)

LEMMA AuthorizeOnce ==
  ASSUME TypeOK, OneAuthorizationPerPage, OneAuthorizationPerPage',
         NEW c \in calls, AuthorizeAttempt(c)
  PROVE  Once!Next
  <1> DEFINE j == c.job
             p == PageOf[c.job]
  <1>1. j \in Jobs /\ p \in Pages
    BY CallTypes, JobsAssumption
  <1>2. /\ ~attempt[j].authorized /\ attempt'[j].authorized
        /\ \A k \in Jobs \ {j} : attempt'[k] = attempt[k]
        /\ job' = job /\ handled' = handled
    BY <1>1, CallTypes DEF AuthorizeAttempt, TypeOK, AttemptRow
  <1>3. \A k \in Jobs : PageOf[k] = p => ~attempt[k].authorized
    BY <1>1, <1>2 DEF OneAuthorizationPerPage
  <1>4. Owner[p] = NoJob /\ Owner'[p] = j
    BY <1>1, <1>2, <1>3, OwnerIs, OwnerIsNext DEF OwnerFound
  <1>5. \A q \in Pages \ {p} : Owner'[q] = Owner[q]
    BY <1>2, OwnerStays
  <1>6. Phase' = Phase
    BY <1>2 DEF Phase
  <1>7. Owner' = [Owner EXCEPT ![p] = j]
    BY <1>1, <1>4, <1>5, MapTypes
  <1>8. Once!Authorize(p, j)
    BY <1>4, <1>6, <1>7 DEF Once!Authorize
  <1> QED
    BY <1>1, <1>8 DEF Once!Next

LEMMA ConfirmOnce ==
  ASSUME TypeOK, SafetyInv, SafetyInv', OneAuthorizationPerPage, NEW j \in Jobs,
         ~Handled(j), Evident(j)', attempt' = attempt, handled' = handled,
         \A k \in Jobs \ {j} : job'[k] = job[k]
  PROVE  [Once!Next]_Once!vars
  <1> DEFINE p == PageOf[j]
  <1>1. p \in Pages /\ p \notin handled
    BY JobsAssumption DEF Handled
  <1>2. Owner' = Owner
    BY DEF Owner
  <1>3. attempt[j].authorized
    BY DEF SafetyInv, RowInv, JobRule, Backed, Evident
  <1>4. Owner[p] # NoJob
    BY <1>3, OwnerIs, NoJobAssumption DEF OwnerFound
  <1>5. \A q \in Pages \ {p} : Phase'[q] = Phase[q]
    BY PhaseStays DEF Evident
  <1>6. Phase'[p] = "confirmed" /\ Phase[p] \in {"open", "confirmed"}
    BY <1>1 DEF Phase, Evident
  <1>7. CASE Phase[p] = "confirmed"
    <2>1. Phase' = Phase
      BY <1>5, <1>6, <1>7, MapTypes
    <2> QED
      BY <1>2, <2>1 DEF Once!vars
  <1>8. CASE Phase[p] = "open"
    <2>1. Phase' = [Phase EXCEPT ![p] = "confirmed"]
      BY <1>1, <1>5, <1>6, MapTypes
    <2>2. Once!Confirm(p)
      BY <1>2, <1>4, <1>8, <2>1 DEF Once!Confirm
    <2> QED
      BY <1>1, <2>2 DEF Once!Next
  <1> QED
    BY <1>6, <1>7, <1>8

LEMMA TakeOverOnce ==
  ASSUME TypeOK, NEW p \in Pages, HandleManually(p)
  PROVE  Once!Next
  <1>1. Owner' = Owner
    BY DEF HandleManually, Owner
  <1>2. Phase[p] = "open" /\ Phase'[p] = "by_hand"
    BY DEF HandleManually, OwnedByAutomation, Phase
  <1>3. \A q \in Pages \ {p} : Phase'[q] = Phase[q]
    <2> SUFFICES ASSUME NEW q \in Pages \ {p} PROVE Phase'[q] = Phase[q]
      OBVIOUS
    <2>1. \A j \in Jobs : PageOf[j] = q => job'[j] = job[j]
      BY DEF HandleManually
    <2>2. q \in handled' <=> q \in handled
      BY DEF HandleManually
    <2> QED
      BY <2>1, <2>2, PhaseStays DEF Evident
  <1>4. Phase' = [Phase EXCEPT ![p] = "by_hand"]
    BY <1>2, <1>3, MapTypes
  <1>5. Once!TakeOver(p)
    BY <1>1, <1>2, <1>4 DEF Once!TakeOver
  <1> QED
    BY <1>5 DEF Once!Next

-----------------------------------------------------------------------------
(* The steps that leave the pages as they are *)

LEMMA QueueingQuiet ==
  ASSUME TypeOK, RowInv, NEW j \in Jobs, Queueing(j), NEW k \in Jobs
  PROVE  NoChange(k)
  <1>1. CASE InsertJob(j)
    BY <1>1 DEF InsertJob, NoChange, Evident, AbsentJob, TypeOK
  <1>2. CASE CreateAttempt(j)
    <2>1. ~attempt[j].authorized /\ ~attempt'[j].authorized /\ job' = job
      BY <1>2 DEF CreateAttempt, RowInv, AttemptRule, NoAttempt, TypeOK
    <2>2. k # j => attempt'[k] = attempt[k]
      BY <1>2 DEF CreateAttempt, TypeOK
    <2> QED
      BY <2>1, <2>2 DEF NoChange, Evident
  <1>3. CASE ApproveAttempt(j)
    BY <1>3, RowTypes DEF ApproveAttempt, NoChange, Evident, TypeOK, AttemptRow
  <1> QED
    BY <1>1, <1>2, <1>3 DEF Queueing

LEMMA InvalidateQuiet ==
  ASSUME TypeOK, NEW j \in Jobs, NEW t \in Tokens, InvalidateBatchItem(j, t),
         attempt' = attempt, NEW k \in Jobs
  PROVE  NoChange(k)
  BY RowTypes DEF InvalidateBatchItem, Dispatching, NoChange, Evident, TypeOK, JobRow

LEMMA RequestsQuiet ==
  ASSUME TypeOK, NEW j \in Jobs, NEW t \in Tokens, Requests(j, t), NEW k \in Jobs
  PROVE  NoChange(k)
  <1>1. ASSUME NEW lane \in Lanes, ClaimNext(j, t, lane) PROVE NoChange(k)
    BY <1>1, RowTypes DEF ClaimNext, NoChange, Evident, TypeOK, JobRow
  <1>2. CASE Stage(j, t)
    BY <1>2, RowTypes DEF Stage, NoChange, Evident, TypeOK, JobRow
  <1>3. CASE AuthorizeStaleSource(j, t)
    BY <1>3, InvalidateQuiet DEF AuthorizeStaleSource
  <1>4. CASE Authorize(j, t)
    BY <1>4 DEF Authorize, NoChange, Evident
  <1>5. ASSUME NEW r \in Results, RecordLinkedOutcome(j, t, r) PROVE NoChange(k)
    BY <1>5, RowTypes DEF RecordLinkedOutcome, WriteOutcome, RepeatOutcome,
       ResolveReceipt, RepeatFromJobHolder, NoChange, Evident, TypeOK, AttemptRow
  <1>6. ASSUME NEW r \in LateResults, RecordLateResult(j, t, r) PROVE NoChange(k)
    BY <1>6, RowTypes DEF RecordLateResult, LateResultAdmissible, Dispatching,
       NoChange, Evident, TypeOK, JobRow, AttemptRow
  <1>7. CASE RecordDispatch(j, t)
    BY <1>7, RowTypes DEF RecordDispatch, Dispatching, NoChange, Evident, TypeOK, JobRow
  <1>8. CASE DeferVerification(j, t)
    BY <1>8, RowTypes DEF DeferVerification, Verifying, NoChange, Evident, TypeOK, JobRow
  <1> QED
    BY <1>1, <1>2, <1>3, <1>4, <1>5, <1>6, <1>7, <1>8 DEF Requests

LEMMA ContinuationQuiet ==
  ASSUME TypeOK, NEW c \in calls, Continuation(c), ~AuthorizeAttempt(c),
         ~RecordAcknowledged(c), ~PrepareVerification(c), NEW k \in Jobs
  PROVE  NoChange(k)
  <1>1. CASE BindAttempt(c)
    BY <1>1, CallTypes, RowTypes DEF BindAttempt, NoChange, Evident, TypeOK, AttemptRow
  <1>2. CASE RecheckBatchSource(c)
    BY <1>2, CallTypes, InvalidateQuiet DEF RecheckBatchSource, NoChange, Evident
  <1>3. CASE ConsumeDispatchAuthorization(c)
    BY <1>3, CallTypes, RowTypes
    DEF ConsumeDispatchAuthorization, NoChange, Evident, TypeOK, JobRow
  <1>4. CASE RecordScheduled(c)
    BY <1>4, CallTypes, RowTypes
    DEF RecordScheduled, Dispatching, NoChange, Evident, TypeOK, JobRow
  <1>5. CASE RecordAmbiguous(c) \/ RecordFailure(c)
    BY <1>5, CallTypes, RowTypes
    DEF RecordAmbiguous, RecordFailure, Dispatching, NoChange, Evident, TypeOK, JobRow
  <1>6. CASE RepeatVerified(c) \/ BackfillNotion(c)
    BY <1>6 DEF RepeatVerified, BackfillNotion, NoChange, Evident
  <1>7. CASE CompleteReconciliation(c)
    BY <1>7, CallTypes, RowTypes
    DEF CompleteReconciliation, NoChange, Evident, TypeOK, JobRow
  <1> QED
    BY <1>1, <1>2, <1>3, <1>4, <1>5, <1>6, <1>7 DEF Continuation

LEMMA EnvironmentQuiet ==
  ASSUME TypeOK, Environment, \A p \in Pages : ~HandleManually(p), NEW k \in Jobs
  PROVE  NoChange(k)
  <1>1. ASSUME NEW j \in Jobs, ReleaseExpired(j) PROVE NoChange(k)
    <2>1. attempt'[k].authorized <=> attempt[k].authorized
      BY <1>1, RowTypes DEF ReleaseExpired, TypeOK, AttemptRow
    <2>2. k # j => job'[k] = job[k]
      BY <1>1 DEF ReleaseExpired, TypeOK
    <2>3. ~Evident(j) /\ ~Evident(j)'
      BY <1>1, RowTypes DEF ReleaseExpired, Dispatching, Evident, TypeOK, JobRow
    <2> QED
      BY <2>1, <2>2, <2>3 DEF NoChange, Evident
  <1>2. ASSUME NEW j \in Jobs, ExpireLease(j) \/ ExpireAttemptLease(j)
        PROVE  NoChange(k)
    BY <1>2, RowTypes DEF ExpireLease, ExpireAttemptLease, NoChange, Evident, TypeOK,
       JobRow, AttemptRow
  <1>3. CASE (\E p \in Pages : EditSource(p)) \/ (\E c \in calls : AbandonCall(c))
    BY <1>3 DEF EditSource, AbandonCall, NoChange, Evident
  <1> QED
    BY <1>1, <1>2, <1>3 DEF Environment

-----------------------------------------------------------------------------
(* The theorem *)

LEMMA NextOnce ==
  ASSUME TypeOK, SafetyInv, SafetyInv', OneAuthorizationPerPage,
         OneAuthorizationPerPage', [Next]_vars
  PROVE  [Once!Next]_Once!vars
  <1>1. ASSUME NEW j \in Jobs, Queueing(j) PROVE UNCHANGED Once!vars
    <2>1. handled' = handled
      BY <1>1 DEF Queueing, InsertJob, CreateAttempt, ApproveAttempt
    <2> QED
      BY <1>1, <2>1, QueueingQuiet, Stutters DEF SafetyInv
  <1>2. ASSUME NEW j \in Jobs, NEW t \in Tokens, Requests(j, t)
        PROVE  UNCHANGED Once!vars
    <2>1. handled' = handled
      BY <1>2 DEF Requests, ClaimNext, Stage, AuthorizeStaleSource, Authorize,
         RecordLinkedOutcome, RecordLateResult, RecordDispatch, DeferVerification
    <2> QED
      BY <1>2, <2>1, RequestsQuiet, Stutters
  <1>3. ASSUME NEW c \in calls, Continuation(c) PROVE [Once!Next]_Once!vars
    <2>1. handled' = handled
      BY <1>3 DEF Continuation, BindAttempt, RecheckBatchSource, AuthorizeAttempt,
         ConsumeDispatchAuthorization, RecordAcknowledged, RecordScheduled,
         RecordAmbiguous, RecordFailure, PrepareVerification, RepeatVerified,
         BackfillNotion, CompleteReconciliation
    <2>2. CASE AuthorizeAttempt(c)
      BY <2>2, AuthorizeOnce
    <2>3. CASE RecordAcknowledged(c) \/ PrepareVerification(c)
      <3>1. /\ c.job \in Jobs /\ ~Handled(c.job) /\ attempt' = attempt
            /\ \A k \in Jobs \ {c.job} : job'[k] = job[k]
            /\ ~Evident(c.job)
        BY <2>3, CallTypes DEF RecordAcknowledged, PrepareVerification, TypeOK,
           Evident, Dispatching, Verifying
      <3>2. CASE Evident(c.job)'
        BY <2>1, <3>1, <3>2, ConfirmOnce
      <3>3. CASE ~Evident(c.job)'
        BY <2>1, <3>1, <3>3, Stutters DEF NoChange, Evident
      <3> QED
        BY <3>2, <3>3
    <2> QED
      BY <1>3, <2>1, <2>2, <2>3, ContinuationQuiet, Stutters
  <1>4. CASE Environment
    <2>1. ASSUME NEW p \in Pages, HandleManually(p) PROVE Once!Next
      BY <2>1, TakeOverOnce
    <2>2. CASE \A p \in Pages : ~HandleManually(p)
      <3>1. handled' = handled
        BY PageSets, <2>2
      <3> QED
        BY <1>4, <2>2, <3>1, EnvironmentQuiet, Stutters
    <2> QED
      BY <2>1, <2>2
  <1>5. CASE UNCHANGED vars
    BY <1>5, Stutters DEF vars, NoChange, Evident
  <1> QED
    BY <1>1, <1>2, <1>3, <1>4, <1>5 DEF Next

(* Every behaviour of the queue is one of PublishOnce: a page gets at most *)
(* one owner and keeps it, only an owned page is confirmed, and neither a  *)
(* confirmation nor the operator's takeover is ever taken back or follows  *)
(* the other, through crashes, replays, sweeps and late results.           *)
THEOREM ImplementsPublishOnce == Spec => PublishesOnce
  <1>1. Init => Once!Init
    BY InitOnce
  <1>2. /\ TypeOK /\ SafetyInv /\ (TypeOK /\ SafetyInv)' /\ [Next]_vars
        => [Once!Next]_Once!vars
    <2>1. TypeOK /\ SafetyInv => OneAuthorizationPerPage
      BY AtMostOneAuthorized
    <2>2. (TypeOK /\ SafetyInv)' => OneAuthorizationPerPage'
      BY <2>1, PTL
    <2> QED
      BY <2>1, <2>2, NextOnce
  <1> QED
    BY <1>1, <1>2, SafetyInvariant, PTL DEF Spec, PublishesOnce, Once!Spec
=============================================================================
