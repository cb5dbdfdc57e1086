------------------------ MODULE DispatchActivation ------------------------
(***************************************************************************)
(* The exclusive dispatch activation of xhs-platform, composed with what   *)
(* it holds: the jobs of approved batches, the generations of attempts the *)
(* audited recovery of a failed job creates, and the heartbeat row of the  *)
(* worker it names.                                                        *)
(*                                                                         *)
(* Every operation of an activation takes the same advisory lock as the    *)
(* trigger guard_dispatch_eligibility_during_activation, so one action is  *)
(* one transaction.  An ordinary claim is one statement, but it looks for  *)
(* a hold on its snapshot, before the trigger waits for the lock: reading  *)
(* and writing are two actions.  A claim, an authorization and a result of *)
(* the worker are two transactions each, as in LocalPublishQueue.          *)
(*                                                                         *)
(* Abstractions.  The identity tuple of an activation (batch, item,        *)
(* hashes, revision, nonce) is its job: requests that name another tuple   *)
(* are refused and change nothing.  One operator acts.  Leases and the     *)
(* time to live are Booleans.  "dispatched" stands for every status after  *)
(* a publication may have happened.  Each job has a page of its own.       *)
(***************************************************************************)
EXTENDS Naturals, Sequences, FiniteSets

CONSTANTS
  Jobs,           \* jobs of bounded batches, each with its item and its batch
  Workers,        \* worker ids
  NoWorker,       \* the workspace has no heartbeat row
  Activations,    \* ids of local_publish_dispatch_activations
  MaxGeneration,  \* bound on the recovery generations of each job
  Errors          \* what a worker may report as the error of a failure

ASSUME JobsAssumption == Jobs # {}
ASSUME WorkersAssumption == Workers # {} /\ NoWorker \notin Workers
ASSUME GenerationAssumption == MaxGeneration \in [Jobs -> Nat]
ASSUME ErrorsAssumption ==
  Errors \subseteq {"recoverable", "ambiguous_creator", "browser_closed", "other"}

VARIABLES
  job,         \* local_publish_jobs
  attempts,    \* rednote_publish_attempts of a job, by generation
  audit,       \* claim_attempts in the latest recovery audit of a job, or 0
  activation,  \* local_publish_dispatch_activations
  heartbeat,   \* the heartbeat row of the workspace
  polls        \* jobs that polls in flight have selected on their snapshots

vars == <<job, attempts, audit, activation, heartbeat, polls>>

-----------------------------------------------------------------------------
(* Rows *)

JobRow ==
  [status : {"absent", "queued", "claimed", "staged", "dispatched", "failed"},
   leased : BOOLEAN,
   staged : BOOLEAN,                     \* staged_at IS NOT NULL
   authorized : BOOLEAN,                 \* dispatch_authorized_at IS NOT NULL
   claims : Nat,                         \* claim_attempts
   error : Errors \cup {"none", "lease_expired"}]
AttemptRow ==
  [active : BOOLEAN,
   outcome : {"none", "accepted", "known_failed", "outcome_unknown"},
   bound : BOOLEAN,                      \* claim_token IS NOT NULL
   leased : BOOLEAN,
   authorized : BOOLEAN]
ActivationRow ==
  [state : {"absent", "prepared", "active", "consumed", "released", "cancelled"},
   job : Jobs, worker : Workers, generation : Nat, expired : BOOLEAN]

FreshAttempt == [active |-> TRUE, outcome |-> "none", bound |-> FALSE,
                 leased |-> FALSE, authorized |-> FALSE]
AbsentJob == [status |-> "absent", leased |-> FALSE, staged |-> FALSE,
              authorized |-> FALSE, claims |-> 0, error |-> "none"]

\* The attempt no other one supersedes, and the recovery generations before it.
Latest(j) == attempts[j][Len(attempts[j])]
Generations(j) == Len(attempts[j]) - 1
HasAttempt(j) == attempts[j] # <<>>
SetLatest(j, row) == attempts' = [attempts EXCEPT ![j][Len(attempts[j])] = row]

InFlight(j) == job[j].status \in {"claimed", "staged"}
State(a) == activation[a].state
Holds(a) == State(a) \in {"active", "consumed"}
NoHold == \A a \in Activations : ~Holds(a)
Online(w) == heartbeat = [worker |-> w, live |-> TRUE]

(* guard_local_publish_dispatch_activation_mutation *)
Transitions ==
  {<<"prepared", "active">>, <<"prepared", "cancelled">>, <<"active", "consumed">>,
   <<"active", "cancelled">>, <<"consumed", "released">>}
Become(a, state) ==
  /\ <<State(a), state>> \in Transitions
  /\ activation' = [activation EXCEPT ![a].state = state]

Init ==
  /\ job = [j \in Jobs |-> AbsentJob]
  /\ attempts = [j \in Jobs |-> <<>>]
  /\ audit = [j \in Jobs |-> 0]
  /\ activation = [a \in Activations |->
       [state |-> "absent", job |-> CHOOSE j \in Jobs : TRUE,
        worker |-> CHOOSE w \in Workers : TRUE, generation |-> 0, expired |-> FALSE]]
  /\ heartbeat = [worker |-> NoWorker, live |-> FALSE]
  /\ polls = {}

-----------------------------------------------------------------------------
(* guard_dispatch_eligibility_during_activation: what the database admits  *)
(* while an activation holds the lane.                                     *)

AdmitsApproval == NoHold
AdmitsStatus(j, status) ==
  \A a \in Activations : Holds(a) =>
    /\ status \in {"queued", "claimed"} => activation[a].job = j
    /\ status = "queued" => State(a) = "active"
AdmitsReplacement(j) ==
  \A a \in Activations : Holds(a) => activation[a].job = j /\ State(a) = "active"

-----------------------------------------------------------------------------
(* The worker's heartbeat *)

(* upsertLocalPublishWorkerHeartbeat: one row per workspace, so the worker *)
(* that beats last displaces the others.                                   *)
Heartbeat(w) ==
  /\ heartbeat' = [worker |-> w, live |-> TRUE]
  /\ UNCHANGED <<job, attempts, audit, activation, polls>>
LapseHeartbeat ==
  /\ heartbeat.live
  /\ heartbeat' = [heartbeat EXCEPT !.live = FALSE]
  /\ UNCHANGED <<job, attempts, audit, activation, polls>>

-----------------------------------------------------------------------------
(* A batch is approved *)

ApproveBatch(j) ==
  /\ job[j].status = "absent" /\ AdmitsApproval
  /\ job' = [job EXCEPT ![j].status = "queued"]
  /\ UNCHANGED <<attempts, audit, activation, heartbeat, polls>>
CreateAttempt(j) ==
  /\ job[j].status # "absent" /\ ~HasAttempt(j) /\ AdmitsApproval
  /\ attempts' = [attempts EXCEPT ![j] = <<FreshAttempt>>]
  /\ UNCHANGED <<job, audit, activation, heartbeat, polls>>

-----------------------------------------------------------------------------
(* The activation's own life *)

(* prepareDispatchActivation: the job is ready for dispatch at its present *)
(* generation, or failed and recoverable into the next one.                *)
DispatchReady(j, generation) ==
  /\ job[j].status = "queued" /\ HasAttempt(j)
  /\ Latest(j).active /\ Latest(j).outcome = "none" /\ ~Latest(j).authorized
  /\ generation = Generations(j)
RecoveryReady(j, generation) ==
  /\ job[j].status = "failed" /\ HasAttempt(j)
  /\ \E i \in DOMAIN attempts[j] :
       /\ ~attempts[j][i].active /\ ~attempts[j][i].authorized
       /\ attempts[j][i].outcome = "known_failed"
  /\ generation = Generations(j) + 1
\* local_publish_dispatch_activation_identity_idx
IdentityIsFree(j, generation) ==
  \A a \in Activations : State(a) \notin {"absent", "cancelled"} =>
    <<activation[a].job, activation[a].generation>> # <<j, generation>>
PreparedRow(j, w, generation) ==
  [state |-> "prepared", job |-> j, worker |-> w, generation |-> generation,
   expired |-> FALSE]
Prepare(a, j, w, generation) ==
  /\ State(a) = "absent" /\ NoHold
  /\ DispatchReady(j, generation) \/ RecoveryReady(j, generation)
  /\ Online(w) /\ IdentityIsFree(j, generation)
  /\ activation' = [activation EXCEPT ![a] = PreparedRow(j, w, generation)]
  /\ UNCHANGED <<job, attempts, audit, heartbeat, polls>>

\* Slip: claims already in flight are left to finish beside the hold.
ActivateBesideClaims(a) ==
  /\ State(a) = "prepared" /\ ~activation[a].expired /\ NoHold
  /\ Online(activation[a].worker)
  /\ Become(a, "active")
  /\ UNCHANGED <<job, attempts, audit, heartbeat, polls>>

(* activateDispatchActivation *)
Activate(a) ==
  /\ State(a) = "prepared" /\ ~activation[a].expired /\ NoHold
  /\ Online(activation[a].worker)
  /\ \A j \in Jobs \ {activation[a].job} : ~InFlight(j)
  /\ Become(a, "active")
  /\ UNCHANGED <<job, attempts, audit, heartbeat, polls>>

(* cancelDispatchActivation *)
Cancel(a) ==
  /\ \/ State(a) = "prepared"
     \/ /\ State(a) = "active" /\ ~Online(activation[a].worker)
        /\ job[activation[a].job].status = "queued"
  /\ Become(a, "cancelled")
  /\ UNCHANGED <<job, attempts, audit, heartbeat, polls>>

\* Slip: only a job that got published counts as finished.
ReleaseDispatched(a) ==
  /\ State(a) = "consumed" /\ ~Online(activation[a].worker)
  /\ job[activation[a].job].status = "dispatched"
  /\ Become(a, "released")
  /\ UNCHANGED <<job, attempts, audit, heartbeat, polls>>

(* releaseDispatchActivation *)
Release(a) ==
  /\ State(a) = "consumed" /\ ~Online(activation[a].worker)
  /\ ~InFlight(activation[a].job)
  /\ Become(a, "released")
  /\ UNCHANGED <<job, attempts, audit, heartbeat, polls>>

Expire(a) ==
  /\ State(a) \in {"prepared", "active"} /\ ~activation[a].expired
  /\ activation' = [activation EXCEPT ![a].expired = TRUE]
  /\ UNCHANGED <<job, attempts, audit, heartbeat, polls>>

-----------------------------------------------------------------------------
(* Claims *)

Claimable(row) ==
  row.active /\ row.outcome = "none" /\ ~row.authorized /\ ~row.leased
Claimed(j) == [job[j] EXCEPT !.status = "claimed", !.leased = TRUE,
                             !.claims = @ + 1, !.error = "none"]

\* Slip: the generation the operator reviewed is not compared.
ClaimExactAnyGeneration(a) ==
  LET j == activation[a].job IN
  /\ State(a) = "active" /\ ~activation[a].expired
  /\ Online(activation[a].worker)
  /\ job[j].status = "queued" /\ Claimable(Latest(j))
  /\ job' = [job EXCEPT ![j] = Claimed(j)]
  /\ SetLatest(j, [Latest(j) EXCEPT !.bound = TRUE, !.leased = TRUE])
  /\ Become(a, "consumed")
  /\ UNCHANGED <<audit, heartbeat, polls>>

(* claimExactActivatedStoredLocalPublishJob: the activation, its job and   *)
(* the attempt are read and locked, then all three are written in one      *)
(* transaction.                                                            *)
ActivationIsClaimable(a) ==
  /\ State(a) = "active" /\ ~activation[a].expired
  /\ Online(activation[a].worker)
  /\ job[activation[a].job].status = "queued"
AttemptIsExact(a) ==
  LET j == activation[a].job IN
  Claimable(Latest(j)) /\ Generations(j) = activation[a].generation
ClaimExact(a) ==
  LET j == activation[a].job IN
  /\ ActivationIsClaimable(a) /\ AttemptIsExact(a)
  /\ job' = [job EXCEPT ![j] = Claimed(j)]
  /\ SetLatest(j, [Latest(j) EXCEPT !.bound = TRUE, !.leased = TRUE])
  /\ Become(a, "consumed")
  /\ UNCHANGED <<audit, heartbeat, polls>>

(* The dispatch lane of claimNextStoredLocalPublishJob.  The candidate is  *)
(* selected on the snapshot of the statement, which sees no hold.  When    *)
(* its row is locked only the row itself is looked at again, the hold by   *)
(* the trigger, which admits the held job.  A poll that finds the row      *)
(* locked or changed returns nothing.                                      *)
Poll(j) ==
  /\ NoHold
  /\ job[j].status = "queued" /\ HasAttempt(j) /\ Claimable(Latest(j))
  /\ polls' = polls \cup {j}
  /\ UNCHANGED <<job, attempts, audit, activation, heartbeat>>
ClaimOrdinary(j) ==
  /\ j \in polls /\ job[j].status = "queued" /\ AdmitsStatus(j, "claimed")
  /\ job' = [job EXCEPT ![j] = Claimed(j)]
  /\ polls' = polls \ {j}
  /\ UNCHANGED <<attempts, audit, activation, heartbeat>>
EndPoll(j) ==
  /\ j \in polls /\ polls' = polls \ {j}
  /\ UNCHANGED <<job, attempts, audit, activation, heartbeat>>

(* bindLinkedAttemptClaim, the second transaction of an ordinary claim. *)
BindAttempt(j) ==
  /\ InFlight(j) /\ HasAttempt(j) /\ Claimable(Latest(j)) /\ ~Latest(j).bound
  /\ SetLatest(j, [Latest(j) EXCEPT !.bound = TRUE, !.leased = job[j].leased])
  /\ UNCHANGED <<job, audit, activation, heartbeat, polls>>

-----------------------------------------------------------------------------
(* The claimed job *)

Stage(j) ==
  /\ job[j].status = "claimed" /\ job[j].leased
  /\ job' = [job EXCEPT ![j].status = "staged", ![j].staged = TRUE]
  /\ UNCHANGED <<attempts, audit, activation, heartbeat, polls>>
AuthorizeAttempt(j) ==
  /\ job[j].status = "staged" /\ Latest(j).bound /\ Latest(j).leased
  /\ Latest(j).active /\ Latest(j).outcome = "none" /\ ~Latest(j).authorized
  /\ SetLatest(j, [Latest(j) EXCEPT !.authorized = TRUE])
  /\ UNCHANGED <<job, audit, activation, heartbeat, polls>>
ConsumeAuthorization(j) ==
  /\ job[j].status = "staged" /\ job[j].leased /\ ~job[j].authorized
  /\ Latest(j).authorized
  /\ job' = [job EXCEPT ![j].authorized = TRUE]
  /\ UNCHANGED <<attempts, audit, activation, heartbeat, polls>>

\* Slip: the worker's word is stored in place of the outcome it maps to.
SettleAttemptUnmapped(j, outcome) ==
  /\ InFlight(j) /\ Latest(j).bound /\ Latest(j).outcome = "none"
  /\ Latest(j).authorized \/ outcome = "known_failed"
  /\ SetLatest(j, [Latest(j) EXCEPT
       !.outcome = IF outcome = "known_failed" THEN "failed" ELSE outcome,
       !.active = FALSE, !.leased = FALSE])
  /\ UNCHANGED <<job, audit, activation, heartbeat, polls>>

(* A result of the worker reaches the attempt, then the job. *)
SettleAttempt(j, outcome) ==
  /\ InFlight(j) /\ Latest(j).bound /\ Latest(j).outcome = "none"
  /\ Latest(j).authorized \/ outcome = "known_failed"
  /\ SetLatest(j, [Latest(j) EXCEPT !.outcome = outcome, !.active = FALSE,
                                    !.leased = FALSE])
  /\ UNCHANGED <<job, audit, activation, heartbeat, polls>>
FailJob(j, error) ==
  /\ InFlight(j) /\ job[j].leased /\ Latest(j).outcome = "known_failed"
  /\ job' = [job EXCEPT ![j].status = "failed", ![j].leased = FALSE,
                        ![j].error = error]
  /\ UNCHANGED <<attempts, audit, activation, heartbeat, polls>>
DispatchJob(j) ==
  /\ InFlight(j) /\ job[j].leased
  /\ Latest(j).outcome \in {"accepted", "outcome_unknown"}
  /\ job' = [job EXCEPT ![j].status = "dispatched", ![j].leased = FALSE]
  /\ UNCHANGED <<attempts, audit, activation, heartbeat, polls>>

ExpireLease(j) ==
  /\ job[j].leased
  /\ job' = [job EXCEPT ![j].leased = FALSE]
  /\ IF HasAttempt(j) THEN SetLatest(j, [Latest(j) EXCEPT !.leased = FALSE])
     ELSE UNCHANGED attempts
  /\ UNCHANGED <<audit, activation, heartbeat, polls>>

(* releaseExpiredStoredLocalPublishClaims *)
ReleaseExpired(j) ==
  LET unknown ==
        \/ job[j].authorized
        \/ Latest(j).authorized /\ Latest(j).outcome = "none"
  IN
  /\ InFlight(j) /\ ~job[j].leased
  /\ job' = [job EXCEPT
       ![j].status = IF unknown THEN "dispatched" ELSE "failed",
       ![j].error = IF unknown THEN "none" ELSE "lease_expired"]
  /\ IF Latest(j).outcome # "none" THEN UNCHANGED attempts
     ELSE SetLatest(j, [Latest(j) EXCEPT
            !.outcome = IF unknown THEN "outcome_unknown" ELSE "known_failed",
            !.active = FALSE, !.leased = FALSE])
  /\ UNCHANGED <<audit, activation, heartbeat, polls>>

-----------------------------------------------------------------------------
(* Recovery *)

(* assertExactActiveDispatchRecovery *)
HeldForRecovery(j) ==
  \E a \in Activations :
    /\ State(a) = "active" /\ activation[a].job = j /\ ~activation[a].expired
    /\ Generations(j) + 1 = activation[a].generation

(* assertImmutableEvidence: the job itself shows no trace of a publication. *)
NoPublicationEvidence(j) ==
  /\ job[j].status # "dispatched"
  /\ ~job[j].staged /\ ~job[j].authorized

(* rednote_publish_excluded_job_has_recovery_evidence: nor does an attempt *)
(* of it, save the one the latest recovery created, which is checked next. *)
AttemptEvidence(j) ==
  \E i \in DOMAIN attempts[j] :
    /\ ~(audit[j] > 0 /\ i = Len(attempts[j]))
    /\ attempts[j][i].active \/ attempts[j][i].authorized
         \/ attempts[j][i].outcome # "known_failed"
SourceAttempt(j) ==
  HasAttempt(j) /\ ~Latest(j).active /\ ~Latest(j).authorized
    /\ Latest(j).outcome = "known_failed"

(* validateRecoveryCandidate: an allowlisted error, and after an earlier   *)
(* recovery one of a later claim, for an ambiguous page of the very next.  *)
RecoverableFailure(j) ==
  /\ job[j].status = "failed"
  /\ \/ job[j].error \in {"recoverable", "browser_closed"} /\ job[j].claims > audit[j]
     \/ /\ job[j].error = "ambiguous_creator"
        /\ audit[j] > 0 /\ job[j].claims = audit[j] + 1

NextGeneration(j) == attempts' = [attempts EXCEPT ![j] = Append(@, FreshAttempt)]
Requeued(j) ==
  /\ audit' = [audit EXCEPT ![j] = job[j].claims]
  /\ NextGeneration(j)
  /\ job' = [job EXCEPT ![j].status = "queued", ![j].error = "none"]
  /\ UNCHANGED <<activation, heartbeat, polls>>

\* Slip: the worker's error is taken as proof that nothing was published.
RecoverByError(j) ==
  /\ HeldForRecovery(j) /\ RecoverableFailure(j)
  /\ Generations(j) < MaxGeneration[j]
  /\ Requeued(j)

(* recoverStoredApprovedPublishJobTransaction with                         *)
(* ensureRecoveryAttemptGeneration: the audit, the next attempt generation *)
(* and the requeue of the job in one transaction.                          *)
Recover(j) ==
  /\ HeldForRecovery(j)
  /\ NoPublicationEvidence(j) /\ ~AttemptEvidence(j)
  /\ RecoverableFailure(j) /\ SourceAttempt(j)
  /\ AdmitsReplacement(j) /\ AdmitsStatus(j, "queued")
  /\ Generations(j) < MaxGeneration[j]
  /\ Requeued(j)

-----------------------------------------------------------------------------
Administration(a) ==
  \/ \E j \in Jobs : \E w \in Workers, g \in 0..MaxGeneration[j] : Prepare(a, j, w, g)
  \/ Activate(a) \/ Cancel(a) \/ Release(a) \/ Expire(a) \/ ClaimExact(a)
Lifecycle(j) ==
  \/ ApproveBatch(j) \/ CreateAttempt(j)
  \/ Poll(j) \/ ClaimOrdinary(j) \/ EndPoll(j) \/ BindAttempt(j)
  \/ Stage(j) \/ AuthorizeAttempt(j) \/ ConsumeAuthorization(j)
  \/ \E o \in {"accepted", "known_failed", "outcome_unknown"} : SettleAttempt(j, o)
  \/ \E e \in Errors : FailJob(j, e)
  \/ DispatchJob(j) \/ ExpireLease(j) \/ ReleaseExpired(j) \/ Recover(j)

Next ==
  \/ \E a \in Activations : Administration(a)
  \/ \E j \in Jobs : Lifecycle(j)
  \/ \E w \in Workers : Heartbeat(w)
  \/ LapseHeartbeat

Spec == Init /\ [][Next]_vars

-----------------------------------------------------------------------------
(* Properties *)

(* The rows have the shape of their tables. *)
TypeOK ==
  /\ job \in [Jobs -> JobRow]
  /\ attempts \in [Jobs -> Seq(AttemptRow)]
  /\ audit \in [Jobs -> Nat]
  /\ activation \in [Activations -> ActivationRow]
  /\ heartbeat \in [worker : Workers \cup {NoWorker}, live : BOOLEAN]
  /\ polls \subseteq Jobs

(* While an activation holds the lane, no other job is claimed or staged:  *)
(* neither one claimed before the hold began nor one claimed beside it, by *)
(* a poll that saw no hold yet.                                            *)
LaneIsExclusive ==
  \A a \in Activations : Holds(a) =>
    \A j \in Jobs \ {activation[a].job} : ~InFlight(j)

(* A consumed activation has claimed the attempt generation the operator   *)
(* reviewed, although failures, recoveries and other activations may have  *)
(* come between its preparation and its activation, and until its release  *)
(* nothing puts the job back into the queue.                               *)
ConsumedClaimedItsGeneration ==
  \A a \in Activations : State(a) = "consumed" =>
    /\ Generations(activation[a].job) = activation[a].generation
    /\ job[activation[a].job].status # "queued"

(* A job that was staged or authorized is never queued again, whatever     *)
(* failure its worker reported and however often it was recovered before.  *)
StagedIsNotRequeued ==
  [][\A j \in Jobs : job[j].staged \/ job[j].authorized =>
       job'[j].status # "queued"]_vars

(* Every superseded generation of a job failed for certain before it could *)
(* publish, so at most the latest attempt was ever authorized.             *)
SupersededNeverAuthorized ==
  \A j \in Jobs : \A i \in 1..(Len(attempts[j]) - 1) :
    /\ ~attempts[j][i].active /\ ~attempts[j][i].authorized
    /\ attempts[j][i].outcome = "known_failed"

-----------------------------------------------------------------------------
(* Liveness *)

(* Leases run out, the sweep runs every hour, and the operator goes on to  *)
(* retire a hold that can be retired.                                      *)
FairSpec ==
  /\ Spec
  /\ \A j \in Jobs : WF_vars(ExpireLease(j)) /\ WF_vars(ReleaseExpired(j))
  /\ \A a \in Activations : WF_vars(Release(a)) /\ WF_vars(Cancel(a))

Offline(a) == ~Online(activation[a].worker)

(* The lane is given back: a consumed hold ends once the worker is offline *)
(* and stays offline, whatever became of the job it claimed.               *)
ConsumedHoldEnds ==
  \A a \in Activations :
    (State(a) = "consumed" /\ Offline(a)) ~> (State(a) = "released" \/ ~Offline(a))

(* Documentation: "an unconsumed active activation after the expected      *)
(* worker is offline, can be retired with action cancel".                  *)
ActiveHoldEnds ==
  \A a \in Activations :
    (State(a) = "active" /\ Offline(a)) ~> (~Holds(a) \/ ~Offline(a))
=============================================================================
