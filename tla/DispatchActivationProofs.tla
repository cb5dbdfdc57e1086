---------------------- MODULE DispatchActivationProofs ----------------------
(***************************************************************************)
(* The exclusive dispatch activation keeps its promises for any sets of    *)
(* jobs, workers and activations and any number of recoveries.             *)
(*                                                                         *)
(* What a hold promises rests on there being but one (OneHold): the claim  *)
(* that consumes one activation would break the exclusivity of another.    *)
(* What a recovery promises rests on the row of a job: it has an attempt   *)
(* once a poll selected it, and no trace of dispatch before it is staged   *)
(* (RowRule).                                                              *)
(***************************************************************************)
EXTENDS DispatchActivation, SequenceTheorems, TLAPS

RowRule(j) ==
  /\ job[j].status \notin {"absent", "queued"} \/ j \in polls => HasAttempt(j)
  /\ job[j].status \in {"absent", "queued", "claimed"} =>
       ~job[j].staged /\ ~job[j].authorized
OneHold == \A a, b \in Activations : Holds(a) /\ Holds(b) => a = b
HoldInv == OneHold /\ LaneIsExclusive /\ ConsumedClaimedItsGeneration

IInv ==
  /\ TypeOK
  /\ \A j \in Jobs : RowRule(j)
  /\ SupersededNeverAuthorized
  /\ HoldInv

\* A step adds no generation and rewrites no superseded one.
SameGenerations ==
  \A j \in Jobs :
    /\ Len(attempts'[j]) = Len(attempts[j])
    /\ \A i \in 1..(Len(attempts[j]) - 1) : attempts'[j][i] = attempts[j][i]

-----------------------------------------------------------------------------
(* Rows and sequences *)

LEMMA RowTypes ==
  ASSUME TypeOK, NEW j \in Jobs
  PROVE  /\ job[j] \in JobRow /\ attempts[j] \in Seq(AttemptRow)
         /\ Len(attempts[j]) \in Nat
         /\ HasAttempt(j) <=> Len(attempts[j]) > 0
         /\ HasAttempt(j) => Latest(j) \in AttemptRow
  BY EmptySeq, LenProperties, ElementOfSeq DEF TypeOK, HasAttempt, Latest

LEMMA ActivationTypes ==
  ASSUME TypeOK, NEW a \in Activations
  PROVE  /\ activation[a] \in ActivationRow /\ activation[a].job \in Jobs
         /\ activation[a].worker \in Workers /\ activation[a].generation \in Nat
  BY DEF TypeOK, ActivationRow

LEMMA SetLatestTypes ==
  ASSUME TypeOK, NEW j \in Jobs, HasAttempt(j), NEW row \in AttemptRow, SetLatest(j, row)
  PROVE  /\ attempts' \in [Jobs -> Seq(AttemptRow)]
         /\ SameGenerations
  <1> DEFINE n == Len(attempts[j])
             s == [attempts[j] EXCEPT ![n] = row]
  <1>1. attempts[j] \in Seq(AttemptRow) /\ n \in 1..Len(attempts[j])
    BY RowTypes
  <1>2. /\ s \in Seq(AttemptRow) /\ Len(s) = Len(attempts[j])
        /\ \A i \in 1..(n - 1) : s[i] = attempts[j][i]
    BY <1>1, ExceptSeq
  <1>3. attempts' = [attempts EXCEPT ![j] = s]
    BY DEF SetLatest, TypeOK
  <1> HIDE DEF s
  <1>4. attempts' \in [Jobs -> Seq(AttemptRow)]
    BY <1>2, <1>3 DEF TypeOK
  <1>5. attempts'[j] = s /\ \A k \in Jobs \ {j} : attempts'[k] = attempts[k]
    BY <1>3 DEF TypeOK
  <1> QED
    BY <1>2, <1>4, <1>5 DEF SameGenerations

LEMMA NoNewGeneration ==
  ASSUME attempts' = attempts
  PROVE  SameGenerations
  BY DEF SameGenerations

LEMMA InitInv == Init => IInv
  <1> SUFFICES ASSUME Init PROVE IInv
    OBVIOUS
  <1>1. AbsentJob \in JobRow
    BY DEF AbsentJob, JobRow
  <1>2. activation \in [Activations -> ActivationRow]
    BY JobsAssumption, WorkersAssumption DEF Init, ActivationRow
  <1>3. TypeOK
    BY <1>1, <1>2, EmptySeq DEF Init, TypeOK
  <1>4. \A a \in Activations : State(a) = "absent"
    BY DEF Init, State
  <1>5. \A j \in Jobs : RowRule(j) /\ Len(attempts[j]) = 0
    BY EmptySeq DEF Init, RowRule, AbsentJob
  <1>6. HoldInv
    BY <1>4 DEF HoldInv, OneHold, LaneIsExclusive, ConsumedClaimedItsGeneration, Holds
  <1> QED
    BY <1>3, <1>5, <1>6 DEF IInv, SupersededNeverAuthorized

-----------------------------------------------------------------------------
(* Steps of one kind *)

(* A step on the row of a job that keeps its generations: under a hold it  *)
(* puts no other job in flight and none back into the queue.               *)
LEMMA WorkStep ==
  ASSUME IInv, NEW j \in Jobs, NEW row \in JobRow,
         job' = [job EXCEPT ![j] = row],
         attempts' \in [Jobs -> Seq(AttemptRow)], SameGenerations,
         UNCHANGED <<audit, activation, heartbeat>>, polls' \subseteq polls,
         row.status \notin {"absent", "queued"} => HasAttempt(j),
         row.status \in {"absent", "queued", "claimed"} => ~row.staged /\ ~row.authorized,
         row.status \in {"claimed", "staged"} =>
           InFlight(j) \/ \A a \in Activations : Holds(a) => activation[a].job = j,
         row.status = "queued" => job[j].status = "queued" \/ NoHold
  PROVE  IInv'
  <1>1. TypeOK'
    BY DEF IInv, TypeOK
  <1>2. job'[j] = row /\ \A k \in Jobs \ {j} : job'[k] = job[k]
    BY DEF IInv, TypeOK
  <1>3. \A k \in Jobs : HasAttempt(k)' <=> HasAttempt(k)
    <2> SUFFICES ASSUME NEW k \in Jobs PROVE HasAttempt(k)' <=> HasAttempt(k)
      OBVIOUS
    <2>1. attempts'[k] # <<>> <=> Len(attempts'[k]) > 0
      BY EmptySeq, LenProperties
    <2> QED
      BY <2>1, RowTypes DEF SameGenerations, HasAttempt, IInv
  <1>4. \A k \in Jobs : RowRule(k)'
    BY <1>2, <1>3 DEF IInv, RowRule
  <1>5. SupersededNeverAuthorized'
    BY DEF IInv, SupersededNeverAuthorized, SameGenerations
  <1>6. OneHold'
    BY DEF IInv, HoldInv, OneHold, Holds, State
  <1>7. LaneIsExclusive'
    BY <1>2 DEF IInv, HoldInv, LaneIsExclusive, Holds, State, InFlight, NoHold
  <1>8. ConsumedClaimedItsGeneration'
    BY <1>2, ActivationTypes DEF IInv, HoldInv, ConsumedClaimedItsGeneration, Holds,
       State, NoHold, Generations, SameGenerations
  <1> QED
    BY <1>1, <1>4, <1>5, <1>6, <1>7, <1>8 DEF IInv, HoldInv

LEMMA AttemptStep ==
  ASSUME IInv, attempts' \in [Jobs -> Seq(AttemptRow)], SameGenerations,
         UNCHANGED <<job, audit, activation, heartbeat, polls>>
  PROVE  IInv'
  <1>1. TypeOK'
    BY DEF IInv, TypeOK
  <1>2. \A k \in Jobs : HasAttempt(k)' <=> HasAttempt(k)
    <2> SUFFICES ASSUME NEW k \in Jobs PROVE HasAttempt(k)' <=> HasAttempt(k)
      OBVIOUS
    <2>1. attempts'[k] # <<>> <=> Len(attempts'[k]) > 0
      BY EmptySeq, LenProperties
    <2> QED
      BY <2>1, RowTypes DEF SameGenerations, HasAttempt, IInv
  <1>3. \A k \in Jobs : RowRule(k)'
    BY <1>2 DEF IInv, RowRule
  <1>4. SupersededNeverAuthorized'
    BY DEF IInv, SupersededNeverAuthorized, SameGenerations
  <1>5. HoldInv'
    BY ActivationTypes DEF IInv, HoldInv, OneHold, LaneIsExclusive,
       ConsumedClaimedItsGeneration, Holds, State, InFlight, Generations, SameGenerations
  <1> QED
    BY <1>1, <1>3, <1>4, <1>5 DEF IInv

(* A step on the row of an activation that leaves every hold it finds: it  *)
(* neither begins nor consumes one.                                        *)
LEMMA RetiringStep ==
  ASSUME IInv, activation' \in [Activations -> ActivationRow],
         UNCHANGED <<job, attempts, audit, heartbeat, polls>>,
         \A a \in Activations : Holds(a)' =>
           /\ State(a)' = State(a) /\ activation'[a].job = activation[a].job
           /\ activation'[a].generation = activation[a].generation
  PROVE  IInv'
  <1>1. TypeOK'
    BY DEF IInv, TypeOK
  <1>2. \A k \in Jobs : RowRule(k)'
    BY DEF IInv, RowRule, HasAttempt
  <1>3. SupersededNeverAuthorized'
    BY DEF IInv, SupersededNeverAuthorized
  <1>4. OneHold'
    BY DEF IInv, HoldInv, OneHold, Holds
  <1>5. LaneIsExclusive'
    BY DEF IInv, HoldInv, LaneIsExclusive, Holds, InFlight
  <1>6. ConsumedClaimedItsGeneration'
    BY DEF IInv, HoldInv, ConsumedClaimedItsGeneration, Holds, Generations
  <1> QED
    BY <1>1, <1>2, <1>3, <1>4, <1>5, <1>6 DEF IInv, HoldInv

LEMMA SameStep ==
  ASSUME IInv, UNCHANGED <<job, attempts, audit, activation>>,
         polls' \subseteq Jobs, \A j \in polls' : HasAttempt(j),
         heartbeat' \in [worker : Workers \cup {NoWorker}, live : BOOLEAN]
  PROVE  IInv'
  <1>1. TypeOK'
    BY DEF IInv, TypeOK
  <1>2. (\A k \in Jobs : RowRule(k)') /\ SupersededNeverAuthorized' /\ HoldInv'
    BY DEF IInv, RowRule, HasAttempt, SupersededNeverAuthorized, HoldInv, OneHold,
       LaneIsExclusive, ConsumedClaimedItsGeneration, Holds, State, InFlight, Generations
  <1> QED
    BY <1>1, <1>2 DEF IInv

-----------------------------------------------------------------------------
(* The activation's own life *)

LEMMA BecomeTypes ==
  ASSUME TypeOK, NEW a \in Activations, NEW state, Become(a, state)
  PROVE  /\ activation' \in [Activations -> ActivationRow]
         /\ State(a)' = state
         /\ \A b \in Activations : /\ activation'[b].job = activation[b].job
                                   /\ activation'[b].generation = activation[b].generation
         /\ \A b \in Activations \ {a} : State(b)' = State(b)
  <1>1. state \in {"active", "cancelled", "consumed", "released"}
    BY DEF Become, Transitions
  <1> QED
    BY <1>1, ActivationTypes DEF Become, State, TypeOK, ActivationRow

LEMMA PrepareStep ==
  ASSUME IInv, NEW a \in Activations, NEW j \in Jobs, NEW w \in Workers,
         NEW g \in 0..MaxGeneration[j], Prepare(a, j, w, g)
  PROVE  IInv'
  <1>1. PreparedRow(j, w, g) \in ActivationRow
    BY GenerationAssumption DEF PreparedRow, ActivationRow
  <1>2. /\ activation' \in [Activations -> ActivationRow]
        /\ \A b \in Activations \ {a} : activation'[b] = activation[b]
        /\ activation'[a].state = "prepared"
    BY <1>1 DEF Prepare, IInv, TypeOK, PreparedRow
  <1> QED
    BY <1>2, RetiringStep DEF Prepare, Holds, State

(* The hold begins alone and with nothing but its own job in flight. *)
LEMMA ActivateStep ==
  ASSUME IInv, NEW a \in Activations, Activate(a)
  PROVE  IInv'
  <1>1. /\ activation' \in [Activations -> ActivationRow]
        /\ State(a)' = "active" /\ activation'[a].job = activation[a].job
        /\ \A b \in Activations : Holds(b)' => b = a
    BY BecomeTypes DEF Activate, Holds, NoHold, IInv
  <1>2. TypeOK' /\ (\A k \in Jobs : RowRule(k)') /\ SupersededNeverAuthorized'
    BY <1>1 DEF Activate, IInv, TypeOK, RowRule, HasAttempt, SupersededNeverAuthorized
  <1>3. OneHold' /\ LaneIsExclusive' /\ ConsumedClaimedItsGeneration'
    BY <1>1 DEF Activate, OneHold, LaneIsExclusive, ConsumedClaimedItsGeneration,
       Holds, InFlight
  <1> QED
    BY <1>2, <1>3 DEF IInv, HoldInv

LEMMA RetireStep ==
  ASSUME IInv, NEW a \in Activations, Cancel(a) \/ Release(a)
  PROVE  IInv'
  <1>1. CASE Cancel(a)
    BY <1>1, BecomeTypes, RetiringStep DEF Cancel, Holds, IInv
  <1>2. CASE Release(a)
    BY <1>2, BecomeTypes, RetiringStep DEF Release, Holds, IInv
  <1> QED
    BY <1>1, <1>2

LEMMA ExpireStep ==
  ASSUME IInv, NEW a \in Activations, Expire(a)
  PROVE  IInv'
  <1>1. /\ activation' \in [Activations -> ActivationRow]
        /\ \A b \in Activations : /\ activation'[b].state = activation[b].state
                                  /\ activation'[b].job = activation[b].job
                                  /\ activation'[b].generation = activation[b].generation
    BY ActivationTypes DEF Expire, IInv, TypeOK, ActivationRow
  <1> QED
    BY <1>1, RetiringStep DEF Expire, State

LEMMA ClaimedRow ==
  ASSUME IInv, NEW j \in Jobs, job[j].status = "queued"
  PROVE  /\ Claimed(j) \in JobRow /\ Claimed(j).status = "claimed"
         /\ ~Claimed(j).staged /\ ~Claimed(j).authorized
  <1> DEFINE n == job[j].claims + 1
  <1>1. job[j] \in JobRow /\ ~job[j].staged /\ ~job[j].authorized
    BY RowTypes DEF IInv, RowRule
  <1>2. n \in Nat
    BY <1>1 DEF JobRow
  <1>3. Claimed(j) = [job[j] EXCEPT !.status = "claimed", !.leased = TRUE,
                                    !.claims = n, !.error = "none"]
    BY DEF Claimed
  <1> HIDE DEF n
  <1> QED
    BY <1>1, <1>2, <1>3 DEF JobRow

(* The exact claim is the only one under a hold; there being no other hold *)
(* it breaks the exclusivity of none.                                      *)
LEMMA ClaimExactStep ==
  ASSUME IInv, NEW a \in Activations, ClaimExact(a)
  PROVE  IInv'
  <1> DEFINE j == activation[a].job
             row == [Latest(j) EXCEPT !.bound = TRUE, !.leased = TRUE]
  <1>1. j \in Jobs /\ activation[a].generation \in Nat /\ State(a) = "active"
    BY ActivationTypes DEF ClaimExact, ActivationIsClaimable, IInv
  <1>2. HasAttempt(j) /\ Generations(j) = activation[a].generation
    BY <1>1, RowTypes DEF ClaimExact, AttemptIsExact, Generations, IInv
  <1>3. row \in AttemptRow
    BY <1>1, <1>2, RowTypes DEF IInv, AttemptRow
  <1>4. attempts' \in [Jobs -> Seq(AttemptRow)] /\ SameGenerations
    BY <1>1, <1>2, <1>3, SetLatestTypes DEF ClaimExact, IInv
  <1>5. job[j].status = "queued"
    BY DEF ClaimExact, ActivationIsClaimable
  <1>6. /\ Claimed(j) \in JobRow /\ Claimed(j).status = "claimed"
        /\ ~Claimed(j).staged /\ ~Claimed(j).authorized
    BY <1>1, <1>5, ClaimedRow
  <1>7. job' \in [Jobs -> JobRow] /\ job'[j] = Claimed(j)
        /\ \A k \in Jobs \ {j} : job'[k] = job[k]
    BY <1>1, <1>6 DEF ClaimExact, IInv, TypeOK
  <1>8. /\ activation' \in [Activations -> ActivationRow] /\ State(a)' = "consumed"
        /\ \A b \in Activations : /\ activation'[b].job = activation[b].job
                                  /\ activation'[b].generation = activation[b].generation
        /\ \A b \in Activations \ {a} : State(b)' = State(b)
    BY BecomeTypes DEF ClaimExact, IInv
  <1>9. \A b \in Activations : Holds(b)' => b = a
    BY <1>1, <1>8 DEF IInv, HoldInv, OneHold, Holds
  <1>10. TypeOK'
    BY <1>4, <1>7, <1>8 DEF ClaimExact, IInv, TypeOK
  <1>11. \A k \in Jobs : HasAttempt(k) => HasAttempt(k)'
    BY <1>4, RowTypes, EmptySeq DEF SameGenerations, HasAttempt, IInv
  <1>12. \A k \in Jobs : RowRule(k)'
    BY <1>2, <1>6, <1>7, <1>11 DEF ClaimExact, IInv, RowRule
  <1>13. SupersededNeverAuthorized'
    BY <1>4 DEF IInv, SupersededNeverAuthorized, SameGenerations
  <1>14. OneHold'
    BY <1>9 DEF OneHold
  <1>15. LaneIsExclusive'
    BY <1>1, <1>7, <1>8, <1>9 DEF IInv, HoldInv, LaneIsExclusive, Holds, InFlight
  <1>16. ConsumedClaimedItsGeneration'
    BY <1>1, <1>2, <1>4, <1>6, <1>7, <1>8, <1>9
    DEF ConsumedClaimedItsGeneration, Holds, Generations, SameGenerations
  <1> QED
    BY <1>10, <1>12, <1>13, <1>14, <1>15, <1>16 DEF IInv, HoldInv

-----------------------------------------------------------------------------
(* The life of a job *)

LEMMA ApproveStep ==
  ASSUME IInv, NEW j \in Jobs, ApproveBatch(j)
  PROVE  IInv'
  <1> DEFINE row == [job[j] EXCEPT !.status = "queued"]
  <1>1. /\ row \in JobRow /\ row.status = "queued" /\ ~row.staged /\ ~row.authorized
        /\ job' = [job EXCEPT ![j] = row]
    BY RowTypes DEF ApproveBatch, IInv, RowRule, JobRow
  <1> HIDE DEF row
  <1> QED
    BY <1>1, WorkStep, NoNewGeneration DEF ApproveBatch, AdmitsApproval, IInv, TypeOK

LEMMA CreateAttemptStep ==
  ASSUME IInv, NEW j \in Jobs, CreateAttempt(j)
  PROVE  IInv'
  <1>1. FreshAttempt \in AttemptRow
    BY DEF FreshAttempt, AttemptRow
  <1>2. <<FreshAttempt>> \in Seq(AttemptRow) /\ Len(<<FreshAttempt>>) = 1
    BY <1>1
  <1>3. /\ attempts' \in [Jobs -> Seq(AttemptRow)]
        /\ Len(attempts'[j]) = 1
        /\ \A k \in Jobs \ {j} : attempts'[k] = attempts[k]
    BY <1>2 DEF CreateAttempt, IInv, TypeOK
  <1>4. TypeOK'
    BY <1>3 DEF CreateAttempt, IInv, TypeOK
  <1>5. \A k \in Jobs : HasAttempt(k) => HasAttempt(k)'
    BY <1>3 DEF CreateAttempt, HasAttempt
  <1>6. \A k \in Jobs : RowRule(k)'
    BY <1>5 DEF CreateAttempt, IInv, RowRule
  <1>7. SupersededNeverAuthorized'
    <2>1. 1..(Len(attempts'[j]) - 1) = {}
      BY <1>3
    <2> QED
      BY <1>3, <2>1 DEF IInv, SupersededNeverAuthorized
  <1>8. HoldInv'
    BY DEF CreateAttempt, AdmitsApproval, NoHold, HoldInv, OneHold, LaneIsExclusive,
       ConsumedClaimedItsGeneration, Holds, State
  <1> QED
    BY <1>4, <1>6, <1>7, <1>8 DEF IInv

LEMMA ClaimOrdinaryStep ==
  ASSUME IInv, NEW j \in Jobs, ClaimOrdinary(j)
  PROVE  IInv'
  <1>1. /\ Claimed(j) \in JobRow /\ Claimed(j).status = "claimed"
        /\ ~Claimed(j).staged /\ ~Claimed(j).authorized
        /\ job' = [job EXCEPT ![j] = Claimed(j)]
    BY ClaimedRow DEF ClaimOrdinary
  <1>2. HasAttempt(j) /\ \A a \in Activations : Holds(a) => activation[a].job = j
    BY DEF ClaimOrdinary, AdmitsStatus, IInv, RowRule
  <1> QED
    BY <1>1, <1>2, WorkStep, NoNewGeneration DEF ClaimOrdinary, IInv, TypeOK

LEMMA PollStep ==
  ASSUME IInv, NEW j \in Jobs, Poll(j) \/ EndPoll(j)
  PROVE  IInv'
  <1>1. polls' \subseteq Jobs /\ \A k \in polls' : HasAttempt(k)
    BY DEF Poll, EndPoll, IInv, TypeOK, RowRule
  <1> QED
    BY <1>1, SameStep DEF Poll, EndPoll, IInv, TypeOK

\* In flight there is a latest attempt to write to.
LEMMA InFlightRow ==
  ASSUME IInv, NEW j \in Jobs, InFlight(j)
  PROVE  HasAttempt(j) /\ Latest(j) \in AttemptRow /\ job[j] \in JobRow
  BY RowTypes DEF IInv, RowRule, InFlight

LEMMA AttemptSteps ==
  ASSUME IInv, NEW j \in Jobs,
         \/ BindAttempt(j) \/ AuthorizeAttempt(j)
         \/ \E o \in {"accepted", "known_failed", "outcome_unknown"} : SettleAttempt(j, o)
  PROVE  IInv'
  <1>1. InFlight(j) /\ UNCHANGED <<job, audit, activation, heartbeat, polls>>
    BY DEF BindAttempt, AuthorizeAttempt, SettleAttempt, InFlight
  <1>2. HasAttempt(j) /\ Latest(j) \in AttemptRow /\ job[j] \in JobRow
    BY <1>1, InFlightRow
  <1>3. \E row \in AttemptRow : SetLatest(j, row)
    <2>1. CASE BindAttempt(j)
      <3>1. [Latest(j) EXCEPT !.bound = TRUE, !.leased = job[j].leased] \in AttemptRow
        BY <1>2 DEF AttemptRow, JobRow
      <3> QED
        BY <2>1, <3>1 DEF BindAttempt
    <2>2. CASE AuthorizeAttempt(j)
      <3>1. [Latest(j) EXCEPT !.authorized = TRUE] \in AttemptRow
        BY <1>2 DEF AttemptRow
      <3> QED
        BY <2>2, <3>1 DEF AuthorizeAttempt
    <2>3. ASSUME NEW o \in {"accepted", "known_failed", "outcome_unknown"},
                 SettleAttempt(j, o)
          PROVE  \E row \in AttemptRow : SetLatest(j, row)
      <3>1. [Latest(j) EXCEPT !.outcome = o, !.active = FALSE, !.leased = FALSE]
              \in AttemptRow
        BY <1>2 DEF AttemptRow
      <3> QED
        BY <2>3, <3>1 DEF SettleAttempt
    <2> QED
      BY <2>1, <2>2, <2>3
  <1>4. attempts' \in [Jobs -> Seq(AttemptRow)] /\ SameGenerations
    BY <1>2, <1>3, SetLatestTypes DEF IInv
  <1> QED
    BY <1>1, <1>4, AttemptStep

LEMMA JobSteps ==
  ASSUME IInv, NEW j \in Jobs,
         \/ Stage(j) \/ ConsumeAuthorization(j) \/ DispatchJob(j)
         \/ \E e \in Errors : FailJob(j, e)
  PROVE  IInv'
  <1>1. /\ InFlight(j) /\ UNCHANGED <<attempts, audit, activation, heartbeat, polls>>
        /\ HasAttempt(j) /\ job[j] \in JobRow
    BY InFlightRow DEF Stage, ConsumeAuthorization, DispatchJob, FailJob, InFlight
  <1>2. \E row \in JobRow :
          /\ job' = [job EXCEPT ![j] = row]
          /\ row.status \in {"staged", "dispatched", "failed"}
    <2>1. CASE Stage(j)
      <3>1. [job[j] EXCEPT !.status = "staged", !.staged = TRUE] \in JobRow
        BY <1>1 DEF JobRow
      <3> QED
        BY <2>1, <3>1, <1>1 DEF Stage, JobRow
    <2>2. CASE ConsumeAuthorization(j)
      <3>1. /\ [job[j] EXCEPT !.authorized = TRUE] \in JobRow
            /\ [job[j] EXCEPT !.authorized = TRUE].status = "staged"
        BY <1>1, <2>2 DEF ConsumeAuthorization, JobRow
      <3> QED
        BY <2>2, <3>1 DEF ConsumeAuthorization
    <2>3. CASE DispatchJob(j)
      <3>1. [job[j] EXCEPT !.status = "dispatched", !.leased = FALSE] \in JobRow
        BY <1>1 DEF JobRow
      <3> QED
        BY <2>3, <3>1, <1>1 DEF DispatchJob, JobRow
    <2>4. ASSUME NEW e \in Errors, FailJob(j, e)
          PROVE  \E row \in JobRow : /\ job' = [job EXCEPT ![j] = row]
                                     /\ row.status = "failed"
      <3> DEFINE row == [job[j] EXCEPT !.status = "failed", !.leased = FALSE, !.error = e]
      <3>1. row \in JobRow /\ row.status = "failed"
        BY <1>1 DEF JobRow
      <3>2. job' = [job EXCEPT ![j] = row]
        BY <2>4 DEF FailJob
      <3> QED
        BY <3>1, <3>2
    <2> QED
      BY <2>1, <2>2, <2>3, <2>4
  <1> QED
    BY <1>1, <1>2, WorkStep, NoNewGeneration DEF IInv, TypeOK

LEMMA ExpireLeaseStep ==
  ASSUME IInv, NEW j \in Jobs, ExpireLease(j)
  PROVE  IInv'
  <1> DEFINE row == [job[j] EXCEPT !.leased = FALSE]
  <1>1. /\ row \in JobRow /\ row.status = job[j].status /\ row.staged = job[j].staged
        /\ row.authorized = job[j].authorized /\ job' = [job EXCEPT ![j] = row]
    BY RowTypes DEF ExpireLease, IInv, JobRow
  <1>2. attempts' \in [Jobs -> Seq(AttemptRow)] /\ SameGenerations
    <2>1. CASE HasAttempt(j)
      <3>1. [Latest(j) EXCEPT !.leased = FALSE] \in AttemptRow
        BY <2>1, RowTypes DEF IInv, AttemptRow
      <3> QED
        BY <2>1, <3>1, SetLatestTypes DEF ExpireLease, IInv
    <2>2. CASE ~HasAttempt(j)
      BY <2>2, NoNewGeneration DEF ExpireLease, IInv, TypeOK
    <2> QED
      BY <2>1, <2>2
  <1> HIDE DEF row
  <1> QED
    BY <1>1, <1>2, WorkStep DEF ExpireLease, IInv, RowRule, InFlight

LEMMA ReleaseExpiredStep ==
  ASSUME IInv, NEW j \in Jobs, ReleaseExpired(j)
  PROVE  IInv'
  <1> DEFINE unknown == \/ job[j].authorized
                        \/ Latest(j).authorized /\ Latest(j).outcome = "none"
             s == IF unknown THEN "dispatched" ELSE "failed"
             e == IF unknown THEN "none" ELSE "lease_expired"
             o == IF unknown THEN "outcome_unknown" ELSE "known_failed"
             row == [job[j] EXCEPT !.status = s, !.error = e]
             a == [Latest(j) EXCEPT !.outcome = o, !.active = FALSE, !.leased = FALSE]
  <1>1. /\ InFlight(j) /\ UNCHANGED <<audit, activation, heartbeat, polls>>
        /\ HasAttempt(j) /\ Latest(j) \in AttemptRow /\ job[j] \in JobRow
    BY InFlightRow DEF ReleaseExpired
  <1>2. job' = [job EXCEPT ![j] = row]
    BY DEF ReleaseExpired
  <1>3. UNCHANGED attempts \/ SetLatest(j, a)
    BY DEF ReleaseExpired
  <1>4. /\ s \in {"dispatched", "failed"} /\ e \in {"none", "lease_expired"}
        /\ o \in {"outcome_unknown", "known_failed"}
    OBVIOUS
  <1> HIDE DEF s, e, o
  <1>5. row \in JobRow /\ row.status \in {"dispatched", "failed"} /\ a \in AttemptRow
    BY <1>1, <1>4 DEF JobRow, AttemptRow
  <1>6. attempts' \in [Jobs -> Seq(AttemptRow)] /\ SameGenerations
    BY <1>1, <1>3, <1>5, SetLatestTypes, NoNewGeneration DEF IInv, TypeOK
  <1> HIDE DEF row, a
  <1> QED
    BY <1>1, <1>2, <1>5, <1>6, WorkStep

(* A recovery supersedes an attempt that failed for certain, and requeues  *)
(* a job that was not staged, under no other hold than its own active one. *)
LEMMA RecoverStep ==
  ASSUME IInv, NEW j \in Jobs, Recover(j)
  PROVE  IInv'
  <1> DEFINE row == [job[j] EXCEPT !.status = "queued", !.error = "none"]
             s == Append(attempts[j], FreshAttempt)
  <1>1. /\ job' = [job EXCEPT ![j] = row] /\ attempts' = [attempts EXCEPT ![j] = s]
        /\ audit' = [audit EXCEPT ![j] = job[j].claims]
        /\ UNCHANGED <<activation, heartbeat, polls>>
    BY DEF Recover, Requeued, NextGeneration
  <1>2. /\ row \in JobRow /\ row.status = "queued" /\ ~row.staged /\ ~row.authorized
        /\ job[j].claims \in Nat
    BY RowTypes DEF Recover, NoPublicationEvidence, IInv, JobRow
  <1>3. FreshAttempt \in AttemptRow
    BY DEF FreshAttempt, AttemptRow
  <1>4. /\ s \in Seq(AttemptRow) /\ Len(s) = Len(attempts[j]) + 1
        /\ \A i \in 1..Len(attempts[j]) : s[i] = attempts[j][i]
    BY <1>3, RowTypes, AppendProperties DEF IInv
  <1> HIDE DEF row, s
  <1>5. /\ attempts' \in [Jobs -> Seq(AttemptRow)] /\ attempts'[j] = s
        /\ \A k \in Jobs \ {j} : attempts'[k] = attempts[k]
        /\ job' \in [Jobs -> JobRow] /\ job'[j] = row
        /\ \A k \in Jobs \ {j} : job'[k] = job[k]
    BY <1>1, <1>2, <1>4 DEF IInv, TypeOK
  <1>6. TypeOK'
    BY <1>1, <1>2, <1>5 DEF IInv, TypeOK
  <1>7. \A k \in Jobs : RowRule(k)'
    BY <1>1, <1>2, <1>4, <1>5, EmptySeq, RowTypes DEF IInv, RowRule, HasAttempt
  <1>8. SupersededNeverAuthorized'
    <2>1. /\ Len(attempts[j]) \in Nat /\ ~Latest(j).active /\ ~Latest(j).authorized
          /\ Latest(j).outcome = "known_failed"
      BY RowTypes DEF Recover, SourceAttempt, IInv
    <2>2. \A i \in 1..Len(attempts[j]) :
            /\ ~s[i].active /\ ~s[i].authorized /\ s[i].outcome = "known_failed"
      <3> TAKE i \in 1..Len(attempts[j])
      <3>1. CASE i = Len(attempts[j])
        BY <1>4, <2>1, <3>1 DEF Latest
      <3>2. CASE i \in 1..(Len(attempts[j]) - 1)
        BY <1>4, <3>2 DEF IInv, SupersededNeverAuthorized
      <3> QED
        BY <2>1, <3>1, <3>2
    <2>3. Len(s) - 1 = Len(attempts[j])
      BY <1>4, <2>1
    <2> QED
      BY <1>5, <2>2, <2>3 DEF IInv, SupersededNeverAuthorized
  <1>9. \A a \in Activations : Holds(a) => activation[a].job = j /\ State(a) = "active"
    BY DEF Recover, AdmitsReplacement
  <1>10. OneHold' /\ LaneIsExclusive' /\ ConsumedClaimedItsGeneration'
    BY <1>1, <1>2, <1>5, <1>9 DEF IInv, HoldInv, OneHold, LaneIsExclusive,
       ConsumedClaimedItsGeneration, Holds, State, InFlight
  <1> QED
    BY <1>6, <1>7, <1>8, <1>10 DEF IInv, HoldInv

-----------------------------------------------------------------------------
(* The theorems *)

LEMMA NextInv == IInv /\ [Next]_vars => IInv'
  <1> SUFFICES ASSUME IInv, [Next]_vars PROVE IInv'
    OBVIOUS
  <1>1. ASSUME NEW a \in Activations, Administration(a) PROVE IInv'
    BY <1>1, PrepareStep, ActivateStep, RetireStep, ExpireStep, ClaimExactStep
    DEF Administration
  <1>2. ASSUME NEW j \in Jobs, Lifecycle(j) PROVE IInv'
    BY <1>2, ApproveStep, CreateAttemptStep, PollStep, ClaimOrdinaryStep, AttemptSteps,
       JobSteps, ExpireLeaseStep, ReleaseExpiredStep, RecoverStep DEF Lifecycle
  <1>3. CASE (\E w \in Workers : Heartbeat(w)) \/ LapseHeartbeat
    <2> polls' \subseteq Jobs /\ \A j \in polls' : HasAttempt(j)
      BY <1>3 DEF Heartbeat, LapseHeartbeat, IInv, TypeOK, RowRule
    <2>1. heartbeat' \in [worker : Workers \cup {NoWorker}, live : BOOLEAN]
      <3>1. CASE \E w \in Workers : Heartbeat(w)
        BY <3>1 DEF Heartbeat
      <3>2. CASE LapseHeartbeat
        BY <3>2 DEF LapseHeartbeat, IInv, TypeOK
      <3> QED
        BY <1>3, <3>1, <3>2
    <2> QED
      BY <1>3, <2>1, SameStep DEF Heartbeat, LapseHeartbeat
  <1>4. CASE UNCHANGED vars
    BY <1>4, SameStep DEF vars, IInv, TypeOK, RowRule
  <1> QED
    BY <1>1, <1>2, <1>3, <1>4 DEF Next

LEMMA Invariant == Spec => []IInv
  BY InitInv, NextInv, PTL DEF Spec

(* Rows, generations and activations keep the shape of their tables. *)
THEOREM TypeCorrect == Spec => []TypeOK
  BY Invariant, PTL DEF IInv

(* While an activation holds the lane no other job is claimed or staged,   *)
(* for any number of jobs and activations: one hold at a time is granted,  *)
(* to a lane that is empty, and a poll begun before it finds the trigger,  *)
(* which admits only the job of the hold.                                  *)
THEOREM ExclusiveLane == Spec => []LaneIsExclusive
  BY Invariant, PTL DEF IInv, HoldInv

(* A consumed activation has claimed the generation the operator reviewed, *)
(* however many recoveries and other activations came before, and its job  *)
(* is not requeued while it holds.                                         *)
THEOREM ConsumedIsExact == Spec => []ConsumedClaimedItsGeneration
  BY Invariant, PTL DEF IInv, HoldInv

(* Every superseded generation failed for certain, unauthorized: however   *)
(* often a job is recovered only its latest attempt may have published.    *)
THEOREM SupersededUnauthorized == Spec => []SupersededNeverAuthorized
  BY Invariant, PTL DEF IInv

\* The steps that queue a job.
Queues(j) ==
  job'[j].status = "queued" =>
    job[j].status = "queued" \/ ApproveBatch(j) \/ Recover(j)

LEMMA OneJobStep ==
  ASSUME IInv, NEW j \in Jobs, NEW k \in Jobs, NEW row,
         job' = [job EXCEPT ![k] = row],
         row.status = "queued" =>
           job[k].status = "queued" \/ ApproveBatch(k) \/ Recover(k)
  PROVE  Queues(j)
  <1>1. job'[k] = row /\ \A i \in Jobs \ {k} : job'[i] = job[i]
    BY DEF IInv, TypeOK
  <1> QED
    BY <1>1 DEF Queues

LEMMA SameJobs ==
  ASSUME NEW j \in Jobs, job' = job
  PROVE  Queues(j)
  BY DEF Queues

LEMMA QueueMoves ==
  ASSUME IInv, [Next]_vars, NEW j \in Jobs
  PROVE  Queues(j)
  <1>1. ASSUME NEW a \in Activations, Administration(a) PROVE Queues(j)
    <2>1. CASE ClaimExact(a)
      <3>1. /\ activation[a].job \in Jobs
            /\ job[activation[a].job].status = "queued"
            /\ job' = [job EXCEPT ![activation[a].job] = Claimed(activation[a].job)]
            /\ Claimed(activation[a].job).status = "claimed"
        BY <2>1, ActivationTypes, ClaimedRow DEF ClaimExact, ActivationIsClaimable, IInv
      <3> QED
        BY <2>1, <3>1 DEF Queues, IInv, TypeOK
    <2> QED
      BY <1>1, <2>1, SameJobs DEF Administration, Prepare, Activate, Cancel, Release, Expire
  <1>2. ASSUME NEW k \in Jobs, Lifecycle(k) PROVE Queues(j)
    <2>1. CASE \/ CreateAttempt(k) \/ Poll(k) \/ EndPoll(k) \/ BindAttempt(k)
               \/ AuthorizeAttempt(k)
               \/ \E o \in {"accepted", "known_failed", "outcome_unknown"} :
                    SettleAttempt(k, o)
      BY <2>1, SameJobs DEF CreateAttempt, Poll, EndPoll, BindAttempt, AuthorizeAttempt,
         SettleAttempt
    <2>2. CASE ClaimOrdinary(k)
      BY <2>2, ClaimedRow, OneJobStep DEF ClaimOrdinary
    <2>3. CASE ApproveBatch(k)
      <3> DEFINE row == [job[k] EXCEPT !.status = "queued"]
      <3>1. row.status = "queued" /\ job' = [job EXCEPT ![k] = row]
        BY <2>3, RowTypes DEF ApproveBatch, IInv, JobRow
      <3> QED
        BY <2>3, <3>1, OneJobStep
    <2>4. CASE Stage(k)
      <3> DEFINE row == [job[k] EXCEPT !.status = "staged", !.staged = TRUE]
      <3>1. row.status = "staged" /\ job' = [job EXCEPT ![k] = row]
        BY <2>4, RowTypes DEF Stage, IInv, JobRow
      <3> QED
        BY <3>1, OneJobStep
    <2>5. CASE ConsumeAuthorization(k)
      <3> DEFINE row == [job[k] EXCEPT !.authorized = TRUE]
      <3>1. row.status = "staged" /\ job' = [job EXCEPT ![k] = row]
        BY <2>5, RowTypes DEF ConsumeAuthorization, IInv, JobRow
      <3> QED
        BY <3>1, OneJobStep
    <2>6. ASSUME NEW e \in Errors, FailJob(k, e) PROVE Queues(j)
      <3> DEFINE row == [job[k] EXCEPT !.status = "failed", !.leased = FALSE, !.error = e]
      <3>1. row.status = "failed" /\ job' = [job EXCEPT ![k] = row]
        BY <2>6, RowTypes DEF FailJob, IInv, JobRow
      <3> QED
        BY <3>1, OneJobStep
    <2>7. CASE DispatchJob(k)
      <3> DEFINE row == [job[k] EXCEPT !.status = "dispatched", !.leased = FALSE]
      <3>1. row.status = "dispatched" /\ job' = [job EXCEPT ![k] = row]
        BY <2>7, RowTypes DEF DispatchJob, IInv, JobRow
      <3> QED
        BY <3>1, OneJobStep
    <2>8. CASE ExpireLease(k)
      <3> DEFINE row == [job[k] EXCEPT !.leased = FALSE]
      <3>1. row.status = job[k].status /\ job' = [job EXCEPT ![k] = row]
        BY <2>8, RowTypes DEF ExpireLease, IInv, JobRow
      <3> HIDE DEF row
      <3> QED
        BY <3>1, OneJobStep
    <2>9. CASE ReleaseExpired(k)
      <3> DEFINE unknown == \/ job[k].authorized
                            \/ Latest(k).authorized /\ Latest(k).outcome = "none"
                 s == IF unknown THEN "dispatched" ELSE "failed"
                 e == IF unknown THEN "none" ELSE "lease_expired"
                 row == [job[k] EXCEPT !.status = s, !.error = e]
      <3>1. job' = [job EXCEPT ![k] = row]
        BY <2>9 DEF ReleaseExpired
      <3>2. s \in {"dispatched", "failed"}
        OBVIOUS
      <3> HIDE DEF s, e
      <3>3. row.status \in {"dispatched", "failed"}
        BY <3>2, RowTypes DEF IInv, JobRow
      <3> HIDE DEF row
      <3> QED
        BY <3>1, <3>3, OneJobStep
    <2>10. CASE Recover(k)
      <3> DEFINE row == [job[k] EXCEPT !.status = "queued", !.error = "none"]
      <3>1. row.status = "queued" /\ job' = [job EXCEPT ![k] = row]
        BY <2>10, RowTypes DEF Recover, Requeued, IInv, JobRow
      <3> QED
        BY <2>10, <3>1, OneJobStep
    <2> QED
      BY <1>2, <2>1, <2>2, <2>3, <2>4, <2>5, <2>6, <2>7, <2>8, <2>9, <2>10 DEF Lifecycle
  <1>3. CASE job' = job
    BY <1>3, SameJobs
  <1> QED
    BY <1>1, <1>2, <1>3 DEF Next, vars, Heartbeat, LapseHeartbeat

(* A job that was staged or authorized is never queued again, whatever its *)
(* worker reported: a queued row shows no trace of either (RowRule), and   *)
(* the recovery looks for one.                                             *)
THEOREM StagedStays == Spec => StagedIsNotRequeued
  <1>1. IInv /\ [Next]_vars =>
          [\A j \in Jobs : job[j].staged \/ job[j].authorized =>
             job'[j].status # "queued"]_vars
    BY QueueMoves DEF Queues, ApproveBatch, Recover, NoPublicationEvidence, IInv, RowRule
  <1> QED
    BY <1>1, Invariant, PTL DEF Spec, StagedIsNotRequeued
=============================================================================
