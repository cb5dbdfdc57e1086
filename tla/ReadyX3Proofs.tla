---------------------------- MODULE ReadyX3Proofs ----------------------------
(***************************************************************************)
(* The provider action of a page starts once, and a consent that was       *)
(* closed stays closed, for any number of keys, requests and calls.        *)
(*                                                                         *)
(* The inductive invariant orders the jobs of the page: of two jobs the    *)
(* one of the older revision is spent, known to have failed before the     *)
(* provider was touched.  A spent job can only come back when nothing      *)
(* newer is there, so the order is kept by every recovery.  An             *)
(* authorization is never taken back, which ties the permits and the calls *)
(* to it: a consent's is in both rows at once, a reclassified job's is in  *)
(* its attempt before it is in the job.                                    *)
(***************************************************************************)
EXTENDS ReadyX3, FiniteSetTheorems, TLAPS

Spent(j) ==
  /\ job[j].status = "failed" /\ ~job[j].staged /\ ~job[j].authorized
  /\ attempt[j].state = "closed" /\ attempt[j].outcome \in {"known_failed", "expired"}
  /\ ~attempt[j].authorized
Older(j, k) == job[j].revision < job[k].revision /\ Spent(j)

(* The two rows of a key. *)
RowsAgree(row, arow) ==
  /\ row.authorized => arow.authorized
  /\ arow.consent => (arow.authorized => row.authorized)
  /\ arow.state = "absent" => ~arow.authorized /\ ~arow.consent /\ arow.token = 0
  /\ row.status \in {"claimed", "staged"} => arow.state # "absent"
RowRule(j) ==
  /\ RowsAgree(job[j], attempt[j])
  /\ IF Exists(j) THEN job[j].revision \in Revisions ELSE attempt[j].state = "absent"
RevokedRule(j) ==
  /\ job[j].status = "failed" /\ job[j].error \in {"superseded", "stale"}
  /\ ~job[j].authorized

PageInv ==
  \A j, k \in Jobs : j # k /\ Exists(j) /\ Exists(k) => Older(j, k) \/ Older(k, j)
RequestInv == \A q \in Requests : request[q].step = "attempt" => Exists(request[q].job)
CallRule(c) ==
  /\ attempt[c.job].state # "absent"
  /\ c.step = "authorize" => ~attempt[c.job].consent
  /\ c.step = "stored" => attempt[c.job].authorized
  /\ c.step \in {"confirm", "repeat"} => job[c.job].authorized
CallInv == \A c \in calls : CallRule(c)
PermitInv == \A p \in permits : job[p[1]].authorized
RevokedInv == \A j \in revoked : RevokedRule(j)

IInv ==
  /\ TypeOK
  /\ \A j \in Jobs : RowRule(j)
  /\ PageInv /\ RequestInv /\ CallInv /\ PermitInv /\ RevokedInv

-----------------------------------------------------------------------------
(* Types *)

LEMMA RowTypes ==
  ASSUME TypeOK, NEW j \in Jobs
  PROVE  job[j] \in JobRow /\ attempt[j] \in AttemptRow
  BY DEF TypeOK

LEMMA CallTypes ==
  ASSUME TypeOK, NEW c \in calls
  PROVE  /\ c.job \in Jobs /\ c.token \in Tokens
         /\ \A step \in {"check", "consume", "authorize", "stored", "confirm"} :
              [c EXCEPT !.step = step] \in Calls
              /\ [c EXCEPT !.step = step].step = step
              /\ [c EXCEPT !.step = step].job = c.job
  BY DEF TypeOK, Calls

LEMMA RequestTypes ==
  ASSUME TypeOK, NEW q \in Requests
  PROVE  /\ request[q].step # "idle" =>
              /\ request[q].job \in Jobs /\ request[q].revision \in Revisions
              /\ \A step \in {"persist", "insert", "attempt"} :
                   LET r == [request[q] EXCEPT !.step = step]
                   IN  r \in RequestRow /\ r.job = request[q].job /\ r.step = step
         /\ Idle \in RequestRow /\ Idle.step = "idle"
  BY DEF TypeOK, RequestRow, Idle

(* Between two jobs, what allows the newer revision is their order. *)
LEMMA AllowsIsOlder ==
  ASSUME NEW j, NEW revision
  PROVE  AllowsNewerRevision(j, revision) <=> job[j].revision < revision /\ Spent(j)
  BY DEF AllowsNewerRevision, Spent

(* The rows that are written for a key the first time. *)
LEMMA NewRows ==
  /\ AbsentJob \in JobRow /\ AbsentAttempt \in AttemptRow
  /\ AbsentJob.status = "absent" /\ ~AbsentJob.authorized
  /\ AbsentAttempt.state = "absent" /\ ~AbsentAttempt.authorized
  /\ AbsentAttempt.token = 0 /\ ~AbsentAttempt.consent
  /\ Consent \in AttemptRow /\ Consent.state = "active" /\ ~Consent.authorized
  /\ \A revision \in Revisions :
       LET row == QueuedJob(revision)
       IN  /\ row \in JobRow /\ row.status = "queued" /\ row.revision = revision
           /\ ~row.authorized
  <1>1. /\ AbsentJob \in JobRow /\ AbsentJob.status = "absent"
        /\ AbsentJob.authorized = FALSE
    BY ReadyX3Assumption DEF AbsentJob, JobRow, Tokens
  <1>2. /\ AbsentAttempt \in AttemptRow /\ AbsentAttempt.state = "absent"
        /\ AbsentAttempt.authorized = FALSE /\ AbsentAttempt.token = 0
        /\ AbsentAttempt.consent = FALSE
    BY ReadyX3Assumption DEF AbsentAttempt, AttemptRow, Tokens
  <1>3. Consent \in AttemptRow /\ Consent.state = "active" /\ Consent.authorized = FALSE
    BY <1>2 DEF Consent, AttemptRow
  <1>4. ASSUME NEW revision \in Revisions
        PROVE  LET row == QueuedJob(revision)
               IN  /\ row \in JobRow /\ row.status = "queued" /\ row.revision = revision
                   /\ row.authorized = FALSE
    <2>1. revision \in 0..MaxRevision
      BY ReadyX3Assumption DEF Revisions
    <2>2. QueuedJob(revision) = [AbsentJob EXCEPT !.status = "queued", !.revision = revision]
      BY DEF QueuedJob
    <2> QED
      BY <1>1, <2>1, <2>2 DEF JobRow
  <1> QED
    BY <1>1, <1>2, <1>3, <1>4

LEMMA InitInv == Init => IInv
  <1> SUFFICES ASSUME Init PROVE IInv
    OBVIOUS
  <1>1. PICK stored \in SUBSET LegacyJobs :
          /\ Cardinality(stored) <= 1
          /\ job = [j \in Jobs |-> IF j \in stored THEN QueuedJob(1) ELSE AbsentJob]
          /\ attempt = [j \in Jobs |-> IF j \in stored THEN Consent ELSE AbsentAttempt]
    BY DEF Init
  <1>2. /\ QueuedJob(1) \in JobRow /\ AbsentJob \in JobRow
        /\ Consent \in AttemptRow /\ AbsentAttempt \in AttemptRow
        /\ QueuedJob(1).status = "queued" /\ AbsentJob.status = "absent"
        /\ ~QueuedJob(1).authorized /\ ~AbsentJob.authorized
        /\ ~Consent.authorized /\ ~AbsentAttempt.authorized
        /\ Consent.state = "active" /\ AbsentAttempt.state = "absent"
        /\ AbsentAttempt.token = 0 /\ ~AbsentAttempt.consent
        /\ QueuedJob(1).revision = 1 /\ 1 \in Revisions
    BY NewRows, ReadyX3Assumption DEF Revisions
  <1>3. TypeOK
    <2>1. job \in [Jobs -> JobRow] /\ attempt \in [Jobs -> AttemptRow]
      BY <1>1, <1>2
    <2>2. request \in [Requests -> RequestRow] /\ source \in Revisions
      BY ReadyX3Assumption DEF Init, RequestRow, Revisions
    <2> QED
      BY <2>1, <2>2 DEF Init, TypeOK
  <1>4. \A j \in Jobs : RowRule(j) /\ (Exists(j) => j \in stored)
    BY <1>1, <1>2 DEF RowRule, RowsAgree, Exists
  <1>5. \A j, k \in stored : j = k
    <2>1. SUFFICES ASSUME NEW j \in stored, NEW k \in stored, j # k PROVE FALSE
      OBVIOUS
    <2>2. IsFiniteSet(stored)
      BY <1>1, FS_Subset, ReadyX3Assumption
    <2>3. IsFiniteSet({j}) /\ Cardinality({j}) = 1
      BY FS_Singleton
    <2>4. Cardinality({j} \cup {k}) = 2
      BY <2>1, <2>3, FS_AddElement
    <2>5. Cardinality({j} \cup {k}) <= Cardinality(stored)
      BY <2>1, <2>2, FS_Subset
    <2> QED
      BY <1>1, <2>2, <2>4, <2>5, FS_CardinalityType
  <1> QED
    BY <1>3, <1>4, <1>5 DEF Init, IInv, PageInv, RequestInv, CallInv, PermitInv, RevokedInv,
       Idle

-----------------------------------------------------------------------------
(* What a step keeps of every key *)

(* A key keeps its revision and its authorizations, its attempt becomes no *)
(* consent again, and it stays spent unless every other job of the page is *)
(* older than it.                                                          *)
Keeps(j) ==
  /\ Exists(j)' <=> Exists(j)
  /\ job'[j].revision = job[j].revision
  /\ Spent(j) => Spent(j)' \/ \A k \in Jobs \ {j} : Exists(k) => Older(k, j)
  /\ job[j].authorized => job'[j].authorized
  /\ attempt[j].authorized => attempt'[j].authorized
  /\ attempt[j].state # "absent" =>
       attempt'[j].state # "absent" /\ (attempt'[j].consent => attempt[j].consent)
  /\ RowRule(j)'
  /\ j \in revoked' => RevokedRule(j)'

NewCalls == \A c \in calls' : c \in calls \/ CallRule(c)'
NewPermits == \A p \in permits' : p \in permits \/ job'[p[1]].authorized

LEMMA KeepsStep ==
  ASSUME IInv, TypeOK', \A j \in Jobs : Keeps(j), RequestInv', NewCalls, NewPermits
  PROVE  IInv'
  <1>1. PageInv'
    <2> SUFFICES ASSUME NEW j \in Jobs, NEW k \in Jobs, j # k, Exists(j)', Exists(k)'
                 PROVE  Older(j, k)' \/ Older(k, j)'
      BY DEF PageInv
    <2>1. /\ Exists(j) /\ Exists(k)
          /\ job'[j].revision = job[j].revision /\ job'[k].revision = job[k].revision
      BY DEF Keeps
    <2>2. job[j].revision \in Nat /\ job[k].revision \in Nat
      BY RowTypes, ReadyX3Assumption DEF IInv, JobRow
    <2>3. Older(j, k) \/ Older(k, j)
      BY <2>1 DEF IInv, PageInv
    <2>4. Older(j, k) => Spent(j)'
      BY <2>1, <2>2 DEF Keeps, Older
    <2>5. Older(k, j) => Spent(k)'
      BY <2>1, <2>2 DEF Keeps, Older
    <2> QED
      BY <2>1, <2>3, <2>4, <2>5 DEF Older
  <1>2. CallInv'
    BY CallTypes DEF IInv, CallInv, CallRule, NewCalls, Keeps
  <1>3. PermitInv'
    <2>1. \A p \in permits : p[1] \in Jobs
      BY DEF IInv, TypeOK
    <2> QED
      BY <2>1 DEF IInv, PermitInv, NewPermits, Keeps
  <1>4. RevokedInv'
    BY DEF TypeOK, RevokedInv, Keeps
  <1> QED
    BY <1>1, <1>2, <1>3, <1>4 DEF IInv, Keeps

(* A key whose rows did not change, and that was not revoked. *)
LEMMA SameRows ==
  ASSUME IInv, NEW k \in Jobs, job'[k] = job[k], attempt'[k] = attempt[k],
         k \in revoked' => k \in revoked
  PROVE  Keeps(k)
  BY DEF IInv, Keeps, Exists, Spent, RowRule, RowsAgree, RevokedInv, RevokedRule

LEMMA SameRequests ==
  ASSUME IInv, \A j \in Jobs : Keeps(j), request' = request
  PROVE  RequestInv'
  <1>1. \A q \in Requests : request[q].step = "attempt" => request[q].job \in Jobs
    BY RequestTypes DEF IInv
  <1> QED
    BY <1>1 DEF IInv, RequestInv, Keeps

-----------------------------------------------------------------------------
(* Steps that leave the rows alone *)

LEMMA QuietStep ==
  ASSUME IInv, UNCHANGED <<rows, revoked>>,
         source' \in Revisions, lock' \in Requests \cup {Free},
         request' \in [Requests -> RequestRow],
         \A q \in Requests : request'[q] = request[q]
                             \/ request'[q].step # "attempt" \/ Exists(request'[q].job),
         calls' \subseteq Calls, permits' \subseteq Jobs \X Tokens, NewCalls, NewPermits
  PROVE  IInv'
  <1>1. TypeOK'
    BY DEF IInv, TypeOK, rows
  <1>2. \A j \in Jobs : Keeps(j)
    BY SameRows DEF rows
  <1>3. RequestInv'
    BY DEF IInv, RequestInv, rows, Exists
  <1> QED
    BY <1>1, <1>2, <1>3, KeepsStep

LEMMA SameCalls ==
  ASSUME IInv, calls' \subseteq calls
  PROVE  calls' \subseteq Calls /\ NewCalls
  BY DEF IInv, TypeOK, NewCalls

LEMMA SamePermits ==
  ASSUME IInv, permits' = permits
  PROVE  permits' \subseteq Jobs \X Tokens /\ NewPermits
  BY DEF IInv, TypeOK, NewPermits

LEMMA EndedRequest ==
  ASSUME IInv, NEW q \in Requests, EndRequest(q)
  PROVE  /\ request' \in [Requests -> RequestRow]
         /\ lock' \in Requests \cup {Free}
         /\ \A r \in Requests : request'[r] = request[r] \/ request'[r].step # "attempt"
  BY RequestTypes DEF IInv, TypeOK, EndRequest

LEMMA SteppedRequest ==
  ASSUME IInv, NEW q \in Requests, request[q].step # "idle",
         NEW step \in {"persist", "insert", "attempt"}, Step(q, step)
  PROVE  /\ request' \in [Requests -> RequestRow]
         /\ request'[q].step = step /\ request'[q].job = request[q].job
         /\ \A r \in Requests \ {q} : request'[r] = request[r]
  <1> DEFINE row == [request[q] EXCEPT !.step = step]
  <1>1. row \in RequestRow /\ row.job = request[q].job /\ row.step = step
    BY RequestTypes DEF IInv
  <1>2. request' = [request EXCEPT ![q] = row]
    BY DEF Step
  <1> HIDE DEF row
  <1> QED
    BY <1>1, <1>2 DEF IInv, TypeOK

LEMMA AuthorizeStep ==
  ASSUME IInv, NEW q \in Requests, NEW j \in Jobs, Authorize(q, j)
  PROVE  IInv'
  <1> DEFINE row == IF Exists(j)
               THEN [step |-> "attempt", job |-> j, revision |-> job[j].revision,
                     locks |-> FALSE]
               ELSE [step |-> "lock", job |-> j, revision |-> source, locks |-> TRUE]
  <1>1. request' = [request EXCEPT ![q] = row]
        /\ UNCHANGED <<source, lock, rows, calls, permits, revoked>>
    BY DEF Authorize
  <1>2. row \in RequestRow /\ (row.step = "attempt" => Exists(row.job))
    BY DEF RequestRow, IInv, TypeOK, RowRule
  <1> HIDE DEF row
  <1>3. /\ request' \in [Requests -> RequestRow]
        /\ \A r \in Requests : request'[r] = request[r] \/ request'[r] = row
    BY <1>1, <1>2 DEF IInv, TypeOK
  <1>4. source' \in Revisions /\ lock' \in Requests \cup {Free}
    BY <1>1 DEF IInv, TypeOK
  <1> QED
    BY <1>1, <1>2, <1>3, <1>4, SameCalls, SamePermits, QuietStep

LEMMA LockSteps ==
  ASSUME IInv, NEW q \in Requests, TakeLock(q) \/ FindRaced(q) \/ AbandonRequest(q)
  PROVE  IInv'
  <1>1. /\ UNCHANGED <<source, rows, calls, permits, revoked>>
        /\ source' \in Revisions
    BY DEF TakeLock, FindRaced, AbandonRequest, IInv, TypeOK
  <1>2. CASE TakeLock(q)
    <2>1. /\ request[q].step # "idle" /\ Step(q, "persist") /\ lock' \in Requests \cup {Free}
      BY <1>2 DEF TakeLock
    <2>2. \A r \in Requests : request'[r] = request[r] \/ request'[r].step # "attempt"
      BY <2>1, SteppedRequest
    <2> QED
      BY <1>1, <2>1, <2>2, SteppedRequest, SameCalls, SamePermits, QuietStep
  <1>3. CASE EndRequest(q)
    BY <1>1, <1>3, EndedRequest, SameCalls, SamePermits, QuietStep
  <1>4. CASE FindRaced(q) /\ ~EndRequest(q)
    <2>1. /\ request[q].step # "idle" /\ Exists(request[q].job) /\ Step(q, "attempt")
          /\ lock' \in Requests \cup {Free}
      BY <1>4 DEF FindRaced, IInv, TypeOK
    <2>2. \A r \in Requests : request'[r] = request[r] \/ Exists(request'[r].job)
      BY <2>1, SteppedRequest
    <2> QED
      BY <1>1, <2>1, <2>2, SteppedRequest, SameCalls, SamePermits, QuietStep
  <1> QED
    BY <1>2, <1>3, <1>4 DEF AbandonRequest

LEMMA OutsideStep ==
  ASSUME IInv,
         \/ EditPost \/ LoseLock
         \/ \E j \in Jobs : Reclaim(j) \/ AskPermit(j)
         \/ \E c \in calls : AbandonCall(c) \/ Confirm(c)
  PROVE  IInv'
  <1>1. /\ UNCHANGED <<request, rows, revoked>>
        /\ request' \in [Requests -> RequestRow]
        /\ \A q \in Requests : request'[q] = request[q]
    BY DEF EditPost, LoseLock, Reclaim, AskPermit, AbandonCall, Confirm, IInv, TypeOK
  <1>2. source' \in Revisions /\ lock' \in Requests \cup {Free}
    BY ReadyX3Assumption DEF EditPost, LoseLock, Reclaim, AskPermit, AbandonCall,
       Confirm, IInv, TypeOK, Revisions
  <1>3. calls' \subseteq Calls /\ NewCalls
    <2>1. ASSUME NEW j \in Jobs, Reclaim(j) \/ AskPermit(j)
          PROVE  calls' \subseteq Calls /\ NewCalls
      <3> DEFINE step == IF job[j].status = "claimed" THEN "inspect"
                         ELSE IF job[j].authorized THEN "repeat" ELSE "recheck"
      <3>1. PICK d \in {Call("bind", j, job[j].token), Call(step, j, job[j].token)} :
              calls' = calls \cup {d} /\ Working(j) /\ UNCHANGED rows
        BY <2>1 DEF Reclaim, AskPermit, Starts, Working
      <3>2. /\ step \in {"inspect", "repeat", "recheck"}
            /\ step = "repeat" => job[j].authorized
        OBVIOUS
      <3> HIDE DEF step
      <3>3. /\ d \in Calls /\ d.job = j /\ d.step \in {"bind", step}
        BY <3>1, <3>2, RowTypes DEF IInv, JobRow, Call, Calls
      <3>4. attempt[j].state # "absent"
        BY <3>1 DEF IInv, RowRule, RowsAgree, Working
      <3>5. CallRule(d)'
        BY <3>1, <3>2, <3>3, <3>4 DEF CallRule, rows
      <3> QED
        BY <3>1, <3>3, <3>5 DEF IInv, TypeOK, NewCalls
    <2>2. CASE calls' \subseteq calls
      BY <2>2, SameCalls
    <2> QED
      BY <2>1, <2>2 DEF EditPost, LoseLock, AbandonCall, Confirm, Ends
  <1>4. permits' \subseteq Jobs \X Tokens /\ NewPermits
    <2>1. ASSUME NEW c \in calls, Confirm(c)
          PROVE  permits' \subseteq Jobs \X Tokens /\ NewPermits
      <3>1. permits' \subseteq permits \cup {<<c.job, c.token>>} /\ job' = job
        BY <2>1 DEF Confirm, Permit, rows
      <3>2. <<c.job, c.token>> \in Jobs \X Tokens /\ job[c.job].authorized
        BY <2>1, CallTypes DEF Confirm, IInv, CallInv, CallRule
      <3> QED
        BY <3>1, <3>2 DEF IInv, TypeOK, NewPermits
    <2>2. CASE permits' = permits
      BY <2>2, SamePermits
    <2> QED
      BY <2>1, <2>2
      DEF EditPost, LoseLock, Reclaim, AskPermit, AbandonCall
  <1> QED
    BY <1>1, <1>2, <1>3, <1>4, QuietStep

-----------------------------------------------------------------------------
(* Steps of a worker on one key *)

LEMMA WorkerStep ==
  ASSUME IInv, NEW j \in Jobs,
         NEW row \in JobRow, NEW arow \in AttemptRow,
         job' = [job EXCEPT ![j] = row], attempt' = [attempt EXCEPT ![j] = arow],
         Exists(j), row.status # "absent", row.revision = job[j].revision,
         job[j].authorized => row.authorized,
         attempt[j].authorized => arow.authorized,
         attempt[j].state # "absent" =>
           arow.state # "absent" /\ (arow.consent => attempt[j].consent),
         RowsAgree(row, arow),
         \/ ~Spent(j)
         \/ /\ row.status = "failed" /\ ~row.staged /\ ~row.authorized
            /\ arow.state = "closed" /\ arow.outcome = attempt[j].outcome
            /\ ~arow.authorized
         \/ \A k \in Jobs \ {j} : Exists(k) => Older(k, j),
         revoked' \subseteq revoked \cup {j},
         j \in revoked' => /\ row.status = "failed" /\ ~row.authorized
                           /\ row.error \in {"superseded", "stale"},
         UNCHANGED <<source, request>>, lock' \in Requests \cup {Free},
         calls' \subseteq Calls, NewCalls,
         permits' \subseteq Jobs \X Tokens, NewPermits
  PROVE  IInv'
  <1>1. TypeOK'
    BY DEF IInv, TypeOK
  <1>2. /\ job'[j] = row /\ attempt'[j] = arow
        /\ \A k \in Jobs \ {j} : job'[k] = job[k] /\ attempt'[k] = attempt[k]
    BY DEF IInv, TypeOK
  <1>3. RowRule(j)'
    <2>1. RowsAgree(job[j], attempt[j])'
      BY <1>2 DEF RowsAgree
    <2> QED
      BY <1>2, <2>1 DEF RowRule, Exists, IInv
  <1>4. Keeps(j)
    BY <1>2, <1>3 DEF Keeps, Exists, Spent, RevokedRule
  <1>5. \A k \in Jobs : Keeps(k)
    BY <1>2, <1>4, SameRows
  <1>6. RequestInv'
    BY <1>5, SameRequests
  <1> QED
    BY <1>1, <1>5, <1>6, KeepsStep

(* The call that goes on needs nothing of an authorization. *)
LEMMA CallGoesOn ==
  ASSUME IInv, NEW d \in Calls, calls' \subseteq calls \cup {d},
         attempt'[d.job].state # "absent",
         d.step \notin {"authorize", "stored", "confirm", "repeat"}
  PROVE  calls' \subseteq Calls /\ NewCalls
  BY DEF IInv, TypeOK, NewCalls, CallRule

(* A key that is worked on is neither spent nor revoked. *)
LEMMA Worked ==
  ASSUME IInv, NEW j \in Jobs, job[j].status \in {"queued", "claimed", "staged"}
  PROVE  /\ Exists(j) /\ ~Spent(j) /\ j \notin revoked
         /\ job[j] \in JobRow /\ attempt[j] \in AttemptRow
         /\ RowsAgree(job[j], attempt[j])
  BY RowTypes DEF IInv, Exists, Spent, RevokedInv, RevokedRule, RowRule

(* An attempt that is there keeps its agreement with the job when neither  *)
(* an authorization nor the kind of either row changes.                    *)
LEMMA AgreementKept ==
  ASSUME NEW row, NEW arow, NEW new, NEW anew, RowsAgree(row, arow),
         new.authorized <=> row.authorized, anew.authorized <=> arow.authorized,
         anew.consent <=> arow.consent, anew.state # "absent"
  PROVE  RowsAgree(new, anew)
  BY DEF RowsAgree

LEMMA ClaimStep ==
  ASSUME IInv, NEW j \in Jobs, Claim(j)
  PROVE  IInv'
  <1> DEFINE t == job[j].claims + 1
             row == [job[j] EXCEPT !.status = "claimed", !.claims = t, !.token = t,
                                   !.leased = TRUE, !.error = "none"]
             d == Call("bind", j, t)
  <1>1. /\ job' = [job EXCEPT ![j] = row] /\ attempt' = [attempt EXCEPT ![j] = attempt[j]]
        /\ attempt' = attempt
        /\ calls' \subseteq calls \cup {d}
        /\ UNCHANGED <<source, lock, request, permits, revoked>>
    BY DEF Claim, Starts, IInv, TypeOK
  <1>2. job[j].status = "queued" /\ attempt[j].state = "active"
    BY DEF Claim, Open
  <1>3. t \in Tokens
    BY RowTypes, ReadyX3Assumption DEF Claim, IInv, JobRow, Tokens
  <1> HIDE DEF t
  <1>4. d \in Calls /\ d.step = "bind" /\ d.job = j
    BY <1>3 DEF Call, Calls
  <1>5. /\ row \in JobRow /\ row.status = "claimed" /\ row.revision = job[j].revision
        /\ row.authorized <=> job[j].authorized
    BY <1>2, <1>3, Worked DEF JobRow
  <1> HIDE DEF row, d
  <1>6. lock' \in Requests \cup {Free}
    BY <1>1 DEF IInv, TypeOK
  <1>7. RowsAgree(row, attempt[j])
    BY <1>2, <1>5, Worked, AgreementKept
  <1>8. calls' \subseteq Calls /\ NewCalls
    BY <1>1, <1>2, <1>4, CallGoesOn
  <1> QED
    BY <1>1, <1>2, <1>5, <1>6, <1>7, <1>8, SamePermits, Worked, WorkerStep

(* A step that writes the attempt of a job, open until then, and not the   *)
(* job.                                                                    *)
LEMMA OpenAttemptStep ==
  ASSUME IInv, NEW j \in Jobs, Open(j), NEW arow \in AttemptRow,
         attempt' = [attempt EXCEPT ![j] = arow],
         arow.state # "absent", arow.consent <=> attempt[j].consent,
         attempt[j].authorized => arow.authorized,
         arow.consent => (arow.authorized <=> attempt[j].authorized),
         UNCHANGED <<source, lock, request, job, permits, revoked>>,
         calls' \subseteq Calls, NewCalls
  PROVE  IInv'
  <1>1. /\ job[j] \in JobRow /\ job' = [job EXCEPT ![j] = job[j]]
        /\ lock' \in Requests \cup {Free}
    BY RowTypes DEF IInv, TypeOK
  <1>2. /\ Exists(j) /\ ~Spent(j)
        /\ RowsAgree(job[j], attempt[j])
        /\ j \in revoked => RevokedRule(j)
    BY DEF IInv, RowRule, Open, Spent, RevokedInv
  <1>3. RowsAgree(job[j], arow)
    BY <1>2 DEF RowsAgree
  <1> QED
    BY <1>1, <1>2, <1>3, SamePermits, WorkerStep DEF Exists, RevokedRule

LEMMA BindStep ==
  ASSUME IInv, NEW c \in calls, Bind(c)
  PROVE  IInv'
  <1> DEFINE j == c.job
             arow == [attempt[j] EXCEPT !.token = c.token, !.leased = TRUE]
             d == [c EXCEPT !.step = "check"]
  <1>1. /\ UNCHANGED <<source, lock, request, job, permits, revoked>>
        /\ lock' \in Requests \cup {Free} /\ source' \in Revisions
        /\ request' \in [Requests -> RequestRow]
        /\ j \in Jobs /\ c.token \in Tokens
    BY CallTypes DEF Bind, IInv, TypeOK
  <1>2. CASE attempt' = attempt /\ Ends(c)
    BY <1>1, <1>2, SameCalls, SamePermits, QuietStep DEF Ends, rows
  <1>3. CASE Open(j) /\ attempt' = [attempt EXCEPT ![j] = arow] /\ Continues(c, "check")
    <2>1. d \in Calls /\ d.step = "check" /\ d.job = j /\ calls' \subseteq calls \cup {d}
      BY <1>3, CallTypes DEF Continues, IInv
    <2>2. attempt[j] \in AttemptRow /\ attempt[j].state = "active"
      BY <1>1, <1>3, RowTypes DEF Open, IInv
    <2>3. /\ arow \in AttemptRow /\ arow.state = "active"
          /\ arow.authorized <=> attempt[j].authorized
          /\ arow.consent <=> attempt[j].consent
      BY <1>1, <2>2 DEF AttemptRow
    <2>4. attempt'[j] = arow
      BY <1>1, <1>3 DEF IInv, TypeOK
    <2> HIDE DEF arow, d, j
    <2>5. calls' \subseteq Calls /\ NewCalls
      BY <2>1, <2>3, <2>4, CallGoesOn
    <2> QED
      BY <1>1, <1>3, <2>3, <2>5, OpenAttemptStep
  <1> QED
    BY <1>2, <1>3 DEF Bind

(* A packet that changed: the claim is closed as far as its rows allow. *)
LEMMA InvalidateStep ==
  ASSUME IInv, NEW j \in Jobs, NEW t,
         InvalidateSource(j, t) \/ InvalidateBatchItem(j, t), calls' \subseteq calls,
         UNCHANGED <<source, lock, request, permits>>
  PROVE  IInv'
  <1>1. /\ calls' \subseteq Calls /\ NewCalls /\ lock' \in Requests \cup {Free}
        /\ permits' \subseteq Jobs \X Tokens /\ NewPermits
        /\ source' \in Revisions /\ request' \in [Requests -> RequestRow]
    BY SameCalls, SamePermits DEF IInv, TypeOK
  <1>2. CASE UNCHANGED <<rows, revoked>>
    BY <1>1, <1>2, QuietStep
  <1>3. CASE /\ Working(j) /\ ~job[j].authorized
             /\ attempt' = [attempt EXCEPT ![j].state = "closed", ![j].leased = FALSE,
                                           ![j].outcome = "known_failed"]
             /\ Close({j}, "stale")
    <2> DEFINE row == [job[j] EXCEPT !.status = "failed", !.error = "stale"]
               arow == [attempt[j] EXCEPT !.state = "closed", !.leased = FALSE,
                                          !.outcome = "known_failed"]
    <2>1. /\ Exists(j) /\ ~Spent(j)
          /\ job[j] \in JobRow /\ attempt[j] \in AttemptRow
          /\ RowsAgree(job[j], attempt[j])
      BY <1>3, Worked DEF Working
    <2>2. /\ job' = [job EXCEPT ![j] = row] /\ attempt' = [attempt EXCEPT ![j] = arow]
          /\ revoked' = revoked \cup {j}
      BY <1>3 DEF Close, IInv, TypeOK
    <2>3. /\ row \in JobRow /\ row.status = "failed" /\ row.error = "stale"
          /\ row.revision = job[j].revision /\ (row.authorized <=> job[j].authorized)
          /\ arow \in AttemptRow /\ arow.state = "closed"
          /\ arow.consent <=> attempt[j].consent
          /\ arow.authorized <=> attempt[j].authorized
      BY <2>1 DEF JobRow, AttemptRow
    <2> HIDE DEF row, arow
    <2>4. RowsAgree(row, arow)
      BY <2>1, <2>3, AgreementKept
    <2> QED
      BY <1>1, <1>3, <2>1, <2>2, <2>3, <2>4, WorkerStep
  <1>4. CASE Working(j) /\ InvalidateBatchItem(j, t)
    <2> DEFINE row == IF Working(j) /\ job[j].token = t /\ job[j].leased
                        THEN [job[j] EXCEPT !.status = "failed", !.error = "stale"]
                        ELSE job[j]
    <2>1. /\ Exists(j) /\ ~Spent(j) /\ j \notin revoked
          /\ job[j] \in JobRow /\ attempt[j] \in AttemptRow
          /\ RowsAgree(job[j], attempt[j]) /\ attempt[j].state # "absent"
      BY <1>4, Worked DEF Working, RowsAgree
    <2>2. /\ job' = [job EXCEPT ![j] = row] /\ attempt' = [attempt EXCEPT ![j] = attempt[j]]
          /\ revoked' = revoked
      BY <1>4 DEF InvalidateBatchItem, IInv, TypeOK
    <2>3. /\ row \in JobRow /\ row.status # "absent"
          /\ row.revision = job[j].revision /\ (row.authorized <=> job[j].authorized)
      BY <2>1 DEF JobRow, Exists
    <2> HIDE DEF row
    <2>4. RowsAgree(row, attempt[j])
      BY <2>1, <2>3, AgreementKept
    <2> QED
      BY <1>1, <2>1, <2>2, <2>3, <2>4, WorkerStep
  <1>5. CASE ~Working(j) /\ InvalidateBatchItem(j, t)
    <2>1. job' = job /\ UNCHANGED <<attempt, revoked>>
      BY <1>5 DEF InvalidateBatchItem, IInv, TypeOK
    <2> QED
      BY <1>2, <2>1 DEF rows
  <1> QED
    BY <1>2, <1>3, <1>4, <1>5 DEF InvalidateSource

LEMMA CheckSteps ==
  ASSUME IInv, NEW c \in calls, CheckClaim(c) \/ Recheck(c)
  PROVE  IInv'
  <1>1. /\ UNCHANGED <<source, lock, request>>
        /\ lock' \in Requests \cup {Free} /\ source' \in Revisions
        /\ request' \in [Requests -> RequestRow]
        /\ c.job \in Jobs /\ c.token \in Tokens
    BY CallTypes DEF CheckClaim, Recheck, IInv, TypeOK
  <1>2. CASE /\ InvalidateSource(c.job, c.token) \/ InvalidateBatchItem(c.job, c.token)
             /\ Ends(c) /\ UNCHANGED permits
    BY <1>1, <1>2, InvalidateStep DEF Ends
  <1>3. CASE UNCHANGED <<rows, revoked, permits>> /\ Ends(c)
    BY <1>1, <1>3, SameCalls, SamePermits, QuietStep DEF Ends
  <1>4. CASE /\ UNCHANGED <<rows, revoked, permits>>
             /\ Continues(c, IF attempt[c.job].consent THEN "consume" ELSE "authorize")
    <2>1. PICK step \in {"consume", "authorize"} :
            /\ Continues(c, step)
            /\ step = "authorize" => ~attempt[c.job].consent
      BY <1>4
    <2> DEFINE d == [c EXCEPT !.step = step]
    <2>2. d \in Calls /\ d.step = step /\ d.job = c.job
      BY CallTypes DEF IInv
    <2>3. /\ calls' \subseteq calls \cup {d}
          /\ attempt'[c.job] = attempt[c.job] /\ attempt[c.job].state # "absent"
      BY <1>4, <2>1 DEF Continues, rows, IInv, CallInv, CallRule
    <2> HIDE DEF d
    <2>4. CallRule(d)'
      BY <2>1, <2>2, <2>3 DEF CallRule
    <2>5. calls' \subseteq Calls /\ NewCalls
      BY <2>2, <2>3, <2>4 DEF IInv, TypeOK, NewCalls
    <2> QED
      BY <1>1, <1>4, <2>5, SamePermits, QuietStep
  <1>5. CASE UNCHANGED <<rows, revoked>> /\ c.step = "repeat" /\ Permit(c) /\ Ends(c)
    <2>1. /\ permits' = permits \cup {<<c.job, c.token>>} /\ job' = job
          /\ job[c.job].authorized
      BY <1>5 DEF Permit, rows, IInv, CallInv, CallRule
    <2>2. permits' \subseteq Jobs \X Tokens /\ NewPermits
      BY <1>1, <2>1 DEF IInv, TypeOK, NewPermits
    <2> QED
      BY <1>1, <1>5, <2>2, SameCalls, QuietStep DEF Ends
  <1> QED
    BY <1>2, <1>3, <1>4, <1>5 DEF CheckClaim, Recheck

(* A consent's authorization is written to both rows. *)
LEMMA ConsumeConsentStep ==
  ASSUME IInv, NEW c \in calls, ConsumeConsent(c)
  PROVE  IInv'
  <1> DEFINE j == c.job
             row == [job[j] EXCEPT !.authorized = TRUE]
             arow == [attempt[j] EXCEPT !.authorized = TRUE]
             d == [c EXCEPT !.step = "stored"]
  <1>1. /\ UNCHANGED <<source, lock, request, permits, revoked>>
        /\ lock' \in Requests \cup {Free} /\ source' \in Revisions
        /\ request' \in [Requests -> RequestRow]
        /\ j \in Jobs
    BY CallTypes DEF ConsumeConsent, IInv, TypeOK
  <1>2. CASE UNCHANGED rows /\ Ends(c)
    BY <1>1, <1>2, SameCalls, SamePermits, QuietStep DEF Ends
  <1>3. CASE /\ Holding(j, c.token) /\ Open(j)
             /\ job' = [job EXCEPT ![j] = row] /\ attempt' = [attempt EXCEPT ![j] = arow]
             /\ Continues(c, "stored")
    <2>1. /\ Exists(j) /\ ~Spent(j) /\ j \notin revoked
          /\ job[j] \in JobRow /\ attempt[j] \in AttemptRow
      BY <1>1, <1>3, Worked DEF Holding
    <2>2. /\ row \in JobRow /\ row.status = "staged" /\ row.authorized
          /\ row.revision = job[j].revision
          /\ arow \in AttemptRow /\ arow.state = "active" /\ arow.authorized
          /\ arow.consent <=> attempt[j].consent
      BY <1>3, <2>1 DEF JobRow, AttemptRow, Open, Holding
    <2>3. d \in Calls /\ d.job = j /\ d.step = "stored" /\ calls' \subseteq calls \cup {d}
      BY <1>3, CallTypes DEF Continues, IInv
    <2>4. attempt'[j] = arow
      BY <1>1, <1>3 DEF IInv, TypeOK
    <2> HIDE DEF row, arow, d, j
    <2>5. calls' \subseteq Calls /\ NewCalls
      BY <2>2, <2>3, <2>4 DEF IInv, TypeOK, NewCalls, CallRule
    <2>6. RowsAgree(row, arow)
      BY <2>2 DEF RowsAgree
    <2> QED
      BY <1>1, <1>3, <2>1, <2>2, <2>5, <2>6, SamePermits, WorkerStep
  <1> QED
    BY <1>2, <1>3 DEF ConsumeConsent, Authorizable

(* A reclassified job's is written to its attempt first, *)
LEMMA AuthorizeAttemptStep ==
  ASSUME IInv, NEW c \in calls, AuthorizeAttempt(c)
  PROVE  IInv'
  <1> DEFINE j == c.job
             arow == [attempt[j] EXCEPT !.authorized = TRUE]
             d == [c EXCEPT !.step = "stored"]
  <1>1. /\ UNCHANGED <<source, lock, request, job, permits, revoked>>
        /\ lock' \in Requests \cup {Free} /\ source' \in Revisions
        /\ request' \in [Requests -> RequestRow]
        /\ j \in Jobs /\ ~attempt[j].consent
    BY CallTypes DEF AuthorizeAttempt, IInv, TypeOK, CallInv, CallRule
  <1>2. CASE attempt' = attempt /\ Ends(c)
    BY <1>1, <1>2, SameCalls, SamePermits, QuietStep DEF Ends, rows
  <1>3. CASE Open(j) /\ attempt' = [attempt EXCEPT ![j] = arow] /\ Continues(c, "stored")
    <2>1. d \in Calls /\ d.step = "stored" /\ d.job = j /\ calls' \subseteq calls \cup {d}
      BY <1>3, CallTypes DEF Continues, IInv
    <2>2. attempt[j] \in AttemptRow /\ attempt[j].state = "active"
      BY <1>1, <1>3, RowTypes DEF Open, IInv
    <2>3. /\ arow \in AttemptRow /\ arow.state = "active" /\ arow.authorized
          /\ arow.consent <=> attempt[j].consent
      BY <1>1, <2>2 DEF AttemptRow
    <2>4. attempt'[j] = arow
      BY <1>1, <1>3 DEF IInv, TypeOK
    <2> HIDE DEF arow, d, j
    <2>5. calls' \subseteq Calls /\ NewCalls
      BY <2>1, <2>3, <2>4 DEF IInv, TypeOK, NewCalls, CallRule
    <2> QED
      BY <1>1, <1>3, <2>3, <2>5, OpenAttemptStep
  <1> QED
    BY <1>2, <1>3 DEF AuthorizeAttempt, Authorizable

(* and to the job if a claim still holds it.                               *)
LEMMA StoreAuthorizationStep ==
  ASSUME IInv, NEW c \in calls, StoreAuthorization(c)
  PROVE  IInv'
  <1> DEFINE j == c.job
             row == [job[j] EXCEPT !.authorized = TRUE]
             d == [c EXCEPT !.step = "confirm"]
  <1>1. /\ UNCHANGED <<source, lock, request, attempt, permits, revoked>>
        /\ lock' \in Requests \cup {Free} /\ source' \in Revisions
        /\ request' \in [Requests -> RequestRow]
        /\ j \in Jobs /\ attempt[j].authorized /\ attempt[j].state # "absent"
    BY CallTypes DEF StoreAuthorization, IInv, TypeOK, CallInv, CallRule
  <1>2. CASE job' = job /\ Ends(c)
    BY <1>1, <1>2, SameCalls, SamePermits, QuietStep DEF Ends, rows
  <1>3. CASE /\ Holding(j, c.token) /\ job' = [job EXCEPT ![j] = row]
             /\ Continues(c, "confirm")
    <2>1. /\ Exists(j) /\ ~Spent(j) /\ j \notin revoked
          /\ job[j] \in JobRow /\ attempt[j] \in AttemptRow
          /\ attempt' = [attempt EXCEPT ![j] = attempt[j]]
      BY <1>1, <1>3, Worked DEF Holding, IInv, TypeOK
    <2>2. /\ row \in JobRow /\ row.status = "staged" /\ row.authorized
          /\ row.revision = job[j].revision
      BY <1>3, <2>1 DEF JobRow, Holding
    <2>3. d \in Calls /\ d.job = j /\ d.step = "confirm" /\ calls' \subseteq calls \cup {d}
      BY <1>3, CallTypes DEF Continues, IInv
    <2>4. job'[j] = row
      BY <1>1, <1>3 DEF IInv, TypeOK
    <2> HIDE DEF row, d, j
    <2>5. calls' \subseteq Calls /\ NewCalls
      BY <1>1, <2>2, <2>3, <2>4 DEF IInv, TypeOK, NewCalls, CallRule
    <2>6. RowsAgree(row, attempt[j])
      BY <1>1, <2>2 DEF RowsAgree
    <2> QED
      BY <1>1, <1>3, <2>1, <2>2, <2>5, <2>6, SamePermits, WorkerStep
  <1> QED
    BY <1>2, <1>3 DEF StoreAuthorization

LEMMA NoToken == 0 \in Tokens
  BY ReadyX3Assumption DEF Tokens

(* The worker's other steps on a job it works on. *)
LEMMA WorkedStep ==
  ASSUME IInv, NEW j \in Jobs, Working(j),
         NEW row \in JobRow, NEW arow \in AttemptRow,
         job' = [job EXCEPT ![j] = row], attempt' = [attempt EXCEPT ![j] = arow],
         row.status # "absent", row.revision = job[j].revision,
         row.authorized <=> job[j].authorized,
         arow.authorized <=> attempt[j].authorized,
         arow.consent <=> attempt[j].consent,
         arow.state \in {attempt[j].state, "closed"},
         UNCHANGED <<source, lock, request, permits, revoked>>,
         calls' \subseteq Calls, NewCalls
  PROVE  IInv'
  <1>1. /\ lock' \in Requests \cup {Free}
        /\ job[j].status \in {"queued", "claimed", "staged"}
    BY DEF IInv, TypeOK, Working
  <1>2. RowsAgree(job[j], attempt[j]) /\ attempt[j].state # "absent"
    BY <1>1, Worked DEF Working, RowsAgree
  <1>3. arow.state # "absent"
    BY <1>2
  <1>4. RowsAgree(row, arow)
    BY <1>2, <1>3, AgreementKept
  <1> QED
    BY <1>1, <1>3, <1>4, Worked, SamePermits, WorkerStep

LEMMA StageStep ==
  ASSUME IInv, NEW j \in Jobs, Stage(j)
  PROVE  IInv'
  <1> DEFINE row == [job[j] EXCEPT !.status = "staged", !.staged = TRUE]
  <1>1. /\ Working(j) /\ job' = [job EXCEPT ![j] = row]
        /\ attempt' = [attempt EXCEPT ![j] = attempt[j]]
        /\ UNCHANGED <<source, lock, request, permits, revoked>> /\ calls' \subseteq calls
        /\ job[j] \in JobRow /\ attempt[j] \in AttemptRow
    BY RowTypes DEF Stage, Working, IInv, TypeOK
  <1>2. /\ row \in JobRow /\ row.status = "staged" /\ row.revision = job[j].revision
        /\ row.authorized <=> job[j].authorized
    BY <1>1 DEF JobRow
  <1> HIDE DEF row
  <1> QED
    BY <1>1, <1>2, SameCalls, WorkedStep

(* A failure is reported of any attempt a claim was bound to; one that was *)
(* closed as failed before stays what it was.                              *)
LEMMA FailAttemptStep ==
  ASSUME IInv, NEW j \in Jobs, FailAttempt(j)
  PROVE  IInv'
  <1> DEFINE arow == [attempt[j] EXCEPT !.state = "closed", !.leased = FALSE,
                                        !.outcome = "known_failed"]
             d == Call("fail", j, attempt[j].token)
  <1>1. /\ job' = [job EXCEPT ![j] = job[j]] /\ job' = job
        /\ attempt' = [attempt EXCEPT ![j] = arow] /\ attempt'[j] = arow
        /\ UNCHANGED <<source, lock, request, permits, revoked>>
        /\ calls' \subseteq calls \cup {d}
        /\ job[j] \in JobRow /\ attempt[j] \in AttemptRow
        /\ attempt[j].token # 0 /\ attempt[j].outcome \in {"none", "known_failed"}
    BY RowTypes DEF FailAttempt, Starts, IInv, TypeOK
  <1>2. /\ RowsAgree(job[j], attempt[j]) /\ attempt[j].state # "absent" /\ Exists(j)
        /\ j \in revoked => RevokedRule(j)
    BY <1>1 DEF IInv, RowRule, RowsAgree, RevokedInv
  <1>3. /\ arow \in AttemptRow /\ arow.state = "closed" /\ arow.outcome = "known_failed"
        /\ arow.consent <=> attempt[j].consent
        /\ arow.authorized <=> attempt[j].authorized
    BY <1>1 DEF AttemptRow
  <1>4. d \in Calls /\ d.step = "fail" /\ d.job = j
    BY <1>1 DEF AttemptRow, Call, Calls
  <1> HIDE DEF arow, d
  <1>5. calls' \subseteq Calls /\ NewCalls
    BY <1>1, <1>3, <1>4, CallGoesOn
  <1>6. RowsAgree(job[j], arow)
    BY <1>2, <1>3, AgreementKept
  <1>7. Spent(j) => /\ job[j].status = "failed" /\ ~job[j].staged /\ ~job[j].authorized
                    /\ arow.outcome = attempt[j].outcome /\ ~arow.authorized
    BY <1>1, <1>3 DEF Spent
  <1>8. lock' \in Requests \cup {Free}
    BY <1>1 DEF IInv, TypeOK
  <1> QED
    BY <1>1, <1>2, <1>3, <1>5, <1>6, <1>7, <1>8, SamePermits, WorkerStep
    DEF Exists, RevokedRule

LEMMA FailJobStep ==
  ASSUME IInv, NEW c \in calls, FailJob(c)
  PROVE  IInv'
  <1> DEFINE j == c.job
  <1>1. /\ UNCHANGED <<source, lock, request, attempt, permits, revoked>>
        /\ calls' \subseteq calls /\ j \in Jobs
        /\ job[j] \in JobRow /\ attempt[j] \in AttemptRow
    BY CallTypes, RowTypes DEF FailJob, Ends, IInv
  <1>2. CASE job' = job
    BY <1>1, <1>2, SameCalls, SamePermits, QuietStep DEF rows, IInv, TypeOK
  <1>3. ASSUME NEW error \in {"recoverable", "other"}, Working(j),
               job' = [job EXCEPT ![j].status = "failed", ![j].token = 0,
                                  ![j].leased = FALSE, ![j].error = error]
        PROVE  IInv'
    <2> DEFINE row == [job[j] EXCEPT !.status = "failed", !.token = 0,
                                     !.leased = FALSE, !.error = error]
    <2>1. /\ row \in JobRow /\ row.status = "failed" /\ row.revision = job[j].revision
          /\ row.authorized <=> job[j].authorized
      BY <1>1, NoToken DEF JobRow
    <2>2. job' = [job EXCEPT ![j] = row] /\ attempt' = [attempt EXCEPT ![j] = attempt[j]]
      BY <1>1, <1>3 DEF IInv, TypeOK
    <2>3. Working(j)
      BY <1>3
    <2> HIDE DEF row, j
    <2> QED
      BY <1>1, <2>1, <2>2, <2>3, SameCalls, WorkedStep
  <1> QED
    BY <1>2, <1>3 DEF FailJob

(* The outcome of a job that is worked on, reported or released. *)
LEMMA CloseOpenStep ==
  ASSUME IInv, NEW j \in Jobs, Working(j),
         NEW outcome \in {"other", "expired"}, CloseOpen(j, outcome),
         NEW row \in JobRow, job' = [job EXCEPT ![j] = row],
         row.status # "absent", row.revision = job[j].revision,
         row.authorized <=> job[j].authorized,
         UNCHANGED <<source, lock, request, permits, revoked>>, calls' \subseteq calls
  PROVE  IInv'
  <1> DEFINE arow == IF attempt[j].outcome # "none" THEN attempt[j]
                     ELSE [attempt[j] EXCEPT !.state = "closed", !.leased = FALSE,
                                             !.outcome = outcome]
  <1>1. attempt[j] \in AttemptRow
    BY RowTypes DEF IInv
  <1>2. attempt' = [attempt EXCEPT ![j] = arow]
    BY DEF CloseOpen, IInv, TypeOK
  <1>3. /\ arow \in AttemptRow /\ arow.state \in {attempt[j].state, "closed"}
        /\ arow.consent <=> attempt[j].consent
        /\ arow.authorized <=> attempt[j].authorized
    BY <1>1 DEF AttemptRow
  <1> HIDE DEF arow
  <1> QED
    BY <1>2, <1>3, SameCalls, WorkedStep

LEMMA FinishStep ==
  ASSUME IInv, NEW j \in Jobs, Finish(j)
  PROVE  IInv'
  <1> DEFINE row == [job[j] EXCEPT !.status = "submitted", !.token = 0, !.leased = FALSE]
  <1>1. /\ Working(j) /\ job[j] \in JobRow /\ CloseOpen(j, "other")
        /\ UNCHANGED <<source, lock, request, permits, revoked>> /\ calls' \subseteq calls
        /\ job' = [job EXCEPT ![j] = row]
    BY RowTypes DEF Finish, Working, IInv, TypeOK
  <1>2. /\ row \in JobRow /\ row.status = "submitted" /\ row.revision = job[j].revision
        /\ row.authorized <=> job[j].authorized
    BY <1>1, NoToken DEF JobRow
  <1> HIDE DEF row
  <1> QED
    BY <1>1, <1>2, CloseOpenStep

LEMMA ReleaseExpiredStep ==
  ASSUME IInv, NEW j \in Jobs, ReleaseExpired(j)
  PROVE  IInv'
  <1>1. PICK status \in {"submitted", "failed"}, end \in {"other", "expired"} :
          /\ job' = [job EXCEPT ![j].status = status, ![j].token = 0, ![j].error = end]
          /\ CloseOpen(j, end)
    <2> DEFINE unknown == \/ job[j].authorized
                          \/ attempt[j].authorized /\ attempt[j].outcome = "none"
    <2>1. CASE unknown
      BY <2>1 DEF ReleaseExpired
    <2>2. CASE ~unknown
      BY <2>2 DEF ReleaseExpired
    <2> QED
      BY <2>1, <2>2
  <1> DEFINE row == [job[j] EXCEPT !.status = status, !.token = 0, !.error = end]
  <1>2. /\ Working(j) /\ job[j] \in JobRow
        /\ UNCHANGED <<source, lock, request, permits, revoked>> /\ calls' \subseteq calls
        /\ job' = [job EXCEPT ![j] = row]
    BY <1>1, RowTypes DEF ReleaseExpired, IInv, TypeOK
  <1>3. /\ row \in JobRow /\ row.status = status /\ row.revision = job[j].revision
        /\ row.authorized <=> job[j].authorized
    BY <1>2, NoToken DEF JobRow
  <1> HIDE DEF row
  <1> QED
    BY <1>1, <1>2, <1>3, CloseOpenStep

LEMMA ExpireLeasesStep ==
  ASSUME IInv, NEW j \in Jobs, ExpireLeases(j)
  PROVE  IInv'
  <1>1. PICK both \in BOOLEAN :
          job' = [job EXCEPT ![j].leased = IF both THEN FALSE ELSE @]
    BY DEF ExpireLeases
  <1> DEFINE leased == IF both THEN FALSE ELSE job[j].leased
             row == [job[j] EXCEPT !.leased = leased]
             arow == [attempt[j] EXCEPT !.leased = FALSE]
  <1>2. /\ job[j] \in JobRow /\ attempt[j] \in AttemptRow
        /\ UNCHANGED <<source, lock, request, calls, permits, revoked>>
    BY RowTypes DEF ExpireLeases, IInv
  <1>3. leased \in BOOLEAN
    BY <1>2 DEF JobRow
  <1>4. job' = [job EXCEPT ![j] = row] /\ attempt' = [attempt EXCEPT ![j] = arow]
    BY <1>1 DEF ExpireLeases, IInv, TypeOK
  <1> HIDE DEF leased
  <1>5. /\ row \in JobRow /\ row.status = job[j].status /\ row.revision = job[j].revision
        /\ row.error = job[j].error
        /\ row.staged <=> job[j].staged
        /\ row.authorized <=> job[j].authorized
        /\ arow \in AttemptRow /\ arow.state = attempt[j].state
        /\ arow.outcome = attempt[j].outcome /\ arow.token = attempt[j].token
        /\ arow.consent <=> attempt[j].consent
        /\ arow.authorized <=> attempt[j].authorized
    BY <1>2, <1>3 DEF JobRow, AttemptRow
  <1> HIDE DEF row, arow
  <1>6. TypeOK'
    BY <1>2, <1>4, <1>5 DEF IInv, TypeOK
  <1>7. Keeps(j)
    <2>1. job'[j] = row /\ attempt'[j] = arow
      BY <1>4 DEF IInv, TypeOK
    <2> QED
      BY <1>2, <1>5, <2>1
      DEF Keeps, Exists, Spent, RowRule, RowsAgree, RevokedRule, IInv, RevokedInv
  <1>8. \A k \in Jobs \ {j} : Keeps(k)
    <2>1. \A k \in Jobs \ {j} : job'[k] = job[k] /\ attempt'[k] = attempt[k]
      BY <1>4 DEF IInv, TypeOK
    <2> QED
      BY <1>2, <2>1, SameRows
  <1>9. RequestInv'
    BY <1>2, <1>7, <1>8, SameRequests
  <1> QED
    BY <1>2, <1>6, <1>7, <1>8, <1>9, SameCalls, SamePermits, KeepsStep

-----------------------------------------------------------------------------
(* A key comes back to work *)

LEMMA RequeueStep ==
  ASSUME IInv, NEW j \in Jobs, NEW arow \in AttemptRow,
         arow.authorized <=> attempt[j].authorized,
         arow.consent => attempt[j].consent,
         Recoverable(j), Exists(j), j \notin revoked, Requeue(j, arow)
  PROVE  IInv'
  <1> DEFINE row == [job[j] EXCEPT !.status = "queued", !.token = 0,
                                   !.leased = FALSE, !.error = "none"]
             new == [arow EXCEPT !.state = "active", !.outcome = "none", !.token = 0,
                                 !.leased = FALSE]
  <1>1. /\ job' = [job EXCEPT ![j] = row] /\ attempt' = [attempt EXCEPT ![j] = new]
        /\ UNCHANGED <<source, lock, request, permits, revoked>> /\ calls' \subseteq calls
        /\ lock' \in Requests \cup {Free}
    BY DEF Requeue, IInv, TypeOK
  <1>2. /\ job[j] \in JobRow /\ attempt[j] \in AttemptRow
        /\ ~job[j].authorized /\ ~attempt[j].authorized
    BY RowTypes DEF IInv, Recoverable
  <1>3. \A k \in Jobs \ {j} : Exists(k) => Older(k, j)
    BY AllowsIsOlder DEF Recoverable, Blocks, Older
  <1>4. /\ row \in JobRow /\ row.status = "queued" /\ row.revision = job[j].revision
        /\ row.authorized <=> job[j].authorized
        /\ new \in AttemptRow /\ new.state = "active"
        /\ new.authorized <=> arow.authorized
        /\ new.consent <=> arow.consent
    BY <1>2, NoToken DEF JobRow, AttemptRow
  <1> HIDE DEF row, new
  <1>5. RowsAgree(row, new)
    BY <1>2, <1>4 DEF RowsAgree
  <1> QED
    BY <1>1, <1>2, <1>3, <1>4, <1>5, SameCalls, SamePermits, WorkerStep

LEMMA RecoverySteps ==
  ASSUME IInv, NEW j \in Jobs,
         \/ RequeuePrestageClaim(j) \/ RequeueFailure(j) \/ ReclassifyFailure(j)
         \/ ReclassifyExpiredClaim(j) \/ ReclassifyReleasedClaim(j)
  PROVE  IInv'
  <1>1. Recoverable(j) /\ (Requeue(j, attempt[j]) \/ Requeue(j, Reclassified(j)))
    BY DEF RequeuePrestageClaim, RequeueFailure, ReclassifyFailure,
       ReclassifyExpiredClaim, ReclassifyReleasedClaim
  <1>2. \/ job[j].status = "claimed"
        \/ job[j].status = "failed" /\ job[j].error \in {"recoverable", "expired"}
    BY DEF RequeuePrestageClaim, RequeueFailure, ReclassifyFailure,
       ReclassifyExpiredClaim, ReclassifyReleasedClaim, ExpiredMisclassified,
       ReleasedMisclassified
  <1>3. Exists(j) /\ j \notin revoked
    BY <1>2 DEF Exists, IInv, RevokedInv, RevokedRule
  <1>4. attempt[j] \in AttemptRow
    BY RowTypes DEF IInv
  <1>5. /\ Reclassified(j) \in AttemptRow
        /\ Reclassified(j).authorized <=> attempt[j].authorized
        /\ ~Reclassified(j).consent
    BY <1>4 DEF Reclassified, AttemptRow
  <1> QED
    BY <1>1, <1>3, <1>4, <1>5, RequeueStep

-----------------------------------------------------------------------------
(* Steps on every key of the page *)

(* Closing jobs that are not authorized, with or without their attempts. *)
LEMMA ClosedKey ==
  ASSUME IInv, NEW closing \in SUBSET Jobs, NEW j \in Jobs,
         NEW error \in {"superseded", "stale"}, Close(closing, error),
         \A k \in closing : Live(k) /\ ~job[k].authorized,
         attempt'[j] \in AttemptRow,
         attempt'[j].authorized <=> attempt[j].authorized,
         attempt'[j].consent <=> attempt[j].consent,
         \/ attempt'[j] = attempt[j]
         \/ attempt[j].state = "active" /\ attempt'[j].state = "closed"
  PROVE  Keeps(j) /\ job'[j] \in JobRow
  <1>1. job[j] \in JobRow
    BY RowTypes DEF IInv
  <1>2. CASE j \in closing
    <2> DEFINE row == [job[j] EXCEPT !.status = "failed", !.error = error]
    <2>1. job'[j] = row
      BY <1>2 DEF Close
    <2>2. /\ row \in JobRow /\ row.status = "failed" /\ row.error = error
          /\ row.revision = job[j].revision
          /\ row.authorized <=> job[j].authorized
      BY <1>1 DEF JobRow
    <2> HIDE DEF row
    <2>3. Exists(j) /\ ~Spent(j) /\ ~job[j].authorized
      BY <1>2 DEF Live, Working, Exists, Spent
    <2> QED
      BY <2>1, <2>2, <2>3 DEF Keeps, Exists, RowRule, RowsAgree, RevokedRule, IInv
  <1>3. CASE j \notin closing
    <2>1. job'[j] = job[j] /\ (j \in revoked' => j \in revoked)
      BY <1>3 DEF Close
    <2> QED
      BY <1>1, <2>1
      DEF Keeps, Exists, Spent, RowRule, RowsAgree, RevokedRule, IInv, RevokedInv
  <1> QED
    BY <1>2, <1>3

LEMMA ClosedPage ==
  ASSUME IInv, NEW closing \in SUBSET Jobs, NEW error \in {"superseded", "stale"},
         Close(closing, error),
         \A k \in closing : Live(k) /\ ~job[k].authorized,
         NEW closed \in BOOLEAN,
         attempt' = [j \in Jobs |-> IF j \in Consents
           THEN [attempt[j] EXCEPT !.state = "closed",
                   !.outcome = IF closed THEN "known_failed" ELSE @,
                   !.leased = IF closed THEN FALSE ELSE @]
           ELSE attempt[j]]
  PROVE  /\ \A j \in Jobs : Keeps(j)
         /\ job' \in [Jobs -> JobRow] /\ attempt' \in [Jobs -> AttemptRow]
         /\ revoked' \subseteq Jobs
  <1>1. ASSUME NEW j \in Jobs PROVE Keeps(j) /\ job'[j] \in JobRow /\ attempt'[j] \in AttemptRow
    <2>1. attempt[j] \in AttemptRow
      BY RowTypes DEF IInv
    <2>2. CASE j \in Consents
      <3> DEFINE end == IF closed THEN "known_failed" ELSE attempt[j].outcome
                 leased == IF closed THEN FALSE ELSE attempt[j].leased
                 arow == [attempt[j] EXCEPT !.state = "closed", !.outcome = end,
                                            !.leased = leased]
      <3>1. attempt'[j] = arow
        BY <2>2
      <3>2. end \in {"none", "known_failed", "expired", "other"} /\ leased \in BOOLEAN
        BY <2>1 DEF AttemptRow
      <3> HIDE DEF end, leased
      <3>3. /\ arow \in AttemptRow /\ arow.state = "closed"
            /\ arow.consent <=> attempt[j].consent
            /\ arow.authorized <=> attempt[j].authorized
        BY <2>1, <3>2 DEF AttemptRow
      <3> HIDE DEF arow
      <3>4. attempt[j].state = "active"
        BY <2>2 DEF Consents, Open
      <3> QED
        BY <3>1, <3>3, <3>4, ClosedKey
    <2>3. CASE j \notin Consents
      <3>1. attempt'[j] = attempt[j]
        BY <2>3
      <3> QED
        BY <2>1, <3>1, ClosedKey
    <2> QED
      BY <2>2, <2>3
  <1> QED
    BY <1>1 DEF Close, IInv, TypeOK

LEMMA SupersedeStep ==
  ASSUME IInv, NEW q \in Requests, Supersede(q)
  PROVE  IInv'
  <1>1. /\ UNCHANGED <<source, calls, permits>> /\ source' \in Revisions
        /\ request[q].step # "idle"
    BY DEF Supersede, IInv, TypeOK
  <1>2. CASE EndRequest(q) /\ UNCHANGED <<rows, revoked>>
    BY <1>1, <1>2, EndedRequest, SameCalls, SamePermits, QuietStep
  <1>3. CASE /\ \A j \in Consents : Untouched(j)
             /\ attempt' = [j \in Jobs |-> IF j \in Consents
                  THEN [attempt[j] EXCEPT !.state = "closed"] ELSE attempt[j]]
             /\ Close(Consents, "superseded")
             /\ Step(q, "insert") /\ UNCHANGED lock
    <2>1. Consents \subseteq Jobs /\ \A j \in Consents : Live(j) /\ ~job[j].authorized
      BY <1>3 DEF Consents, Untouched, Live
    <2>2. attempt' = [j \in Jobs |-> IF j \in Consents
            THEN [attempt[j] EXCEPT !.state = "closed",
                    !.outcome = IF FALSE THEN "known_failed" ELSE @,
                    !.leased = IF FALSE THEN FALSE ELSE @]
            ELSE attempt[j]]
      <3>1. ASSUME NEW j \in Jobs
            PROVE  [attempt[j] EXCEPT !.state = "closed"] =
                   [attempt[j] EXCEPT !.state = "closed",
                      !.outcome = IF FALSE THEN "known_failed" ELSE @,
                      !.leased = IF FALSE THEN FALSE ELSE @]
        BY RowTypes DEF IInv, AttemptRow
      <3> QED
        BY <1>3, <3>1
    <2>3. /\ \A j \in Jobs : Keeps(j)
          /\ job' \in [Jobs -> JobRow] /\ attempt' \in [Jobs -> AttemptRow]
          /\ revoked' \subseteq Jobs
      BY <1>3, <2>1, <2>2, ClosedPage
    <2>4. /\ request' \in [Requests -> RequestRow]
          /\ \A r \in Requests : request'[r] = request[r] \/ request'[r].step # "attempt"
      BY <1>1, <1>3, SteppedRequest
    <2>5. TypeOK'
      BY <1>1, <1>3, <2>3, <2>4 DEF IInv, TypeOK
    <2>6. RequestInv'
      BY <2>3, <2>4, RequestTypes DEF IInv, RequestInv, Keeps
    <2> QED
      BY <1>1, <2>3, <2>5, <2>6, SameCalls, SamePermits, KeepsStep
  <1> QED
    BY <1>2, <1>3 DEF Supersede

LEMMA FenceStep ==
  ASSUME IInv, Fence
  PROVE  IInv'
  <1> DEFINE closing == {j \in Jobs : Live(j) /\ ~job[j].authorized}
  <1>1. /\ UNCHANGED <<source, lock, request, calls, permits>>
        /\ closing \in SUBSET Jobs /\ Close(closing, "stale")
        /\ \A k \in closing : Live(k) /\ ~job[k].authorized
    BY DEF Fence
  <1>2. attempt' = [j \in Jobs |-> IF j \in Consents
          THEN [attempt[j] EXCEPT !.state = "closed",
                  !.outcome = IF TRUE THEN "known_failed" ELSE @,
                  !.leased = IF TRUE THEN FALSE ELSE @]
          ELSE attempt[j]]
    BY DEF Fence
  <1> HIDE DEF closing
  <1>3. /\ \A j \in Jobs : Keeps(j)
        /\ job' \in [Jobs -> JobRow] /\ attempt' \in [Jobs -> AttemptRow]
        /\ revoked' \subseteq Jobs
    BY <1>1, <1>2, ClosedPage
  <1>4. TypeOK'
    BY <1>1, <1>3 DEF IInv, TypeOK
  <1> QED
    BY <1>1, <1>3, <1>4, SameRequests, SameCalls, SamePermits, KeepsStep

-----------------------------------------------------------------------------
(* A key is stored *)

LEMMA InsertStep ==
  ASSUME IInv, NEW q \in Requests, Insert(q)
  PROVE  IInv'
  <1>0. PICK j \in Jobs, revision \in Revisions :
          j = request[q].job /\ revision = request[q].revision
    BY RequestTypes DEF Insert, IInv
  <1>1. /\ UNCHANGED <<source, attempt, calls, permits, revoked>> /\ source' \in Revisions
        /\ request[q].step # "idle"
        /\ lock' \in Requests \cup {Free}
    BY DEF Insert, EndRequest, IInv, TypeOK
  <1>2. CASE EndRequest(q) /\ UNCHANGED job
    BY <1>1, <1>2, EndedRequest, SameCalls, SamePermits, QuietStep DEF rows
  <1>3. ASSUME Step(q, "attempt")
        PROVE  /\ request' \in [Requests -> RequestRow]
               /\ \A r \in Requests : request'[r] = request[r] \/ request'[r].job = j
    BY <1>0, <1>1, <1>3, SteppedRequest
  <1>4. CASE Exists(j) /\ Step(q, "attempt") /\ job' = job
    <2>1. \A r \in Requests : request'[r] = request[r] \/ Exists(request'[r].job)
      BY <1>3, <1>4
    <2> QED
      BY <1>1, <1>3, <1>4, <2>1, SameCalls, SamePermits, QuietStep DEF rows
  <1>5. CASE /\ ~Exists(j) /\ ~Blocked(revision) /\ Step(q, "attempt")
             /\ job' = [job EXCEPT ![j] = QueuedJob(revision)]
    <2> DEFINE row == QueuedJob(revision)
    <2>1. /\ row \in JobRow /\ row.status = "queued" /\ row.revision = revision
          /\ ~row.authorized
      BY <1>1, NewRows
    <2>2. /\ job'[j] = row
          /\ \A k \in Jobs \ {j} : job'[k] = job[k] /\ attempt'[k] = attempt[k]
      BY <1>1, <1>5 DEF IInv, TypeOK
    <2>3. TypeOK'
      BY <1>1, <1>3, <1>5, <2>1 DEF IInv, TypeOK
    <2>4. /\ ~job[j].authorized /\ ~attempt[j].authorized /\ ~attempt[j].consent
          /\ attempt[j].state = "absent" /\ attempt[j].token = 0
          /\ j \notin revoked
      BY <1>1, <1>5 DEF IInv, RowRule, RowsAgree, RevokedInv, RevokedRule, Exists
    <2>5. \A k \in Jobs : Exists(k) => job[k].revision < revision /\ Spent(k)
      BY <1>5, AllowsIsOlder DEF Blocked, Blocks
    <2> HIDE DEF row
    <2>6. Exists(j)' /\ RowRule(j)'
      BY <1>1, <2>1, <2>2, <2>4 DEF Exists, RowRule, RowsAgree
    <2>7. \A k \in Jobs \ {j} : Keeps(k)
      BY <1>1, <2>2, SameRows
    <2>8. PageInv'
      <3> SUFFICES ASSUME NEW k \in Jobs, NEW l \in Jobs, k # l, Exists(k)', Exists(l)'
                   PROVE  Older(k, l)' \/ Older(l, k)'
        BY DEF PageInv
      <3>1. \A i \in Jobs \ {j} : Exists(i)' =>
              job'[i].revision < revision /\ Spent(i)' /\ Exists(i)
        BY <1>1, <2>2, <2>5 DEF Exists, Spent
      <3>2. CASE k = j
        BY <2>1, <2>2, <3>1, <3>2 DEF Older
      <3>3. CASE l = j
        BY <2>1, <2>2, <3>1, <3>3 DEF Older
      <3>4. CASE k # j /\ l # j
        BY <1>1, <2>2, <3>1, <3>4 DEF Older, IInv, PageInv, Spent
      <3> QED
        BY <3>2, <3>3, <3>4
    <2>9. RequestInv'
      BY <1>3, <1>5, <2>6, <2>7, RequestTypes DEF IInv, RequestInv, Keeps
    <2>10. CallInv' /\ PermitInv' /\ RevokedInv'
      <3>1. \A c \in calls : c.job \in Jobs
        BY CallTypes DEF IInv
      <3>2. \A p \in permits : p[1] \in Jobs
        BY DEF IInv, TypeOK
      <3>3. revoked \subseteq Jobs
        BY DEF IInv, TypeOK
      <3> QED
        BY <1>1, <2>2, <2>4, <3>1, <3>2, <3>3
        DEF IInv, CallInv, CallRule, PermitInv, RevokedInv, RevokedRule
    <2> QED
      BY <2>3, <2>6, <2>7, <2>8, <2>9, <2>10 DEF IInv, Keeps
  <1>6. \/ EndRequest(q) /\ UNCHANGED job
        \/ Exists(j) /\ Step(q, "attempt") /\ job' = job
        \/ /\ ~Exists(j) /\ ~Blocked(revision) /\ Step(q, "attempt")
           /\ job' = [job EXCEPT ![j] = QueuedJob(revision)]
    <2>1. [job EXCEPT ![j] = job[j]] = job
      BY <1>1 DEF IInv, TypeOK
    <2> QED
      BY <1>0, <2>1 DEF Insert
  <1> QED
    BY <1>2, <1>4, <1>5, <1>6

(* The attempt is created for a job that is there, and that nobody works   *)
(* on.                                                                     *)
LEMMA CreateAttemptStep ==
  ASSUME IInv, NEW q \in Requests, CreateAttempt(q)
  PROVE  IInv'
  <1>0. PICK j \in Jobs : j = request[q].job
    BY RequestTypes DEF CreateAttempt, IInv
  <1>1. /\ UNCHANGED <<source, job, calls, permits, revoked>> /\ source' \in Revisions
        /\ Exists(j) /\ EndRequest(q)
    BY <1>0 DEF CreateAttempt, IInv, TypeOK, RequestInv
  <1>2. CASE attempt' = attempt
    BY <1>1, <1>2, EndedRequest, SameCalls, SamePermits, QuietStep DEF rows
  <1>3. CASE attempt[j].state = "absent" /\ attempt' = [attempt EXCEPT ![j] = Consent]
    <2>1. /\ attempt'[j] = Consent
          /\ \A k \in Jobs \ {j} : job'[k] = job[k] /\ attempt'[k] = attempt[k]
      BY <1>1, <1>3 DEF IInv, TypeOK
    <2>2. TypeOK'
      BY <1>1, <1>3, NewRows, EndedRequest DEF IInv, TypeOK
    <2>3. ~job[j].authorized /\ ~attempt[j].authorized /\ ~Spent(j)
      BY <1>1, <1>3 DEF IInv, RowRule, RowsAgree, Spent
    <2>4. Keeps(j)
      BY <1>1, <1>3, <2>1, <2>3, NewRows
      DEF Keeps, Exists, RowRule, RowsAgree, RevokedRule, IInv, RevokedInv
    <2>5. \A k \in Jobs \ {j} : Keeps(k)
      BY <1>1, <2>1, SameRows
    <2>6. RequestInv'
      BY <1>1, <2>4, <2>5, EndedRequest, RequestTypes DEF IInv, RequestInv, Keeps
    <2> QED
      BY <1>1, <2>2, <2>4, <2>5, <2>6, SameCalls, SamePermits, KeepsStep
  <1> QED
    BY <1>0, <1>2, <1>3 DEF CreateAttempt

-----------------------------------------------------------------------------
(* Theorems *)

LEMMA NextInv == IInv /\ [Next]_vars => IInv'
  <1> SUFFICES ASSUME IInv, [Next]_vars PROVE IInv'
    OBVIOUS
  <1>1. CASE UNCHANGED vars
    <2>1. /\ UNCHANGED <<source, lock, request, calls, permits>>
          /\ UNCHANGED <<rows, revoked>>
      BY <1>1 DEF vars, rows
    <2>2. /\ source' \in Revisions /\ lock' \in Requests \cup {Free}
          /\ request' \in [Requests -> RequestRow]
      BY <2>1 DEF IInv, TypeOK
    <2> QED
      BY <2>1, <2>2, SameCalls, SamePermits, QuietStep
  <1>2. CASE EditPost \/ LoseLock \/ Fence
    BY <1>2, OutsideStep, FenceStep
  <1>3. ASSUME NEW q \in Requests,
               (\E j \in Jobs : Authorize(q, j)) \/ RequestStep(q) \/ AbandonRequest(q)
        PROVE  IInv'
    BY <1>3, AuthorizeStep, LockSteps, SupersedeStep, InsertStep, CreateAttemptStep
    DEF RequestStep
  <1>4. ASSUME NEW j \in Jobs,
               \/ Claim(j) \/ Reclaim(j) \/ Stage(j) \/ AskPermit(j) \/ FailAttempt(j)
               \/ Finish(j) \/ ExpireLeases(j) \/ ReleaseExpired(j)
               \/ RequeuePrestageClaim(j) \/ RequeueFailure(j) \/ ReclassifyFailure(j)
               \/ ReclassifyExpiredClaim(j) \/ ReclassifyReleasedClaim(j)
        PROVE  IInv'
    BY <1>4, ClaimStep, OutsideStep, StageStep, FailAttemptStep, FinishStep,
       ExpireLeasesStep, ReleaseExpiredStep, RecoverySteps
  <1>5. ASSUME NEW c \in calls,
               \/ Bind(c) \/ CheckClaim(c) \/ Recheck(c) \/ ConsumeConsent(c)
               \/ AuthorizeAttempt(c) \/ StoreAuthorization(c) \/ Confirm(c)
               \/ FailJob(c) \/ AbandonCall(c)
        PROVE  IInv'
    BY <1>5, BindStep, CheckSteps, ConsumeConsentStep, AuthorizeAttemptStep,
       StoreAuthorizationStep, OutsideStep, FailJobStep
  <1> QED
    BY <1>1, <1>2, <1>3, <1>4, <1>5 DEF Next

LEMMA Inductive == Spec => []IInv
  BY InitInv, NextInv, PTL DEF Spec

(* Type correctness of the rows, requests, calls and permits. *)
THEOREM TypeCorrect == Spec => []TypeOK
  <1>1. IInv => TypeOK
    BY DEF IInv
  <1> QED
    BY <1>1, Inductive, PTL

(* One attempt of a page is ever authorized, whatever consents, edits,     *)
(* fences, requeues and reclassifications there are: a packet's provider   *)
(* action starts once.                                                     *)
THEOREM AuthorizedOnce == Spec => []OneAuthorizedPerPage
  <1>1. IInv => OneAuthorizedPerPage
    <2> DEFINE S == {j \in Jobs : attempt[j].authorized}
    <2>1. ASSUME IInv, NEW j \in S, NEW k \in S PROVE j = k
      <3>1. Exists(j) /\ Exists(k) /\ ~Spent(j) /\ ~Spent(k)
        BY <2>1 DEF IInv, RowRule, RowsAgree, Spent
      <3> QED
        BY <2>1, <3>1 DEF IInv, PageInv, Older
    <2>2. ASSUME IInv PROVE Cardinality(S) <= 1
      <3>1. CASE S = {}
        BY <3>1, FS_EmptySet
      <3>2. CASE S # {}
        <4>1. PICK j \in S : TRUE
          BY <3>2
        <4>2. S = {j}
          BY <2>1, <2>2, <4>1
        <4>3. Cardinality({j}) = 1
          BY FS_Singleton
        <4> HIDE DEF S
        <4> QED
          BY <4>2, <4>3
      <3> QED
        BY <3>1, <3>2
    <2> QED
      BY <2>2 DEF OneAuthorizedPerPage
  <1> QED
    BY <1>1, Inductive, PTL

(* A job that a fence, a changed packet or a newer consent closed stays    *)
(* closed: no recovery, late bind, repeated request or call in flight      *)
(* brings it back to work, stores its authorization or hands out a permit  *)
(* of it, and its consent is never consumed.                               *)
THEOREM RevokedStays == Spec => []RevokedStaysRevoked
  <1>1. ASSUME IInv, NEW j \in revoked
        PROVE  /\ ~Live(j) /\ ~job[j].authorized
               /\ attempt[j].consent => ~attempt[j].authorized
               /\ \A p \in permits : p[1] # j
    BY <1>1 DEF IInv, TypeOK, RevokedInv, RevokedRule, RowRule, RowsAgree, PermitInv, Live,
       Working
  <1>2. IInv => RevokedStaysRevoked
    BY <1>1 DEF RevokedStaysRevoked
  <1> QED
    BY <1>2, Inductive, PTL

(* A permit of a consent is handed out only while the packet is still the  *)
(* revision the operator consented to.                                     *)
THEOREM PermitsAreCurrent == Spec => PermitIsCurrent
  <1> DEFINE Current == \A p \in permits' \ permits :
               attempt[p[1]].consent => source = job[p[1]].revision
  <1>1. ASSUME Next, NEW p \in permits', p \notin permits
        PROVE  attempt[p[1]].consent => source = job[p[1]].revision
    <2>1. ASSUME NEW c \in calls, Recheck(c) \/ Confirm(c)
          PROVE  attempt[p[1]].consent => source = job[p[1]].revision
      BY <1>1, <2>1 DEF Recheck, Confirm, Permit
    <2>2. CASE permits' = permits
      BY <1>1, <2>2
    <2> QED
      BY <1>1, <2>1, <2>2
      DEF Next, EditPost, LoseLock, Fence, Close, RequestStep, Authorize, TakeLock,
          FindRaced, Supersede, Insert, CreateAttempt, AbandonRequest, Claim, Reclaim,
          Stage, AskPermit, FailAttempt, Finish, ExpireLeases, ReleaseExpired,
          RequeuePrestageClaim, RequeueFailure, ReclassifyFailure,
          ReclassifyExpiredClaim, ReclassifyReleasedClaim, Requeue, Bind, CheckClaim,
          InvalidateSource, ConsumeConsent, AuthorizeAttempt, StoreAuthorization,
          FailJob, CloseOpen, AbandonCall
  <1>2. [Next]_vars => [Current]_vars
    BY <1>1
  <1> QED
    BY <1>2, PTL DEF Spec, PermitIsCurrent
=============================================================================
