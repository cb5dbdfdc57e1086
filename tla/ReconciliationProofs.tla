------------------------- MODULE ReconciliationProofs -------------------------
(***************************************************************************)
(* A reconciled request is backed by its records, and what was reported,   *)
(* handled or attested stays closed to automation, for any number of       *)
(* pages, notes, requests and submissions.                                 *)
(*                                                                         *)
(* The inductive invariant says what nobody takes back: an external record *)
(* that succeeded, the receipt of a page, a reconciled job.  A submission  *)
(* that reached its last step was seen by the record of its note, so it    *)
(* stays backed however long it waits before it completes the request.     *)
(***************************************************************************)
EXTENDS Reconciliation, TLAPS

Backed(r) ==
  LET p == request[r].page  n == request[r].note IN
  /\ external[n].status = "succeeded" /\ external[n].page = p
  /\ receipt[p] = n
  /\ Targets(r, p) => job[p].status = "reconciled" /\ job[p].note = n

Workable(p) == job[p].status \in {"queued", "claimed", "staged"}

(* An attested job never returns to the worker, an idle one has no lease.  *)
JobRule(p) ==
  /\ job[p].attested # "no" =>
       job[p].status \in {"operator_attested", "verified", "reconciled"}
  /\ job[p].status \in {"absent", "queued"} => ~job[p].leased
(* A targeted request is the disposition of its job. *)
RequestRule(r) ==
  /\ Targets(r, request[r].page) => job[request[r].page].disposition # NoRequest
  /\ request[r].status = "reconciled" => Backed(r)
  /\ Active(r) /\ request[r].kind = "notion_only" => ~Workable(request[r].page)
CallRule(c) ==
  /\ Exists(c.request)
  /\ c.at = "complete" => CompletedHere(c)

IInv ==
  /\ TypeOK
  /\ \A p \in Pages : JobRule(p)
  /\ \A r \in Requests : RequestRule(r)
  /\ \A c \in calls : CallRule(c)

-----------------------------------------------------------------------------
(* What a step keeps *)

JobGoesOn(p) ==
  /\ job[p].status = "reconciled" =>
       job'[p].status = "reconciled" /\ job'[p].note = job[p].note
  /\ job[p].disposition # NoRequest => job'[p].disposition # NoRequest
  /\ job'[p].status \in {"queued", "claimed", "staged"} => Workable(p) \/ PageUnowned(p)
RecordsGoOn ==
  /\ \A n \in Notes : external[n].status = "succeeded" => external'[n] = external[n]
  /\ \A p \in Pages : receipt[p] # NoNote => receipt'[p] = receipt[p]
RequestGoesOn(r) ==
  /\ Exists(r) => /\ request'[r].status # "absent"
                  /\ request'[r].page = request[r].page /\ request'[r].note = request[r].note
                  /\ request'[r].kind = request[r].kind
  /\ request'[r].status = "reconciled" => request[r].status = "reconciled" \/ Backed(r)'
  /\ request'[r].status \in {"queued", "verifying"} /\ request'[r].kind = "notion_only" =>
       \/ Active(r)
       \/ ~Workable(request[r].page)'
  /\ Targets(r, request[r].page)' =>
       Exists(r) \/ (job[request[r].page].disposition # NoRequest)'

LEMMA RowTypes ==
  ASSUME TypeOK
  PROVE  /\ \A p \in Pages : job[p] \in JobRow /\ receipt[p] \in Notes \cup {NoNote}
         /\ \A r \in Requests : /\ request[r] \in RequestRow
                                /\ request[r].page \in Pages /\ request[r].note \in Notes
         /\ \A n \in Notes : external[n] \in ExternalRow
         /\ \A c \in calls : c \in Call /\ c.request \in Requests
  BY DEF TypeOK, RequestRow, Call

LEMMA KeepStep ==
  ASSUME IInv, TypeOK', \A p \in Pages : JobRule(p)' /\ JobGoesOn(p), RecordsGoOn,
         \A r \in Requests : RequestGoesOn(r),
         \A c \in calls' : c \in calls \/ CallRule(c)'
  PROVE  IInv'
  <1>1. ASSUME NEW r \in Requests PROVE RequestRule(r)'
    <2>1. /\ request'[r].page \in Pages /\ request'[r].note \in Notes
          /\ request[r].page \in Pages /\ request[r].note \in Notes
      BY RowTypes DEF IInv, TypeOK, RequestRow
    <2>2. Targets(r, request[r].page)' => (job[request[r].page].disposition # NoRequest)'
      BY <2>1 DEF IInv, RequestRule, RequestGoesOn, JobGoesOn, Targets, Exists
    <2>3. ASSUME request'[r].status = "reconciled" PROVE Backed(r)'
      <3>1. CASE request[r].status = "reconciled"
        <4>1. Exists(r) /\ Backed(r)
          BY <3>1 DEF IInv, RequestRule, Exists
        <4>2. /\ request'[r].page = request[r].page /\ request'[r].note = request[r].note
              /\ request'[r].kind = request[r].kind
          BY <4>1 DEF RequestGoesOn
        <4>3. receipt[request[r].page] # NoNote
          BY <2>1, <4>1, NamesAssumption DEF Backed
        <4> QED
          BY <2>1, <4>1, <4>2, <4>3 DEF Backed, RecordsGoOn, JobGoesOn, Targets, Exists
      <3> QED
        BY <2>3, <3>1 DEF RequestGoesOn
    <2>4. ASSUME request'[r].status \in {"queued", "verifying"},
                 request'[r].kind = "notion_only"
          PROVE  ~Workable(request[r].page)'
      <3>1. CASE Active(r)
        <4>1. /\ Exists(r) /\ request'[r].page = request[r].page
              /\ request[r].kind = "notion_only"
          BY <2>4, <3>1 DEF Active, Exists, RequestGoesOn
        <4>2. ~Workable(request[r].page) /\ ~PageUnowned(request[r].page)
          BY <3>1, <4>1 DEF IInv, RequestRule, PageUnowned
        <4> QED
          BY <2>1, <4>1, <4>2 DEF JobGoesOn, Workable
      <3> QED
        BY <2>4, <3>1 DEF RequestGoesOn
    <2> QED
      BY <2>2, <2>3, <2>4 DEF RequestRule, Active
  <1>2. ASSUME NEW c \in calls' PROVE CallRule(c)'
    <2>1. CASE c \in calls
      <3>1. c.request \in Requests /\ CallRule(c)
        BY <2>1, RowTypes DEF IInv
      <3>2. request[c.request].note \in Notes
        BY <3>1, RowTypes DEF IInv
      <3> QED
        BY <3>1, <3>2
        DEF CallRule, CompletedHere, NoteOf, PageOf, Exists, RequestGoesOn, RecordsGoOn
    <2> QED
      BY <1>2, <2>1
  <1> QED
    BY <1>1, <1>2 DEF IInv

(* What a step need not say of the rows it leaves alone. *)
LEMMA SameJobs ==
  ASSUME IInv, job' = job
  PROVE  \A p \in Pages : JobRule(p)' /\ JobGoesOn(p)
  BY DEF IInv, JobRule, JobGoesOn, Workable

LEMMA SameRequests ==
  ASSUME IInv, request' = request
  PROVE  \A r \in Requests : RequestGoesOn(r)
  BY DEF RequestGoesOn, Exists, Active, Targets

LEMMA SameRecords ==
  ASSUME UNCHANGED <<external, receipt>>
  PROVE  RecordsGoOn
  BY DEF RecordsGoOn

(* A new row of a job. *)
RowFits(p, row) ==
  /\ row \in JobRow
  /\ row.leased => row.token
  /\ row.attested # "no" => row.status \in {"operator_attested", "verified", "reconciled"}
  /\ row.status \in {"absent", "queued"} => ~row.leased
  /\ job[p].status = "reconciled" => row.status = "reconciled" /\ row.note = job[p].note
  /\ job[p].disposition # NoRequest => row.disposition # NoRequest
  /\ row.status \in {"queued", "claimed", "staged"} => Workable(p) \/ PageUnowned(p)

LEMMA JobFits ==
  ASSUME IInv, NEW p \in Pages, NEW row, RowFits(p, row), SetJob(p, row)
  PROVE  /\ job' \in [Pages -> JobRow]
         /\ \A q \in Pages : /\ JobRule(q)' /\ JobGoesOn(q)
                             /\ job'[q].leased => job'[q].token
         /\ job'[p] = row
  <1>1. /\ job' \in [Pages -> JobRow] /\ job'[p] = row
        /\ \A q \in Pages \ {p} : job'[q] = job[q]
    BY DEF IInv, TypeOK, SetJob, RowFits
  <1>2. JobRule(p)' /\ JobGoesOn(p) /\ (job'[p].leased => job'[p].token)
    BY <1>1 DEF JobRule, JobGoesOn, RowFits
  <1>3. ASSUME NEW q \in Pages \ {p}
        PROVE  JobRule(q)' /\ JobGoesOn(q) /\ (job'[q].leased => job'[q].token)
    BY <1>1 DEF IInv, TypeOK, JobRule, JobGoesOn, Workable
  <1> QED
    BY <1>1, <1>2, <1>3

LEMMA JobOnlyStep ==
  ASSUME IInv, NEW p \in Pages, NEW row, RowFits(p, row), SetJob(p, row),
         UNCHANGED <<request, external, receipt, canonical, calls>>,
         handling' \in [Pages -> {"none", "pending", "reconciled"}]
  PROVE  IInv'
  <1>1. TypeOK'
    BY JobFits DEF IInv, TypeOK
  <1> QED
    BY <1>1, JobFits, SameRequests, SameRecords, KeepStep

-----------------------------------------------------------------------------
(* The job and the operator *)

LEMMA JobFacts ==
  ASSUME IInv, NEW p \in Pages
  PROVE  job[p] \in JobRow /\ JobRule(p) /\ (job[p].leased => job[p].token)
  BY DEF IInv, TypeOK

LEMMA HandlingType ==
  ASSUME IInv, handling' = handling
  PROVE  handling' \in [Pages -> {"none", "pending", "reconciled"}]
  BY DEF IInv, TypeOK

LEMMA QueueJobStep ==
  ASSUME IInv, NEW p \in Pages, QueueJob(p)
  PROVE  IInv'
  <1> DEFINE row == [job[p] EXCEPT !.status = "queued"]
  <1>1. RowFits(p, row)
    BY JobFacts DEF QueueJob, JobRow, JobRule, RowFits
  <1>2. /\ SetJob(p, row)
        /\ UNCHANGED <<request, external, receipt, handling, canonical, calls>>
    BY DEF QueueJob, records
  <1> HIDE DEF row
  <1> QED
    BY <1>1, <1>2, HandlingType, JobOnlyStep

LEMMA ClaimJobStep ==
  ASSUME IInv, NEW p \in Pages, ClaimJob(p)
  PROVE  IInv'
  <1> DEFINE row == [job[p] EXCEPT !.status = "claimed", !.token = TRUE, !.leased = TRUE]
  <1>1. RowFits(p, row)
    BY JobFacts DEF ClaimJob, JobRow, JobRule, RowFits, Workable
  <1>2. /\ SetJob(p, row)
        /\ UNCHANGED <<request, external, receipt, handling, canonical, calls>>
    BY DEF ClaimJob, records
  <1> HIDE DEF row
  <1> QED
    BY <1>1, <1>2, HandlingType, JobOnlyStep

LEMMA WorkerSteps ==
  ASSUME IInv, NEW p \in Pages, StageJob(p) \/ AuthorizeJob(p) \/ DispatchJob(p)
  PROVE  IInv'
  <1> DEFINE staged == [job[p] EXCEPT !.status = "staged", !.staged = TRUE]
             authorized == [job[p] EXCEPT !.authorized = TRUE]
             dispatched == [job[p] EXCEPT !.status = "dispatched", !.leased = FALSE]
  <1>1. UNCHANGED <<request, external, receipt, handling, canonical, calls>>
    BY DEF StageJob, AuthorizeJob, DispatchJob, records
  <1>2. StageJob(p) => SetJob(p, staged) /\ RowFits(p, staged)
    BY JobFacts DEF StageJob, JobRow, JobRule, RowFits, Workable
  <1>3. AuthorizeJob(p) => SetJob(p, authorized) /\ RowFits(p, authorized)
    BY JobFacts DEF AuthorizeJob, JobRow, JobRule, RowFits, Workable
  <1>4. DispatchJob(p) => SetJob(p, dispatched) /\ RowFits(p, dispatched)
    BY JobFacts DEF DispatchJob, JobRow, JobRule, RowFits
  <1> HIDE DEF staged, authorized, dispatched
  <1> QED
    BY <1>1, <1>2, <1>3, <1>4, HandlingType, JobOnlyStep

LEMMA FailJobStep ==
  ASSUME IInv, NEW p \in Pages, NEW error \in Errors, FailJob(p, error)
  PROVE  IInv'
  <1> DEFINE row == [job[p] EXCEPT !.status = "failed", !.token = FALSE,
                                   !.leased = FALSE, !.error = error]
  <1>1. RowFits(p, row)
    BY JobFacts, ErrorsAssumption DEF FailJob, JobRow, JobRule, RowFits
  <1>2. /\ SetJob(p, row)
        /\ UNCHANGED <<request, external, receipt, handling, canonical, calls>>
    BY DEF FailJob, records
  <1> HIDE DEF row
  <1> QED
    BY <1>1, <1>2, HandlingType, JobOnlyStep

LEMMA LeaseSteps ==
  ASSUME IInv, NEW p \in Pages, ExpireJobLease(p) \/ ReleaseExpired(p)
  PROVE  IInv'
  <1> DEFINE expired == [job[p] EXCEPT !.leased = FALSE]
             released(status) == [job[p] EXCEPT !.status = status, !.token = FALSE,
                                                !.error = "other"]
  <1>1. UNCHANGED <<request, external, receipt, handling, canonical, calls>>
    BY DEF ExpireJobLease, ReleaseExpired, records
  <1>2. ExpireJobLease(p) => SetJob(p, expired) /\ RowFits(p, expired)
    BY JobFacts DEF ExpireJobLease, JobRow, JobRule, RowFits, Workable
  <1>3. ReleaseExpired(p) =>
          \E status \in {"dispatched", "failed"} :
            SetJob(p, released(status)) /\ RowFits(p, released(status))
    <2>1. ASSUME ReleaseExpired(p), NEW status \in {"dispatched", "failed"}
          PROVE  RowFits(p, released(status))
      BY <2>1, JobFacts DEF ReleaseExpired, JobRow, JobRule, RowFits
    <2>2. ReleaseExpired(p) =>
            SetJob(p, released(IF job[p].authorized THEN "dispatched" ELSE "failed"))
      BY DEF ReleaseExpired
    <2>3. ReleaseExpired(p) =>
            \E status \in {"dispatched", "failed"} : SetJob(p, released(status))
      <3> HIDE DEF released
      <3> QED
        BY <2>2
    <2> HIDE DEF released
    <2> QED
      BY <2>1, <2>3
  <1> HIDE DEF expired, released
  <1> QED
    BY <1>1, <1>2, <1>3, HandlingType, JobOnlyStep

LEMMA HandleManuallyStep ==
  ASSUME IInv, NEW p \in Pages, HandleManually(p)
  PROVE  IInv'
  <1>1. RowFits(p, ClosedByHand(p))
    <2>1. job[p].status \notin {"dispatched", "operator_attested", "verified", "reconciled"}
      BY DEF HandleManually, OwnedByAutomation
    <2>2. CASE job[p].status \in {"absent", "failed"}
      BY <2>1, <2>2, JobFacts DEF ClosedByHand, JobRow, JobRule, RowFits
    <2>3. CASE job[p].status \notin {"absent", "failed"}
      BY <2>1, <2>3, JobFacts DEF ClosedByHand, JobRow, JobRule, RowFits
    <2> QED
      BY <2>2, <2>3
  <1>2. /\ SetJob(p, ClosedByHand(p))
        /\ UNCHANGED <<request, external, receipt, canonical, calls>>
        /\ handling' \in [Pages -> {"none", "pending", "reconciled"}]
    BY DEF HandleManually, IInv, TypeOK
  <1> QED
    BY <1>1, <1>2, JobOnlyStep

LEMMA AttestedFits ==
  ASSUME IInv, NEW p \in Pages, job[p].status # "reconciled",
         NEW provenance \in {"worker_ambiguous", "manual_scheduled"}
  PROVE  RowFits(p, AttestedRow(p, provenance))
  BY JobFacts DEF AttestedRow, JobRow, JobRule, RowFits

LEMMA AttestSteps ==
  ASSUME IInv, NEW p \in Pages, AttestSuccess(p) \/ AttestScheduling(p)
  PROVE  IInv'
  <1>1. UNCHANGED <<request, external, receipt, handling, canonical, calls>>
    BY DEF AttestSuccess, AttestScheduling, records
  <1>2. job[p].status # "reconciled"
    BY DEF AttestSuccess, Attestable, AttestScheduling, SafeQueuedJob
  <1>3. \E provenance \in {"worker_ambiguous", "manual_scheduled"} :
          SetJob(p, AttestedRow(p, provenance))
    BY DEF AttestSuccess, AttestScheduling, ScheduledByHand
  <1> QED
    BY <1>1, <1>2, <1>3, AttestedFits, HandlingType, JobOnlyStep

LEMMA ReleaseSteps ==
  ASSUME IInv, NEW p \in Pages, ClaimRelease(p) \/ AcknowledgeRelease(p)
  PROVE  IInv'
  <1> DEFINE claimed == [job[p] EXCEPT !.token = TRUE, !.leased = TRUE]
             acknowledged == [job[p] EXCEPT !.released = TRUE, !.leased = FALSE]
  <1>1. UNCHANGED <<request, external, receipt, handling, canonical, calls>>
    BY DEF ClaimRelease, AcknowledgeRelease, records
  <1>2. ClaimRelease(p) => SetJob(p, claimed) /\ RowFits(p, claimed)
    BY JobFacts DEF ClaimRelease, JobRow, JobRule, RowFits
  <1>3. AcknowledgeRelease(p) => SetJob(p, acknowledged) /\ RowFits(p, acknowledged)
    BY JobFacts DEF AcknowledgeRelease, JobRow, JobRule, RowFits
  <1> HIDE DEF claimed, acknowledged
  <1> QED
    BY <1>1, <1>2, <1>3, HandlingType, JobOnlyStep

-----------------------------------------------------------------------------
(* Requests *)

(* A new row of a request that is there; Backed is shown where it matters. *)
RequestFits(r, row) ==
  /\ row \in RequestRow
  /\ row.leased => row.status = "verifying"
  /\ row.status = "verifying" => row.token = row.claims
  /\ Exists(r) /\ row.status # "absent"
  /\ row.page = request[r].page /\ row.note = request[r].note
  /\ row.kind = request[r].kind
RowIsActive(row) == row.status \in {"queued", "verifying"}

LEMMA RequestFacts ==
  ASSUME IInv, NEW r \in Requests
  PROVE  /\ request[r] \in RequestRow /\ RequestRule(r)
         /\ request[r].page \in Pages /\ request[r].note \in Notes
         /\ request[r].leased => request[r].status = "verifying"
         /\ request[r].status = "verifying" => request[r].token = request[r].claims
  BY RowTypes DEF IInv, TypeOK

LEMMA FitsGoesOn ==
  ASSUME IInv, NEW r \in Requests, NEW row, RequestFits(r, row), SetRequest(r, row),
         row.status = "reconciled" => Backed(r)',
         RowIsActive(row) /\ row.kind = "notion_only" =>
           Active(r) \/ ~Workable(request[r].page)'
  PROVE  /\ request' \in [Requests -> RequestRow]
         /\ \A q \in Requests : /\ request'[q].leased => request'[q].status = "verifying"
                                /\ request'[q].status = "verifying" =>
                                     request'[q].token = request'[q].claims
                                /\ RequestGoesOn(q)
         /\ request'[r] = row
  <1>1. /\ request' \in [Requests -> RequestRow] /\ request'[r] = row
        /\ \A q \in Requests \ {r} : request'[q] = request[q]
    BY DEF IInv, TypeOK, SetRequest, RequestFits
  <1>2. RequestGoesOn(r)
    BY <1>1 DEF RequestGoesOn, RequestFits, RowIsActive
  <1>3. ASSUME NEW q \in Requests \ {r} PROVE RequestGoesOn(q)
    BY <1>1 DEF RequestGoesOn, Exists, Active, Targets
  <1>4. ASSUME NEW q \in Requests
        PROVE  /\ request'[q].leased => request'[q].status = "verifying"
               /\ request'[q].status = "verifying" =>
                    request'[q].token = request'[q].claims
    BY <1>1 DEF IInv, TypeOK, RequestFits
  <1> QED
    BY <1>1, <1>2, <1>3, <1>4

LEMMA RequestOnlyStep ==
  ASSUME IInv, NEW r \in Requests, NEW row, RequestFits(r, row), SetRequest(r, row),
         row.status # "reconciled",
         RowIsActive(row) /\ row.kind = "notion_only" =>
           Active(r) \/ ~Workable(request[r].page),
         UNCHANGED <<job, external, receipt, handling, canonical>>, calls' \subseteq calls
  PROVE  IInv'
  <1>0. \A c \in calls' : c \in calls
    OBVIOUS
  <1>1. RowIsActive(row) /\ row.kind = "notion_only" =>
          Active(r) \/ ~Workable(request[r].page)'
    <2>1. request'[r].page = request[r].page
      BY DEF IInv, TypeOK, SetRequest, RequestFits
    <2> QED
      BY <2>1 DEF Workable
  <1>2. TypeOK'
    BY <1>1, FitsGoesOn DEF IInv, TypeOK
  <1> QED
    BY <1>0, <1>1, <1>2, FitsGoesOn, SameJobs, SameRecords, KeepStep

LEMMA ClaimDueStep ==
  ASSUME IInv, NEW r \in Requests, ClaimDue(r)
  PROVE  IInv'
  <1>1. RequestFits(r, Claimed(r)) /\ Claimed(r).status = "verifying" /\ Active(r)
    <2> DEFINE n == request[r].claims + 1
               row == [request[r] EXCEPT !.status = "verifying", !.token = n,
                                         !.claims = n, !.leased = TRUE]
    <2>1. Claimed(r) = row /\ n \in Nat
      BY RequestFacts DEF Claimed, RequestRow
    <2>2. Active(r) /\ Exists(r)
      BY DEF ClaimDue, Lapsed, Active, Exists
    <2> HIDE DEF n
    <2>3. RequestFits(r, row) /\ row.status = "verifying"
      BY <2>1, <2>2, RequestFacts DEF RequestRow, RequestFits
    <2> QED
      BY <2>1, <2>2, <2>3
  <1>2. SetRequest(r, Claimed(r))
        /\ UNCHANGED <<job, external, receipt, handling, canonical, calls>>
    BY DEF ClaimDue, records
  <1> QED
    BY <1>1, <1>2, RequestOnlyStep

LEMMA ClosedRequests ==
  ASSUME IInv, NEW r \in Requests, Active(r), request[r].status = "verifying"
  PROVE  /\ RequestFits(r, Failed(r)) /\ Failed(r).status = "failed"
         /\ RequestFits(r, Deferred(r)) /\ Deferred(r).status \in {"failed", "queued"}
         /\ RequestFits(r, Reconciled(r)) /\ Reconciled(r).status = "reconciled"
  <1>1. RequestFits(r, Failed(r)) /\ Failed(r).status = "failed"
    BY RequestFacts DEF Failed, Exists, RequestRow, RequestFits
  <1>2. RequestFits(r, Reconciled(r)) /\ Reconciled(r).status = "reconciled"
    BY RequestFacts DEF Reconciled, Exists, RequestRow, RequestFits
  <1>3. RequestFits(r, Deferred(r)) /\ Deferred(r).status \in {"failed", "queued"}
    <2> DEFINE n == request[r].deferrals + 1
               row(status) == [request[r] EXCEPT !.status = status, !.deferrals = n,
                                                 !.leased = FALSE]
    <2>1. ASSUME NEW status \in {"failed", "queued"}
          PROVE  RequestFits(r, row(status)) /\ row(status).status = status
      <3>1. n \in Nat
        BY RequestFacts DEF RequestRow
      <3> HIDE DEF n
      <3> QED
        BY <3>1, RequestFacts DEF Exists, RequestRow, RequestFits
    <2>2. Deferred(r) = row(IF n >= VerificationLimit THEN "failed" ELSE "queued")
      BY DEF Deferred
    <2> HIDE DEF row
    <2>3. Deferred(r) \in {row("failed"), row("queued")}
      BY <2>2
    <2> QED
      BY <2>1, <2>3
  <1> QED
    BY <1>1, <1>2, <1>3

LEMMA ExhaustSteps ==
  ASSUME IInv, NEW r \in Requests, ExhaustClaims(r) \/ ExpireRequestLease(r)
  PROVE  IInv'
  <1> DEFINE failed == [request[r] EXCEPT !.status = "failed"]
             lapsed == [request[r] EXCEPT !.leased = FALSE]
  <1>1. UNCHANGED <<job, external, receipt, handling, canonical, calls>>
    BY DEF ExhaustClaims, ExpireRequestLease, records
  <1>2. ExhaustClaims(r) => /\ SetRequest(r, failed) /\ RequestFits(r, failed)
                            /\ failed.status = "failed"
    BY RequestFacts DEF ExhaustClaims, Lapsed, Exists, RequestRow, RequestFits
  <1>3. ExpireRequestLease(r) => /\ SetRequest(r, lapsed) /\ RequestFits(r, lapsed)
                                 /\ lapsed.status = "verifying" /\ Active(r)
    BY RequestFacts DEF ExpireRequestLease, Exists, Active, RequestRow, RequestFits
  <1> HIDE DEF failed, lapsed
  <1> QED
    BY <1>1, <1>2, <1>3, RequestOnlyStep DEF RowIsActive

LEMMA RetrySteps ==
  ASSUME IInv, NEW r \in Requests, Retry(r) \/ RetryDisposition(r)
  PROVE  IInv'
  <1>1. /\ UNCHANGED <<job, external, receipt, handling, canonical, calls>>
        /\ SetRequest(r, Requeued(r)) /\ request[r].status = "failed"
    BY DEF Retry, RetryDisposition, records
  <1>2. /\ RequestFits(r, Requeued(r)) /\ Requeued(r).status = "queued"
        /\ Requeued(r).kind = request[r].kind
    BY <1>1, RequestFacts DEF Requeued, Exists, RequestRow, RequestFits
  <1>3. request[r].kind = "notion_only" => ~Workable(request[r].page)
    BY DEF Retry, RetryDisposition, Workable
  <1> QED
    BY <1>1, <1>2, <1>3, RequestOnlyStep

LEMMA ReportSteps ==
  ASSUME IInv, NEW r \in Requests, ReportPending(r) \/ ReportFailed(r)
  PROVE  IInv'
  <1>1. /\ UNCHANGED <<job, external, receipt, handling, canonical, calls>>
        /\ SetRequest(r, Deferred(r)) \/ SetRequest(r, Failed(r))
        /\ request[r].status = "verifying" /\ Active(r)
    BY DEF ReportPending, ReportFailed, Current, Active, records
  <1> QED
    BY <1>1, ClosedRequests, RequestOnlyStep

LEMMA ReportVerifiedStep ==
  ASSUME IInv, NEW r \in Requests, ReportVerified(r)
  PROVE  IInv'
  <1> DEFINE at == IF request[r].kind = "targeted_local_job" THEN "prepare" ELSE "begin"
             c == [request |-> r, token |-> request[r].token, at |-> at]
  <1>1. /\ calls' = calls \cup {c}
        /\ UNCHANGED <<job, request, external, receipt, handling, canonical>>
    BY DEF ReportVerified, records
  <1>2. c \in Call /\ c.request = r /\ c.at # "complete"
    BY RequestFacts DEF Call, Steps, RequestRow
  <1>3. Exists(r)
    BY DEF ReportVerified, Current, Exists
  <1> HIDE DEF c
  <1>4. TypeOK'
    BY <1>1, <1>2 DEF IInv, TypeOK
  <1>5. ASSUME NEW d \in calls' PROVE d \in calls \/ CallRule(d)'
    BY <1>1, <1>2, <1>3 DEF CallRule, Exists
  <1> QED
    BY <1>1, <1>4, <1>5, SameJobs, SameRequests, SameRecords, KeepStep

LEMMA NewRequestGoesOn ==
  ASSUME IInv, NEW r \in Requests, NEW p \in Pages, NEW n \in Notes, ~Exists(r),
         NEW kind \in {"notion_only", "targeted_local_job"},
         SetRequest(r, NewRequest(kind, p, n)),
         kind = "notion_only" => job'[p].status \notin {"queued", "claimed", "staged"},
         kind = "targeted_local_job" => job'[p].disposition # NoRequest
  PROVE  /\ request' \in [Requests -> RequestRow]
         /\ \A q \in Requests : /\ request'[q].leased => request'[q].status = "verifying"
                                /\ request'[q].status = "verifying" =>
                                     request'[q].token = request'[q].claims
                                /\ RequestGoesOn(q)
  <1> DEFINE row == NewRequest(kind, p, n)
  <1>1. /\ row \in RequestRow /\ row.status = "queued" /\ row.page = p /\ row.note = n
        /\ row.kind = kind /\ ~row.leased
    BY DEF NewRequest, RequestRow
  <1>2. request' = [request EXCEPT ![r] = row]
    BY DEF SetRequest
  <1> HIDE DEF row
  <1>3. /\ request' \in [Requests -> RequestRow] /\ request'[r] = row
        /\ \A q \in Requests \ {r} : request'[q] = request[q]
    BY <1>1, <1>2 DEF IInv, TypeOK
  <1>4. RequestGoesOn(r)
    BY <1>1, <1>3 DEF RequestGoesOn, Workable, Targets
  <1>5. ASSUME NEW q \in Requests \ {r} PROVE RequestGoesOn(q)
    BY <1>3 DEF RequestGoesOn, Exists, Active, Targets
  <1>6. ASSUME NEW q \in Requests
        PROVE  /\ request'[q].leased => request'[q].status = "verifying"
               /\ request'[q].status = "verifying" =>
                    request'[q].token = request'[q].claims
    BY <1>1, <1>3 DEF IInv, TypeOK
  <1> QED
    BY <1>3, <1>4, <1>5, <1>6

LEMMA ReportPublishedStep ==
  ASSUME IInv, NEW r \in Requests, NEW p \in Pages, NEW n \in Notes,
         ReportPublished(r, p, n)
  PROVE  IInv'
  <1> DEFINE row == [job[p] EXCEPT !.status = "failed", !.token = FALSE, !.error = "other"]
  <1>1. /\ UNCHANGED <<external, receipt, handling, canonical, calls>>
        /\ ~Exists(r) /\ SetRequest(r, NewRequest("notion_only", p, n))
    BY DEF ReportPublished, Insertable, records
  <1>2. /\ job' \in [Pages -> JobRow]
        /\ \A q \in Pages : /\ JobRule(q)' /\ JobGoesOn(q)
                            /\ job'[q].leased => job'[q].token
        /\ job'[p].status \notin {"queued", "claimed", "staged"}
    <2>1. CASE job[p].status \in {"absent", "failed", "reconciled"} /\ job' = job
      BY <2>1, SameJobs DEF IInv, TypeOK
    <2>2. CASE Idle(p) /\ SetJob(p, row)
      <3>1. RowFits(p, row) /\ row.status = "failed"
        BY <2>2, JobFacts DEF Idle, JobRow, JobRule, RowFits
      <3> HIDE DEF row
      <3> QED
        BY <2>2, <3>1, JobFits
    <2> QED
      BY <2>1, <2>2 DEF ReportPublished
  <1>3. /\ request' \in [Requests -> RequestRow]
        /\ \A q \in Requests : /\ request'[q].leased => request'[q].status = "verifying"
                               /\ request'[q].status = "verifying" =>
                                    request'[q].token = request'[q].claims
                               /\ RequestGoesOn(q)
    BY <1>1, <1>2, NewRequestGoesOn
  <1>4. TypeOK'
    BY <1>1, <1>2, <1>3 DEF IInv, TypeOK
  <1> QED
    BY <1>1, <1>2, <1>3, <1>4, SameRecords, KeepStep

LEMMA InsertDispositionStep ==
  ASSUME IInv, NEW r \in Requests, NEW p \in Pages, NEW n \in Notes,
         InsertDisposition(r, p, n)
  PROVE  IInv'
  <1> DEFINE row == [job[p] EXCEPT !.disposition = r, !.token = FALSE, !.leased = FALSE]
  <1>1. /\ UNCHANGED <<external, receipt, handling, canonical, calls>>
        /\ ~Exists(r) /\ SetRequest(r, NewRequest("targeted_local_job", p, n))
        /\ SetJob(p, row)
    BY DEF InsertDisposition, Insertable, records
  <1>2. RowFits(p, row) /\ row.disposition # NoRequest
    BY JobFacts, NamesAssumption DEF InsertDisposition, JobRow, JobRule, RowFits, Workable
  <1> HIDE DEF row
  <1>3. /\ request' \in [Requests -> RequestRow]
        /\ \A q \in Requests : /\ request'[q].leased => request'[q].status = "verifying"
                               /\ request'[q].status = "verifying" =>
                                    request'[q].token = request'[q].claims
                               /\ RequestGoesOn(q)
    BY <1>1, <1>2, JobFits, NewRequestGoesOn
  <1>4. TypeOK'
    BY <1>1, <1>2, <1>3, JobFits DEF IInv, TypeOK
  <1> QED
    BY <1>1, <1>2, <1>3, <1>4, JobFits, SameRecords, KeepStep

-----------------------------------------------------------------------------
(* Submissions *)

LEMMA CallFacts ==
  ASSUME IInv, NEW c \in calls
  PROVE  /\ c \in Call /\ c.request \in Requests /\ Exists(c.request) /\ CallRule(c)
         /\ PageOf(c) \in Pages /\ NoteOf(c) \in Notes
  BY RowTypes DEF IInv, CallRule, PageOf, NoteOf

(* The calls a step leaves behind. *)
LEMMA CallGoesOn ==
  ASSUME IInv, NEW c \in calls, NEW at \in Steps, \/ Move(c, at)
                                                  \/ Finish(c)
  PROVE  calls' \subseteq Call
         /\ \A d \in calls' : d \in calls \/ (d = [c EXCEPT !.at = at] /\ Move(c, at))
  BY CallFacts DEF IInv, TypeOK, Call, Move, Finish

LEMMA MovedRule ==
  ASSUME IInv, NEW c \in calls, NEW at \in Steps, RequestGoesOn(c.request),
         at = "complete" =>
           external'[NoteOf(c)].status = "succeeded" /\ external'[NoteOf(c)].page = PageOf(c)
  PROVE  CallRule([c EXCEPT !.at = at])'
  <1> DEFINE d == [c EXCEPT !.at = at]
  <1>1. d.request = c.request /\ d.at = at
    BY CallFacts DEF Call
  <1> HIDE DEF d
  <1>2. CallRule(d)'
    BY <1>1, CallFacts DEF CallRule, CompletedHere, PageOf, NoteOf, RequestGoesOn, Exists
  <1> QED
    BY <1>2 DEF d

TypedRecords ==
  /\ external \in [Notes -> ExternalRow]
  /\ receipt \in [Pages -> Notes \cup {NoNote}]
  /\ handling \in [Pages -> {"none", "pending", "reconciled"}]
  /\ canonical \in [Pages -> Notes \cup {NoNote}]
TypedJobs == job \in [Pages -> JobRow] /\ \A p \in Pages : job[p].leased => job[p].token
TypedRequests ==
  /\ request \in [Requests -> RequestRow]
  /\ \A r \in Requests :
       /\ request[r].leased => request[r].status = "verifying"
       /\ request[r].status = "verifying" => request[r].token = request[r].claims

LEMMA SubmissionStep ==
  ASSUME IInv, NEW c \in calls, NEW at \in Steps, Move(c, at) \/ Finish(c),
         Move(c, at) /\ at = "complete" =>
           external'[NoteOf(c)].status = "succeeded" /\ external'[NoteOf(c)].page = PageOf(c),
         TypedRecords', TypedJobs', TypedRequests', RecordsGoOn,
         \A p \in Pages : JobRule(p)' /\ JobGoesOn(p),
         \A r \in Requests : RequestGoesOn(r)
  PROVE  IInv'
  <1>1. calls' \subseteq Call
        /\ \A d \in calls' : d \in calls \/ (d = [c EXCEPT !.at = at] /\ Move(c, at))
    BY CallGoesOn
  <1>2. TypeOK'
    BY <1>1 DEF TypeOK, TypedRecords, TypedJobs, TypedRequests
  <1>3. RequestGoesOn(c.request)
    BY CallFacts
  <1>4. Move(c, at) => CallRule([c EXCEPT !.at = at])'
    BY <1>3, MovedRule
  <1>5. ASSUME NEW d \in calls' PROVE d \in calls \/ CallRule(d)'
    BY <1>1, <1>4
  <1> QED
    BY <1>2, <1>5, KeepStep

LEMMA Typed ==
  ASSUME IInv
  PROVE  TypedRecords /\ TypedJobs /\ TypedRequests
  BY DEF IInv, TypeOK, TypedRecords, TypedJobs, TypedRequests

(* A submission that writes to no record, job or request. *)
LEMMA QuietSubmission ==
  ASSUME IInv, NEW c \in calls, NEW at \in Steps, Move(c, at) \/ Finish(c),
         Move(c, at) /\ at = "complete" => CompletedHere(c),
         UNCHANGED <<job, request, external, receipt, handling>>,
         canonical' \in [Pages -> Notes \cup {NoNote}]
  PROVE  IInv'
  <1>1. TypedRecords' /\ TypedJobs' /\ TypedRequests'
    BY Typed DEF TypedRecords, TypedJobs, TypedRequests
  <1>2. Move(c, at) /\ at = "complete" =>
          external'[NoteOf(c)].status = "succeeded" /\ external'[NoteOf(c)].page = PageOf(c)
    BY DEF CompletedHere
  <1> QED
    BY <1>1, <1>2, SameJobs, SameRequests, SameRecords, SubmissionStep

LEMMA CanonicalType ==
  ASSUME IInv, canonical' = canonical
  PROVE  canonical' \in [Pages -> Notes \cup {NoNote}]
  BY DEF IInv, TypeOK

LEMMA KnownSteps ==
  ASSUME IInv, NEW c \in calls,
         BeginKnown(c) \/ Lookup(c) \/ RefuseComplete(c) \/ AbandonCall(c)
  PROVE  IInv'
  <1>1. UNCHANGED <<job, request, external, receipt, handling, canonical>>
    BY DEF BeginKnown, Lookup, RefuseComplete, AbandonCall, records
  <1>2. \E at \in Steps :
          /\ Move(c, at) \/ Finish(c)
          /\ Move(c, at) /\ at = "complete" => CompletedHere(c)
    <2>1. CASE BeginKnown(c)
      <3>1. \/ Move(c, "fail") \/ Finish(c)
            \/ CompletedHere(c) /\ Move(c, "complete")
        BY <2>1 DEF BeginKnown
      <3> QED
        BY <3>1 DEF Steps
    <2>2. CASE Lookup(c) \/ RefuseComplete(c) \/ AbandonCall(c)
      <3>1. \/ Move(c, "close deferred") \/ Move(c, "close failed") \/ Move(c, "write")
            \/ Move(c, "fail") \/ Finish(c)
        BY <2>2 DEF Lookup, RefuseComplete, AbandonCall
      <3> QED
        BY <3>1 DEF Steps
    <2> QED
      BY <2>1, <2>2
  <1> QED
    BY <1>1, <1>2, CanonicalType, QuietSubmission

LEMMA WriteStep ==
  ASSUME IInv, NEW c \in calls, Write(c)
  PROVE  IInv'
  <1>1. UNCHANGED <<job, request, external, receipt, handling>>
    BY DEF Write
  <1>2. canonical' \in [Pages -> Notes \cup {NoNote}]
    BY CallFacts DEF Write, IInv, TypeOK
  <1>3. \E at \in {"succeed", "close deferred"} : Move(c, at)
    BY DEF Write
  <1> QED
    BY <1>1, <1>2, <1>3, QuietSubmission DEF Steps

LEMMA ExternalOnly ==
  ASSUME IInv, NEW c \in calls, NEW at \in Steps, Move(c, at),
         at = "complete" =>
           external'[NoteOf(c)].status = "succeeded" /\ external'[NoteOf(c)].page = PageOf(c),
         external' \in [Notes -> ExternalRow],
         \A n \in Notes : external[n].status = "succeeded" => external'[n] = external[n],
         UNCHANGED <<job, request, receipt, handling, canonical>>
  PROVE  IInv'
  <1>1. TypedRecords' /\ TypedJobs' /\ TypedRequests'
    BY Typed DEF TypedRecords, TypedJobs, TypedRequests
  <1>2. RecordsGoOn
    BY DEF RecordsGoOn
  <1> QED
    BY <1>1, <1>2, SameJobs, SameRequests, SubmissionStep

LEMMA BeginStep ==
  ASSUME IInv, NEW c \in calls, Begin(c)
  PROVE  IInv'
  <1> DEFINE row == [external[NoteOf(c)] EXCEPT !.status = "processing", !.stale = FALSE]
  <1>1. /\ Move(c, "lookup") /\ external' = [external EXCEPT ![NoteOf(c)] = row]
        /\ UNCHANGED <<job, request, receipt, handling, canonical>>
    BY CallFacts DEF Begin, IInv, TypeOK
  <1>2. row \in ExternalRow
    BY CallFacts, RowTypes DEF IInv, ExternalRow
  <1>3. external[NoteOf(c)].status # "succeeded"
    BY DEF Begin, Reclaimable
  <1> HIDE DEF row
  <1>4. /\ external' \in [Notes -> ExternalRow]
        /\ \A n \in Notes : external[n].status = "succeeded" => external'[n] = external[n]
    BY <1>1, <1>2, <1>3, CallFacts DEF IInv, TypeOK
  <1> QED
    BY <1>1, <1>4, ExternalOnly DEF Steps

LEMMA SucceedStep ==
  ASSUME IInv, NEW c \in calls, Succeed(c)
  PROVE  IInv'
  <1> DEFINE row == [status |-> "succeeded", page |-> PageOf(c), stale |-> FALSE]
  <1>1. CASE external[NoteOf(c)].status = "processing"
    <2>1. /\ Move(c, "complete") /\ external' = [external EXCEPT ![NoteOf(c)] = row]
          /\ UNCHANGED <<job, request, receipt, handling, canonical>>
      BY <1>1 DEF Succeed
    <2>2. row \in ExternalRow /\ row.status = "succeeded" /\ row.page = PageOf(c)
      BY CallFacts DEF ExternalRow
    <2> HIDE DEF row
    <2>3. /\ external' \in [Notes -> ExternalRow] /\ external'[NoteOf(c)] = row
          /\ \A n \in Notes : external[n].status = "succeeded" => external'[n] = external[n]
      BY <1>1, <2>1, <2>2, CallFacts DEF IInv, TypeOK
    <2> QED
      BY <2>1, <2>2, <2>3, ExternalOnly DEF Steps
  <1>2. CASE external[NoteOf(c)].status # "processing"
    <2>1. /\ Move(c, "close deferred")
          /\ UNCHANGED <<job, request, external, receipt, handling, canonical>>
      BY <1>2 DEF Succeed
    <2> QED
      BY <2>1, CanonicalType, QuietSubmission DEF Steps
  <1> QED
    BY <1>1, <1>2

LEMMA CloseExternalStep ==
  ASSUME IInv, NEW c \in calls, CloseExternal(c)
  PROVE  IInv'
  <1> DEFINE row == [external[NoteOf(c)] EXCEPT !.status = "failed", !.stale = FALSE]
  <1>1. /\ UNCHANGED <<job, request, receipt, handling, canonical>>
        /\ Move(c, "fail") \/ Move(c, "defer")
    BY DEF CloseExternal
  <1>2. row \in ExternalRow
    BY CallFacts, RowTypes DEF IInv, ExternalRow
  <1>3. \/ external[NoteOf(c)].status = "processing"
           /\ external' = [external EXCEPT ![NoteOf(c)] = row]
        \/ external' = external
    BY CallFacts DEF CloseExternal, IInv, TypeOK
  <1> HIDE DEF row
  <1>4. /\ external' \in [Notes -> ExternalRow]
        /\ \A n \in Notes : external[n].status = "succeeded" => external'[n] = external[n]
    BY <1>2, <1>3, CallFacts DEF IInv, TypeOK
  <1> QED
    BY <1>1, <1>4, ExternalOnly DEF Steps

LEMMA StaleStep ==
  ASSUME IInv, NEW n \in Notes, StaleExternal(n)
  PROVE  IInv'
  <1> DEFINE row == [external[n] EXCEPT !.stale = TRUE]
  <1>1. /\ external' = [external EXCEPT ![n] = row]
        /\ UNCHANGED <<job, request, receipt, handling, canonical, calls>>
        /\ external[n].status # "succeeded"
    BY DEF StaleExternal, IInv, TypeOK
  <1>2. row \in ExternalRow
    BY RowTypes DEF IInv, ExternalRow
  <1> HIDE DEF row
  <1>3. TypeOK' /\ RecordsGoOn
    BY <1>1, <1>2 DEF IInv, TypeOK, RecordsGoOn
  <1>4. \A c \in calls' : c \in calls
    BY <1>1
  <1> QED
    BY <1>1, <1>3, <1>4, SameJobs, SameRequests, KeepStep

LEMMA ReceiptGoesOn ==
  ASSUME IInv, NEW p \in Pages, NEW n \in Notes, receipt[p] \in {NoNote, n},
         receipt' = [receipt EXCEPT ![p] = n]
  PROVE  /\ receipt' \in [Pages -> Notes \cup {NoNote}] /\ receipt'[p] = n
         /\ \A q \in Pages : receipt[q] # NoNote => receipt'[q] = receipt[q]
  BY DEF IInv, TypeOK

LEMMA PrepareStep ==
  ASSUME IInv, NEW c \in calls, Prepare(c)
  PROVE  IInv'
  <1> DEFINE p == PageOf(c)
             n == NoteOf(c)
             row == [job[p] EXCEPT !.status = "verified", !.note = n, !.token = FALSE,
                                   !.leased = FALSE, !.error = "none"]
  <1>1. p \in Pages /\ n \in Notes
    BY CallFacts
  <1>2. UNCHANGED <<request, external, handling, canonical>>
    BY DEF Prepare
  <1>3. CASE (Finish(c) \/ Move(c, "fail")) /\ UNCHANGED <<job, receipt>>
    BY <1>2, <1>3, CanonicalType, QuietSubmission DEF Steps
  <1>4. CASE /\ Disposable(p) \/ (job[p].status = "verified" /\ job[p].note = n)
             /\ ReceiptFits(p, n) /\ SetJob(p, row)
             /\ receipt' = [receipt EXCEPT ![p] = n] /\ Move(c, "begin")
    <2>1. RowFits(p, row)
      BY <1>1, <1>4, JobFacts DEF Disposable, JobRow, JobRule, RowFits
    <2> HIDE DEF row, p, n
    <2>2. /\ TypedJobs' /\ \A q \in Pages : JobRule(q)' /\ JobGoesOn(q)
      BY <1>1, <1>4, <2>1, JobFits DEF TypedJobs
    <2>3. TypedRecords' /\ RecordsGoOn
      BY <1>1, <1>2, <1>4, ReceiptGoesOn, Typed DEF TypedRecords, RecordsGoOn, ReceiptFits
    <2>4. TypedRequests'
      BY <1>2, Typed DEF TypedRequests
    <2> QED
      BY <1>2, <1>4, <2>2, <2>3, <2>4, SameRequests, SubmissionStep DEF Steps
  <1> HIDE DEF row
  <1> QED
    BY <1>3, <1>4 DEF Prepare, row

LEMMA CurrentCall ==
  ASSUME IInv, NEW c \in calls, Current(c.request, c.token)
  PROVE  request[c.request].status = "verifying" /\ Active(c.request)
  BY DEF Current, Active

LEMMA CompleteManualStep ==
  ASSUME IInv, NEW c \in calls, CompleteManual(c)
  PROVE  IInv'
  <1> DEFINE p == PageOf(c)
             n == NoteOf(c)
             row == Reconciled(c.request)
  <1>1. /\ p \in Pages /\ n \in Notes /\ c.request \in Requests
        /\ p = request[c.request].page /\ n = request[c.request].note
    BY CallFacts DEF PageOf, NoteOf
  <1>2. /\ UNCHANGED <<job, external, canonical>> /\ Finish(c)
        /\ SetRequest(c.request, row) /\ receipt[p] \in {NoNote, n}
        /\ receipt' = [receipt EXCEPT ![p] = n]
        /\ external[n].status = "succeeded" /\ external[n].page = p
        /\ request[c.request].kind # "targeted_local_job"
        /\ Current(c.request, c.token)
    BY DEF CompleteManual, ManuallyCompletable, Targeted
  <1>3. RequestFits(c.request, row) /\ row.status = "reconciled"
    BY <1>1, <1>2, CurrentCall, ClosedRequests
  <1> HIDE DEF row, p, n
  <1>4. /\ receipt' \in [Pages -> Notes \cup {NoNote}] /\ receipt'[p] = n
        /\ RecordsGoOn
    BY <1>1, <1>2, ReceiptGoesOn DEF RecordsGoOn
  <1>5. request'[c.request] = row
    BY <1>1, <1>2, Typed DEF SetRequest, TypedRequests
  <1>6. Backed(c.request)'
    <2>1. request'[c.request].page = p /\ request'[c.request].note = n
          /\ request'[c.request].kind # "targeted_local_job"
      BY <1>1, <1>2, <1>3, <1>5 DEF RequestFits
    <2> QED
      BY <1>2, <1>4, <2>1 DEF Backed, Targets
  <1>7. TypedRequests' /\ \A r \in Requests : RequestGoesOn(r)
    BY <1>1, <1>2, <1>3, <1>6, FitsGoesOn DEF TypedRequests, RowIsActive
  <1>8. TypedRecords'
    <2>1. handling' \in [Pages -> {"none", "pending", "reconciled"}]
      BY <1>1, Typed DEF CompleteManual, TypedRecords, p
    <2> QED
      BY <1>2, <1>4, <2>1, Typed DEF TypedRecords
  <1>9. TypedJobs'
    BY <1>2, Typed DEF TypedJobs
  <1>10. Finish(c) /\ "fail" \in Steps /\ "fail" # "complete"
    BY <1>2 DEF Steps
  <1> QED
    BY <1>2, <1>4, <1>7, <1>8, <1>9, <1>10, SameJobs, SubmissionStep

LEMMA CompleteDispositionStep ==
  ASSUME IInv, NEW c \in calls, CompleteDisposition(c)
  PROVE  IInv'
  <1> DEFINE p == PageOf(c)
             n == NoteOf(c)
             row == Reconciled(c.request)
             done == [job[p] EXCEPT !.status = "reconciled"]
  <1>1. /\ p \in Pages /\ n \in Notes /\ c.request \in Requests
        /\ p = request[c.request].page /\ n = request[c.request].note
    BY CallFacts DEF PageOf, NoteOf
  <1>2. /\ UNCHANGED <<external, receipt, handling, canonical>> /\ Finish(c)
        /\ SetRequest(c.request, row) /\ SetJob(p, done)
        /\ job[p].status \in {"verified", "reconciled"} /\ job[p].note = n
        /\ receipt[p] = n /\ Current(c.request, c.token)
    BY DEF CompleteDisposition, ReceiptIsExact, records
  <1>3. external[n].status = "succeeded" /\ external[n].page = p
    BY CallFacts DEF CompleteDisposition, CallRule, CompletedHere
  <1>4. RequestFits(c.request, row) /\ row.status = "reconciled"
    BY <1>1, <1>2, CurrentCall, ClosedRequests
  <1>5. RowFits(p, done) /\ done.status = "reconciled" /\ done.note = n
    BY <1>1, <1>2, JobFacts DEF JobRow, JobRule, RowFits
  <1> HIDE DEF row, p, n, done
  <1>6. request'[c.request] = row
    BY <1>1, <1>2, Typed DEF SetRequest, TypedRequests
  <1>7. /\ TypedJobs' /\ \A q \in Pages : JobRule(q)' /\ JobGoesOn(q)
        /\ job'[p] = done
    BY <1>1, <1>2, <1>5, JobFits DEF TypedJobs
  <1>8. Backed(c.request)'
    <2>1. request'[c.request].page = p /\ request'[c.request].note = n
      BY <1>1, <1>4, <1>6 DEF RequestFits
    <2> QED
      BY <1>2, <1>3, <1>5, <1>7, <2>1 DEF Backed
  <1>9. TypedRequests' /\ \A r \in Requests : RequestGoesOn(r)
    BY <1>1, <1>2, <1>4, <1>8, FitsGoesOn DEF TypedRequests, RowIsActive
  <1>10. TypedRecords' /\ RecordsGoOn
    BY <1>2, Typed, SameRecords DEF TypedRecords
  <1>11. Finish(c) /\ "fail" \in Steps /\ "fail" # "complete"
    BY <1>2 DEF Steps
  <1> QED
    BY <1>7, <1>9, <1>10, <1>11, SubmissionStep

LEMMA SettleStep ==
  ASSUME IInv, NEW c \in calls, Settle(c)
  PROVE  IInv'
  <1>1. /\ UNCHANGED <<job, external, receipt, handling, canonical>> /\ Finish(c)
        /\ calls' \subseteq calls
    BY DEF Settle, records, Finish
  <1>2. CASE Current(c.request, c.token)
    <2>1. SetRequest(c.request, Failed(c.request))
          \/ SetRequest(c.request, Deferred(c.request))
      BY <1>2 DEF Settle
    <2> QED
      BY <1>1, <1>2, <2>1, CallFacts, CurrentCall, ClosedRequests, RequestOnlyStep
  <1>3. CASE request' = request
    BY <1>1, <1>3, CanonicalType, QuietSubmission DEF Steps
  <1> QED
    BY <1>2, <1>3 DEF Settle

-----------------------------------------------------------------------------
(* Theorems *)

LEMMA InitInv == Init => IInv
  <1> SUFFICES ASSUME Init PROVE IInv
    OBVIOUS
  <1>1. SomePage \in Pages /\ (CHOOSE n \in Notes : TRUE) \in Notes
    BY RowsAssumption DEF SomePage
  <1>2. job \in [Pages -> JobRow] /\ \A p \in Pages : JobRule(p) /\ ~job[p].leased
    BY DEF Init, JobRow, JobRule
  <1>3. /\ request \in [Requests -> RequestRow]
        /\ \A r \in Requests : request[r].status = "absent" /\ ~request[r].leased
    BY <1>1 DEF Init, RequestRow
  <1>4. external \in [Notes -> ExternalRow]
    BY <1>1 DEF Init, ExternalRow
  <1>5. \A r \in Requests : RequestRule(r)
    BY <1>3 DEF RequestRule, Targets, Exists, Active
  <1> QED
    BY <1>2, <1>3, <1>4, <1>5 DEF Init, IInv, TypeOK

LEMMA NextInv == IInv /\ [Next]_vars => IInv'
  <1> SUFFICES ASSUME IInv, [Next]_vars PROVE IInv'
    OBVIOUS
  <1>1. CASE UNCHANGED vars
    BY <1>1
    DEF vars, IInv, TypeOK, JobRule, RequestRule, CallRule, Targets, Exists, Active,
        Backed, Workable, CompletedHere, PageOf, NoteOf
  <1>2. ASSUME NEW p \in Pages, JobStep(p) \/ OperatorStep(p) PROVE IInv'
    BY <1>2, QueueJobStep, ClaimJobStep, WorkerSteps, FailJobStep, LeaseSteps,
       HandleManuallyStep, AttestSteps, ReleaseSteps
    DEF JobStep, OperatorStep
  <1>3. ASSUME NEW r \in Requests, RequestStep(r) PROVE IInv'
    BY <1>3, ReportPublishedStep, InsertDispositionStep, ClaimDueStep, ExhaustSteps,
       RetrySteps, ReportSteps, ReportVerifiedStep
    DEF RequestStep
  <1>4. ASSUME NEW c \in calls, CallStep(c) PROVE IInv'
    BY <1>4, PrepareStep, BeginStep, KnownSteps, WriteStep, SucceedStep,
       CloseExternalStep, CompleteManualStep, CompleteDispositionStep, SettleStep
    DEF CallStep
  <1> QED
    BY <1>1, <1>2, <1>3, <1>4, StaleStep DEF Next

LEMMA Inductive == Spec => []IInv
  BY InitInv, NextInv, PTL DEF Spec

(* Type correctness of the jobs, requests, records and submissions. *)
THEOREM TypeCorrect == Spec => []TypeOK
  <1>1. IInv => TypeOK
    BY DEF IInv
  <1> QED
    BY <1>1, Inductive, PTL

(* A reconciled request is backed by the external record, the receipt and  *)
(* the job it names, however its submission raced the ones of other        *)
(* requests for the same note, lost its lease or was repeated.             *)
THEOREM ReconciledBacked == Spec => []ReconciledIsBacked
  <1>1. IInv => ReconciledIsBacked
    BY DEF IInv, RequestRule, Backed, ReconciledIsBacked
  <1> QED
    BY <1>1, Inductive, PTL

(* A page whose published post waits for its verification has no job that  *)
(* a worker could dispatch.                                                *)
THEOREM ReportedNotDispatched == Spec => []ReportedPageIsNotDispatched
  <1>1. IInv => ReportedPageIsNotDispatched
    BY DEF IInv, RequestRule, Workable, ReportedPageIsNotDispatched
  <1> QED
    BY <1>1, Inductive, PTL

Closed(p) == Quarantined(p) \/ Handled(p) \/ job[p].attested # "no"
KeptClosed(p) ==
  /\ job'[p].status \in {"claimed", "staged", "dispatched"} =>
       job'[p].status = job[p].status
  /\ job'[p].authorized => job[p].authorized

LEMMA ClosedFacts ==
  ASSUME IInv, NEW p \in Pages, Closed(p)
  PROVE  /\ job[p].status = "queued" => Quarantined(p) \/ Handled(p)
         /\ ~HeldByWorker(p) \/ job[p].status \notin {"claimed", "staged"}
         /\ job[p].status \in {"claimed", "staged"} /\ ~Handled(p) =>
              job[p].disposition # NoRequest
  <1>1. JobRule(p)
    BY DEF IInv
  <1>2. Quarantined(p) => job[p].disposition # NoRequest
    BY DEF Quarantined, Targets, IInv, RequestRule
  <1> QED
    BY <1>1, <1>2 DEF Closed, JobRule, HeldByWorker

(* A row that is written for some page and opens nothing. *)
OpensNothing(p, row) ==
  /\ row.status \notin {"claimed", "staged", "dispatched"} \/ row.status = job[p].status
  /\ row.authorized => job[p].authorized

LEMMA WrittenRow ==
  ASSUME IInv, NEW p \in Pages, NEW q \in Pages, NEW row, SetJob(q, row),
         q = p => OpensNothing(p, row)
  PROVE  KeptClosed(p)
  <1>1. job'[p] = IF p = q THEN row ELSE job[p]
    BY DEF IInv, TypeOK, SetJob
  <1> QED
    BY <1>1 DEF KeptClosed, OpensNothing

(* The step of another page, and the worker's own steps on this one. *)
LEMMA JobStepKeeps ==
  ASSUME IInv, NEW p \in Pages, Closed(p), NEW q \in Pages, JobStep(q)
  PROVE  KeptClosed(p)
  <1>1. CASE q # p
    <2>1. PICK row : SetJob(q, row)
      BY DEF JobStep, QueueJob, ClaimJob, StageJob, AuthorizeJob, DispatchJob, FailJob,
             ExpireJobLease, ReleaseExpired
    <2> QED
      BY <1>1, <2>1, WrittenRow
  <1>2. CASE q = p
    <2>0. job[p] \in JobRow
      BY JobFacts
    <2>1. CASE QueueJob(p)
      <3>1. OpensNothing(p, [job[p] EXCEPT !.status = "queued"])
        BY <2>0 DEF OpensNothing, JobRow
      <3> QED
        BY <2>1, <3>1, WrittenRow DEF QueueJob
    <2>2. ~ClaimJob(p) /\ ~StageJob(p) /\ ~AuthorizeJob(p) /\ ~DispatchJob(p)
      BY ClosedFacts DEF ClaimJob, StageJob, AuthorizeJob, DispatchJob
    <2>3. ASSUME NEW error \in Errors PROVE ~FailJob(p, error)
      BY ClosedFacts DEF FailJob
    <2>4. CASE ExpireJobLease(p)
      <3>1. OpensNothing(p, [job[p] EXCEPT !.leased = FALSE])
        BY <2>0 DEF OpensNothing, JobRow
      <3> QED
        BY <2>4, <3>1, WrittenRow DEF ExpireJobLease
    <2>5. CASE ReleaseExpired(p)
      <3> DEFINE row == [job[p] EXCEPT !.status = "failed", !.token = FALSE, !.error = "other"]
      <3>1. ~job[p].authorized
        BY <2>5, ClosedFacts DEF ReleaseExpired
      <3>2. SetJob(p, row)
        BY <2>5, <3>1 DEF ReleaseExpired
      <3>3. OpensNothing(p, row)
        BY <2>0 DEF OpensNothing, JobRow
      <3> QED
        BY <3>2, <3>3, WrittenRow
    <2> QED
      BY <1>2, <2>1, <2>2, <2>3, <2>4, <2>5 DEF JobStep
  <1> QED
    BY <1>1, <1>2

LEMMA OperatorStepKeeps ==
  ASSUME IInv, NEW p \in Pages, NEW q \in Pages, OperatorStep(q)
  PROVE  KeptClosed(p)
  <1>0. job[q] \in JobRow
    BY JobFacts
  <1>1. CASE HandleManually(q)
    <2>1. OpensNothing(q, ClosedByHand(q))
      BY <1>0 DEF OpensNothing, ClosedByHand, JobRow
    <2> QED
      BY <1>1, <2>1, WrittenRow DEF HandleManually
  <1>2. CASE AttestSuccess(q) \/ AttestScheduling(q)
    <2>1. \A provenance : OpensNothing(q, AttestedRow(q, provenance))
      BY <1>0 DEF OpensNothing, AttestedRow, JobRow
    <2>2. \E provenance : SetJob(q, AttestedRow(q, provenance))
      BY <1>2 DEF AttestSuccess, AttestScheduling, ScheduledByHand
    <2> QED
      BY <2>1, <2>2, WrittenRow
  <1>3. CASE ClaimRelease(q)
    <2>1. OpensNothing(q, [job[q] EXCEPT !.token = TRUE, !.leased = TRUE])
      BY <1>0 DEF OpensNothing, JobRow
    <2> QED
      BY <1>3, <2>1, WrittenRow DEF ClaimRelease
  <1>4. CASE AcknowledgeRelease(q)
    <2>1. OpensNothing(q, [job[q] EXCEPT !.released = TRUE, !.leased = FALSE])
      BY <1>0 DEF OpensNothing, JobRow
    <2> QED
      BY <1>4, <2>1, WrittenRow DEF AcknowledgeRelease
  <1> QED
    BY <1>1, <1>2, <1>3, <1>4 DEF OperatorStep

LEMMA SameJobKeeps ==
  ASSUME NEW p, job' = job
  PROVE  KeptClosed(p)
  BY DEF KeptClosed

LEMMA RequestStepKeeps ==
  ASSUME IInv, NEW p \in Pages, NEW r \in Requests, RequestStep(r)
  PROVE  KeptClosed(p)
  <1>1. ASSUME NEW q \in Pages, NEW n \in Notes, ReportPublished(r, q, n)
        PROVE  KeptClosed(p)
    <2> DEFINE row == [job[q] EXCEPT !.status = "failed", !.token = FALSE, !.error = "other"]
    <2>1. OpensNothing(q, row)
      BY JobFacts DEF OpensNothing, JobRow
    <2>2. job' = job \/ SetJob(q, row)
      BY <1>1 DEF ReportPublished
    <2> QED
      BY <2>1, <2>2, SameJobKeeps, WrittenRow
  <1>2. ASSUME NEW q \in Pages, NEW n \in Notes, InsertDisposition(r, q, n)
        PROVE  KeptClosed(p)
    <2> DEFINE row == [job[q] EXCEPT !.disposition = r, !.token = FALSE, !.leased = FALSE]
    <2>1. OpensNothing(q, row)
      BY JobFacts DEF OpensNothing, JobRow
    <2>2. SetJob(q, row)
      BY <1>2 DEF InsertDisposition
    <2> QED
      BY <2>1, <2>2, WrittenRow
  <1> QED
    BY <1>1, <1>2, SameJobKeeps
    DEF RequestStep, ClaimDue, ExhaustClaims, ExpireRequestLease, Retry,
        RetryDisposition, ReportPending, ReportFailed, ReportVerified

LEMMA CallStepKeeps ==
  ASSUME IInv, NEW p \in Pages, NEW c \in calls, CallStep(c)
  PROVE  KeptClosed(p)
  <1>0. PageOf(c) \in Pages
    BY CallFacts
  <1>1. CASE Prepare(c)
    <2> DEFINE row == [job[PageOf(c)] EXCEPT !.status = "verified", !.note = NoteOf(c),
                         !.token = FALSE, !.leased = FALSE, !.error = "none"]
    <2>1. OpensNothing(PageOf(c), row)
      BY <1>0, JobFacts DEF OpensNothing, JobRow
    <2>2. job' = job \/ SetJob(PageOf(c), row)
      BY <1>1 DEF Prepare
    <2> QED
      BY <1>0, <2>1, <2>2, SameJobKeeps, WrittenRow
  <1>2. CASE CompleteDisposition(c)
    <2> DEFINE row == [job[PageOf(c)] EXCEPT !.status = "reconciled"]
    <2>1. OpensNothing(PageOf(c), row)
      BY <1>0, JobFacts DEF OpensNothing, JobRow
    <2>2. SetJob(PageOf(c), row)
      BY <1>2 DEF CompleteDisposition
    <2> QED
      BY <1>0, <2>1, <2>2, WrittenRow
  <1> QED
    BY <1>1, <1>2, SameJobKeeps
    DEF CallStep, Begin, BeginKnown, Lookup, Write, Succeed, CloseExternal,
        CompleteManual, RefuseComplete, Settle, AbandonCall

(* What was quarantined for a disposition, handled by hand or attested by  *)
(* the operator is closed to the worker: no claim, stage, permit or late   *)
(* expiry brings its job back to the automation.                           *)
THEOREM ClosedStays == Spec => ClosedStaysClosed
  <1> DEFINE Stays == \A p \in Pages : Closed(p) => KeptClosed(p)
  <1>1. ASSUME IInv, Next PROVE Stays
    <2> SUFFICES ASSUME NEW p \in Pages, Closed(p) PROVE KeptClosed(p)
      OBVIOUS
    <2>1. ASSUME NEW n \in Notes, StaleExternal(n) PROVE KeptClosed(p)
      BY <2>1, SameJobKeeps DEF StaleExternal
    <2> QED
      BY <1>1, <2>1, JobStepKeeps, OperatorStepKeeps, RequestStepKeeps, CallStepKeeps
      DEF Next
  <1>2. Stays <=>
          \A p \in Pages :
            Quarantined(p) \/ Handled(p) \/ job[p].attested # "no" =>
              /\ job'[p].status \in {"claimed", "staged", "dispatched"} =>
                   job'[p].status = job[p].status
              /\ job'[p].authorized => job[p].authorized
    BY DEF Closed, KeptClosed
  <1>3. IInv /\ [Next]_vars => [Stays]_vars
    BY <1>1
  <1> HIDE DEF Stays
  <1> QED
    BY <1>2, <1>3, Inductive, PTL DEF Spec, ClosedStaysClosed
=============================================================================
