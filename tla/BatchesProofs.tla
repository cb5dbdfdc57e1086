--------------------------- MODULE BatchesProofs ---------------------------
(***************************************************************************)
(* Publishing batches keep one owner, one review and one job per page, for *)
(* any number of batches, pages and calls in flight.                       *)
(*                                                                         *)
(* The inductive invariant says what the rows of one item may show         *)
(* (ItemRule) and how the items of one page are ordered (PageInv): of two  *)
(* jobs the one of the older revision failed for certain and without       *)
(* evidence, so that the newer one was admitted beside it and the older    *)
(* one can never be recovered.                                             *)
(***************************************************************************)
EXTENDS Batches, SequenceTheorems, TLAPS

ItemRule(i) ==
  /\ HasJob(i) => item[i].state \in {job[i].status, "invalidated"} /\ Decided(i[1])
  /\ ~HasJob(i) =>
       item[i].state \in {"absent", "needs_approval", "invalidated"} /\ attempt[i] = "none"
  /\ item[i].state = "invalidated" => ~Live(i)
  /\ Live(i) => i[2] \notin handled \cup reported
  /\ batch[i[1]].status = "absent" => item[i].state = "absent"
  /\ Open(i) => batch[i[1]].status = "pending_approval"

Older(i, k) == AllowsNewerRevision(i, item[k].revision)
PageRule(i, k) ==
  /\ HasJob(i) /\ HasJob(k) => Older(i, k) \/ Older(k, i)
  /\ Open(i) => ~Open(k) /\ ~Live(k)
PageInv == \A i, k \in Items : i # k /\ i[2] = k[2] => PageRule(i, k)

(* A call that attaches attempts does so to items whose job was created.   *)
CallOK(c) == c \in CreateCalls \/ c \in DecideCalls \/ c \in MaterializeCalls
CallRule(c) == c.op = "materialize" => \A p \in c.todo : HasJob(<<c.batch, p>>)
CallInv == \A c \in calls : CallRule(c)

IInv == TypeOK /\ (\A i \in Items : ItemRule(i)) /\ PageInv /\ CallInv

RowTypes ==
  /\ batch \in [Batches -> BatchRow]
  /\ item \in [Items -> ItemRow]
  /\ job \in [Items -> JobRow]
  /\ attempt \in [Items -> AttemptState]
JobsStay == \A i \in Items : HasJob(i) => HasJob(i)'

-----------------------------------------------------------------------------
(* Types *)

LEMMA ItemIs ==
  /\ \A i \in Items : i[1] \in Batches /\ i[2] \in Pages /\ i = <<i[1], i[2]>>
  /\ \A b \in Batches, p \in Pages :
       <<b, p>> \in Items /\ <<b, p>>[1] = b /\ <<b, p>>[2] = p
  BY DEF Items

LEMMA Rows ==
  ASSUME TypeOK, NEW i \in Items
  PROVE  /\ item[i] \in ItemRow /\ job[i] \in JobRow /\ attempt[i] \in AttemptState
         /\ batch[i[1]] \in BatchRow
         /\ item[i].revision \in 0..MaxRevision
         /\ Live(i) => HasJob(i)
  BY ItemIs DEF TypeOK, ItemRow, Live, HasJob

LEMMA CallTypes ==
  ASSUME TypeOK, NEW c \in calls
  PROVE  /\ CallOK(c)
         /\ c.op = "create" => c \in CreateCalls
         /\ c.op = "decide" => c \in DecideCalls /\ c.batch \in Batches
         /\ c.op \in {"list", "materialize"} => c \in MaterializeCalls /\ c.batch \in Batches
         /\ c.op = "materialize" => c.todo \subseteq Pages
  BY DEF TypeOK, CallOK, CreateCalls, DecideCalls, MaterializeCalls

LEMMA InitInv == Init => IInv
  <1> SUFFICES ASSUME Init PROVE IInv
    OBVIOUS
  <1>1. TypeOK
    BY BoundsAssumption DEF Init, TypeOK, BatchRow, ItemRow, JobRow, AttemptState, Kinds,
       Revisions, AbsentItem, AbsentJob
  <1>2. \A i \in Items : ItemRule(i) /\ ~HasJob(i) /\ ~Open(i)
    BY ItemIs DEF Init, ItemRule, HasJob, Open, Live, AbsentItem, AbsentJob
  <1> QED
    BY <1>1, <1>2 DEF IInv, PageInv, PageRule, CallInv, Init

-----------------------------------------------------------------------------
(* Calls *)

LEMMA NoNewCall ==
  ASSUME IInv, JobsStay, calls' \subseteq calls
  PROVE  (\A c \in calls' : CallOK(c)) /\ CallInv'
  BY CallTypes, ItemIs DEF IInv, TypeOK, CallInv, CallRule, JobsStay

LEMMA NewCall ==
  ASSUME IInv, JobsStay, NEW d, calls' \subseteq calls \cup {d},
         CallOK(d), CallRule(d)
  PROVE  (\A c \in calls' : CallOK(c)) /\ CallInv'
  <1>1. \A c \in calls \cup {d} : CallOK(c) /\ CallRule(c)
    BY CallTypes DEF IInv, CallInv
  <1>2. ASSUME NEW c, CallOK(c), CallRule(c), NEW p \in c.todo, c.op = "materialize"
        PROVE  HasJob(<<c.batch, p>>)'
    <2>1. c.batch \in Batches /\ p \in Pages
      BY <1>2 DEF CallOK, CreateCalls, DecideCalls, MaterializeCalls
    <2> QED
      BY <1>2, <2>1, ItemIs DEF CallRule, JobsStay
  <1> QED
    BY <1>1, <1>2 DEF CallInv, CallRule

\* A queued item has its job.
LEMMA QueuedHaveJobs ==
  ASSUME IInv, NEW b \in Batches
  PROVE  /\ QueuedItems(b) \subseteq Pages
         /\ \A p \in QueuedItems(b) : HasJob(<<b, p>>)
  BY ItemIs DEF QueuedItems, IInv, ItemRule

LEMMA MaterializeCall ==
  ASSUME IInv, NEW b \in Batches, NEW todo \in SUBSET Pages
  PROVE  CallOK([op |-> "materialize", batch |-> b, todo |-> todo])
  BY DEF CallOK, MaterializeCalls

(* A step that leaves the rows of the batches alone. *)
LEMMA QuietStep ==
  ASSUME IInv, UNCHANGED <<handled, reported, batch, item, job, attempt>>,
         source' \in [Pages -> Revisions], hold' \in Items \cup {NoItem},
         (\A c \in calls' : CallOK(c)) /\ CallInv'
  PROVE  IInv'
  <1>1. TypeOK'
    BY DEF IInv, TypeOK, CallOK
  <1>2. \A i \in Items : ItemRule(i)'
    BY DEF IInv, ItemRule, HasJob, Live, Open, Decided
  <1>3. PageInv'
    BY DEF IInv, PageInv, PageRule, HasJob, Live, Open, Older, AllowsNewerRevision
  <1> QED
    BY <1>1, <1>2, <1>3 DEF IInv

LEMMA JobsStaySame ==
  ASSUME job' = job
  PROVE  JobsStay
  BY DEF JobsStay, HasJob

LEMMA OutsideStep ==
  ASSUME IInv,
         \/ \E p \in Pages : EditPost(p)
         \/ \E i \in Items : TakeHold(i)
         \/ ReleaseHold
         \/ \E c \in calls : AbandonCall(c)
  PROVE  IInv'
  <1>1. /\ UNCHANGED <<handled, reported, batch, item, job, attempt>>
        /\ calls' \subseteq calls
    BY DEF EditPost, TakeHold, ReleaseHold, AbandonCall, posts, Ends
  <1>2. source' \in [Pages -> Revisions] /\ hold' \in Items \cup {NoItem}
    <2>1. ASSUME NEW p \in Pages, EditPost(p) PROVE source' \in [Pages -> Revisions]
      <3>1. source[p] + 1 \in Revisions
        BY <2>1, BoundsAssumption DEF EditPost, IInv, TypeOK, Revisions
      <3> QED
        BY <2>1, <3>1 DEF EditPost, IInv, TypeOK
    <2> QED
      BY <2>1 DEF EditPost, TakeHold, ReleaseHold, AbandonCall, posts, IInv, TypeOK
  <1> QED
    BY <1>1, <1>2, JobsStaySame, NoNewCall, QuietStep

LEMMA ReadSelectionStep ==
  ASSUME IInv, NEW kind \in Kinds, NEW selected \in SUBSET Pages,
         ReadSelection(kind, selected)
  PROVE  IInv'
  <1> DEFINE unblocked == {p \in selected : ~Blocked(p, source[p], {})}
             read == [p \in selected |-> IF p \in unblocked THEN source[p] ELSE 0]
             d == [op |-> "create", kind |-> kind, read |-> read]
  <1>1. /\ calls' = calls \cup {d} /\ selected # {}
        /\ UNCHANGED <<posts, batch, item, job, attempt, hold>>
    BY DEF ReadSelection, Starts
  <1>2. \A p \in selected : source[p] \in 0..MaxRevision /\ 0 \in 0..MaxRevision
    BY BoundsAssumption DEF IInv, TypeOK, Revisions
  <1> HIDE DEF unblocked
  <1>3. read \in [selected -> 0..MaxRevision]
    BY <1>2
  <1> HIDE DEF read
  <1>4. d \in CreateCalls
    BY <1>1, <1>3 DEF CreateCalls
  <1>5. CallRule(d)
    BY DEF CallRule
  <1> HIDE DEF d
  <1> QED
    BY <1>1, <1>4, <1>5, JobsStaySame, NewCall, QuietStep DEF CallOK, posts, IInv, TypeOK

LEMMA ApproveStep ==
  ASSUME IInv, NEW b \in Batches, Approve(b)
  PROVE  IInv'
  <1>1. UNCHANGED <<posts, batch, item, job, attempt, hold>>
    BY DEF Approve
  <1>2. ASSUME calls' = calls \cup {[op |-> "decide", batch |-> b, decided |-> <<>>]}
        PROVE  IInv'
    <2> DEFINE d == [op |-> "decide", batch |-> b, decided |-> <<>>]
    <2>1. <<>> \in [{} -> BOOLEAN]
      <3>1. <<>> \in [1..Len(<<>>) -> BOOLEAN] /\ Len(<<>>) = 0
        BY EmptySeq, LenProperties
      <3>2. 1..0 = {}
        OBVIOUS
      <3> QED
        BY <3>1, <3>2
    <2>2. d \in DecideCalls
      BY <2>1 DEF DecideCalls
    <2>3. CallRule(d)
      BY DEF CallRule
    <2>4. calls' \subseteq calls \cup {d}
      BY <1>2
    <2> HIDE DEF d
    <2> QED
      BY <1>1, <2>2, <2>3, <2>4, JobsStaySame, NewCall, QuietStep
      DEF CallOK, posts, IInv, TypeOK
  <1>3. ASSUME calls' = calls \cup {[op |-> "materialize", batch |-> b,
                                     todo |-> QueuedItems(b)]}
        PROVE  IInv'
    <2> DEFINE d == [op |-> "materialize", batch |-> b, todo |-> QueuedItems(b)]
    <2>1. CallOK(d) /\ CallRule(d)
      BY QueuedHaveJobs, MaterializeCall DEF CallRule
    <2>2. calls' \subseteq calls \cup {d}
      BY <1>3
    <2> HIDE DEF d
    <2> QED
      BY <1>1, <2>1, <2>2, JobsStaySame, NewCall, QuietStep DEF posts, IInv, TypeOK
  <1> QED
    BY <1>2, <1>3 DEF Approve, Starts

LEMMA ReadDecisionStep ==
  ASSUME IInv, NEW c \in calls, NEW p \in Pages, ReadDecision(c, p)
  PROVE  IInv'
  <1> DEFINE b == c.batch
             bit == source[p] = item[<<c.batch, p>>].revision
             decided == [q \in DOMAIN c.decided \cup {p} |->
                           IF q = p THEN bit ELSE c.decided[q]]
             d == [c EXCEPT !.decided = decided]
  <1>1. /\ calls' \subseteq calls \cup {d} /\ c.op = "decide"
        /\ UNCHANGED <<posts, batch, item, job, attempt, hold>>
    BY DEF ReadDecision, Continues
  <1>2. c \in DecideCalls /\ b \in Batches
    BY <1>1, CallTypes DEF IInv
  <1>3. PICK S \in SUBSET Pages : c \in [op : {"decide"}, batch : Batches,
                                         decided : [S -> BOOLEAN]]
    BY <1>2 DEF DecideCalls
  <1>4. bit \in BOOLEAN /\ S \cup {p} \in SUBSET Pages
    OBVIOUS
  <1> HIDE DEF bit
  <1>5. decided \in [S \cup {p} -> BOOLEAN]
    BY <1>3, <1>4
  <1> HIDE DEF decided
  <1>6. d \in DecideCalls /\ d.op = "decide"
    BY <1>3, <1>4, <1>5 DEF DecideCalls
  <1> HIDE DEF d
  <1>7. CallRule(d)
    BY <1>6 DEF CallRule
  <1> QED
    BY <1>1, <1>6, <1>7, JobsStaySame, NewCall, QuietStep DEF CallOK, posts, IInv, TypeOK

LEMMA ListStep ==
  ASSUME IInv, NEW c \in calls, ListApproved(c)
  PROVE  IInv'
  <1> DEFINE d == [op |-> "materialize", batch |-> c.batch, todo |-> QueuedItems(c.batch)]
  <1>1. /\ calls' \subseteq calls \cup {d} /\ c.batch \in Batches
        /\ UNCHANGED <<posts, batch, item, job, attempt, hold>>
    BY CallTypes DEF ListApproved, Continues, IInv
  <1>2. CallOK(d) /\ CallRule(d)
    BY <1>1, QueuedHaveJobs, MaterializeCall DEF CallRule
  <1> HIDE DEF d
  <1> QED
    BY <1>1, <1>2, JobsStaySame, NewCall, QuietStep DEF posts, IInv, TypeOK

-----------------------------------------------------------------------------
(* The worker *)

(* A live item's rows move on: its job stays the one live job of the page, *)
(* or fails.                                                               *)
LEMMA WorkStep ==
  ASSUME IInv, NEW i \in Items, Live(i),
         NEW row \in JobRow, NEW irow \in ItemRow, NEW x \in AttemptState,
         job' = [job EXCEPT ![i] = row], item' = [item EXCEPT ![i] = irow],
         attempt' = [attempt EXCEPT ![i] = x],
         irow.revision = item[i].revision,
         row.status \in {"claimed", "submitted", "failed"},
         \/ irow.state = row.status
         \/ irow.state = "invalidated" /\ row.status = "failed",
         UNCHANGED <<source, handled, reported, batch, hold, calls>>
  PROVE  IInv'
  <1>1. TypeOK'
    BY DEF IInv, TypeOK
  <1>2. /\ job'[i] = row /\ item'[i] = irow /\ attempt'[i] = x
        /\ \A k \in Items \ {i} :
             job'[k] = job[k] /\ item'[k] = item[k] /\ attempt'[k] = attempt[k]
        /\ \A k \in Items : item'[k].revision = item[k].revision
    BY DEF IInv, TypeOK
  <1>3. HasJob(i) /\ HasJob(i)' /\ ~Open(i)'
    BY <1>2 DEF HasJob, Live, Open
  <1>4. \A k \in Items : HasJob(k)' = HasJob(k)
    BY <1>2, <1>3 DEF HasJob
  <1>5. \A k \in Items : ItemRule(k)'
    <2>1. ItemRule(i)'
      BY <1>2, <1>3 DEF IInv, ItemRule, HasJob, Live, Open, Decided
    <2>2. \A k \in Items \ {i} : ItemRule(k)'
      BY <1>2 DEF IInv, ItemRule, HasJob, Live, Open, Decided
    <2> QED
      BY <2>1, <2>2
  <1>6. ASSUME NEW k \in Items, NEW l \in Items, k # l, k[2] = l[2]
        PROVE  PageRule(k, l)'
    <2>1. PageRule(k, l) /\ PageRule(l, k)
      BY <1>6 DEF IInv, PageInv
    <2>2. Older(k, l) => k # i
      BY DEF Older, AllowsNewerRevision, Live
    <2>3. Older(k, l) => Older(k, l)'
      BY <1>2, <2>2 DEF Older, AllowsNewerRevision
    <2>4. Older(l, k) => l # i
      BY DEF Older, AllowsNewerRevision, Live
    <2>5. Older(l, k) => Older(l, k)'
      BY <1>2, <2>4 DEF Older, AllowsNewerRevision
    <2>6. Open(k)' => ~Open(l)' /\ ~Live(l)'
      BY <1>2, <1>3, <2>1 DEF PageRule, Open, Live
    <2> QED
      BY <1>4, <2>1, <2>3, <2>5, <2>6 DEF PageRule
  <1>7. CallInv'
    BY <1>4, CallTypes, ItemIs DEF IInv, CallInv, CallRule
  <1> QED
    BY <1>1, <1>5, <1>6, <1>7 DEF IInv, PageInv

LEMMA FollowStep ==
  ASSUME IInv, NEW i \in Items, Live(i), NEW row \in JobRow, NEW x \in AttemptState,
         row.status \in {"claimed", "submitted", "failed"},
         SetJob(i, row), attempt' = [attempt EXCEPT ![i] = x],
         UNCHANGED <<source, handled, reported, batch, hold, calls>>
  PROVE  IInv'
  <1> DEFINE irow == [item[i] EXCEPT !.state = row.status]
  <1>1. item[i] \in ItemRow /\ item[i].state # "invalidated"
    BY Rows DEF IInv, ItemRule
  <1>2. irow \in ItemRow /\ irow.state = row.status /\ irow.revision = item[i].revision
    BY <1>1 DEF ItemRow
  <1>3. item' = [item EXCEPT ![i] = irow] /\ job' = [job EXCEPT ![i] = row]
    BY <1>1 DEF SetJob, IInv, TypeOK
  <1> HIDE DEF irow
  <1> QED
    BY <1>2, <1>3, WorkStep

LEMMA WorkerSteps ==
  ASSUME IInv, NEW i \in Items, Claim(i) \/ InvalidateItem(i) \/ Fail(i) \/ Submit(i)
  PROVE  IInv'
  <1>0. /\ job[i] \in JobRow /\ item[i] \in ItemRow /\ attempt[i] \in AttemptState
        /\ Live(i)
        /\ UNCHANGED <<source, handled, reported, batch, hold, calls>>
    BY Rows DEF IInv, Live, Claim, InvalidateItem, Fail, Submit, posts
  <1>1. CASE Claim(i)
    <2> DEFINE row == [job[i] EXCEPT !.status = "claimed"]
    <2>1. row \in JobRow /\ row.status = "claimed" /\ SetJob(i, row)
      BY <1>0, <1>1 DEF JobRow, Claim
    <2>2. attempt' = [attempt EXCEPT ![i] = attempt[i]]
      BY <1>1 DEF Claim, IInv, TypeOK
    <2> HIDE DEF row
    <2> QED
      BY <1>0, <2>1, <2>2, FollowStep
  <1>2. CASE InvalidateItem(i)
    <2> DEFINE row == [job[i] EXCEPT !.status = "failed"]
               irow == [item[i] EXCEPT !.state = "invalidated"]
    <2>1. row \in JobRow /\ row.status = "failed"
      BY <1>0 DEF JobRow
    <2>2. irow \in ItemRow /\ irow.state = "invalidated" /\ irow.revision = item[i].revision
      BY <1>0 DEF ItemRow
    <2>3. /\ job' = [job EXCEPT ![i] = row] /\ item' = [item EXCEPT ![i] = irow]
          /\ attempt' = [attempt EXCEPT ![i] = attempt[i]]
      BY <1>2 DEF InvalidateItem, IInv, TypeOK
    <2> HIDE DEF row, irow
    <2> QED
      BY <1>0, <2>1, <2>2, <2>3, WorkStep
  <1>3. CASE Fail(i)
    <2>1. PICK evidence \in BOOLEAN, outcome \in {"known_failed", "other"} :
             /\ SetJob(i, [status |-> "failed", evidence |-> evidence])
             /\ attempt' = [attempt EXCEPT ![i] = outcome]
      BY <1>3 DEF Fail
    <2> DEFINE row == [status |-> "failed", evidence |-> evidence]
    <2>2. row \in JobRow /\ row.status = "failed" /\ outcome \in AttemptState
      BY DEF JobRow, AttemptState
    <2>3. SetJob(i, row)
      BY <2>1
    <2> HIDE DEF row
    <2> QED
      BY <1>0, <2>1, <2>2, <2>3, FollowStep
  <1>4. CASE Submit(i)
    <2> DEFINE row == [status |-> "submitted", evidence |-> TRUE]
    <2>1. row \in JobRow /\ row.status = "submitted" /\ "other" \in AttemptState
      BY DEF JobRow, AttemptState
    <2>2. SetJob(i, row) /\ attempt' = [attempt EXCEPT ![i] = "other"]
      BY <1>4 DEF Submit
    <2> HIDE DEF row
    <2> QED
      BY <1>0, <2>1, <2>2, FollowStep
  <1> QED
    BY <1>1, <1>2, <1>3, <1>4

-----------------------------------------------------------------------------
(* Who may become the owner of a page *)

(* Where nothing blocks a revision, no other item of the page is open or   *)
(* live, and the job of one that has a job let the newer revision in.      *)
LEMMA UnblockedPage ==
  ASSUME IInv, NEW p \in Pages, NEW revision, NEW except, ~Blocked(p, revision, except)
  PROVE  /\ p \notin handled \cup reported
         /\ \A k \in Items \ except : k[2] = p =>
              /\ ~Open(k) /\ ~Live(k)
              /\ HasJob(k) => AllowsNewerRevision(k, revision)
  <1> SUFFICES ASSUME NEW k \in Items, k \notin except, k[2] = p
               PROVE  /\ ~Open(k) /\ ~Live(k)
                      /\ HasJob(k) => AllowsNewerRevision(k, revision)
    BY DEF Blocked
  <1>1. ~Blocks(k, revision)
    BY DEF Blocked
  <1>2. HasJob(k) => AllowsNewerRevision(k, revision) /\ job[k].status = "failed"
    BY <1>1 DEF Blocks, AllowsNewerRevision
  <1>3. ~Live(k)
    BY <1>2 DEF Live, HasJob
  <1>4. Open(k) => HasJob(k)
    BY <1>1 DEF Blocks, Active, Open
  <1>5. HasJob(k) => ~Open(k)
    BY <1>2 DEF IInv, ItemRule, Open
  <1> QED
    BY <1>2, <1>3, <1>4, <1>5

(* A spent job that nothing blocks is queued again. *)
LEMMA RecoverStep ==
  ASSUME IInv, NEW i \in Items, Recover(i)
  PROVE  IInv'
  <1> DEFINE row == [AbsentJob EXCEPT !.status = "queued"]
             irow == [item[i] EXCEPT !.state = "queued"]
  <1>1. item[i] \in ItemRow /\ item[i].state = "failed"
    BY Rows DEF IInv, Recover, RecoveryEligible
  <1>2. /\ row \in JobRow /\ row.status = "queued"
        /\ irow \in ItemRow /\ irow.state = "queued" /\ irow.revision = item[i].revision
    BY <1>1 DEF AbsentJob, JobRow, ItemRow
  <1>3. /\ job' = [job EXCEPT ![i] = row] /\ item' = [item EXCEPT ![i] = irow]
        /\ attempt' = [attempt EXCEPT ![i] = "active"]
        /\ UNCHANGED <<source, handled, reported, batch, hold, calls>>
    BY <1>1 DEF Recover, SetJob, posts, IInv, TypeOK, AbsentJob
  <1> HIDE DEF row, irow
  <1>4. /\ i[2] \notin handled \cup reported
        /\ \A k \in Items \ {i} : k[2] = i[2] =>
              ~Open(k) /\ ~Live(k) /\ (HasJob(k) => Older(k, i))
    BY ItemIs, UnblockedPage DEF Recover, RecoveryEligible, Older
  <1>5. HasJob(i) /\ Decided(i[1])
    BY DEF Recover, RecoveryEligible, HasJob, Decided
  <1>6. TypeOK'
    BY <1>2, <1>3 DEF IInv, TypeOK, AttemptState
  <1>7. /\ job'[i] = row /\ item'[i] = irow /\ attempt'[i] = "active"
        /\ \A k \in Items \ {i} :
             job'[k] = job[k] /\ item'[k] = item[k] /\ attempt'[k] = attempt[k]
        /\ \A k \in Items : item'[k].revision = item[k].revision
    BY <1>2, <1>3 DEF IInv, TypeOK
  <1>8. /\ HasJob(i)' /\ ~Open(i)'
        /\ \A k \in Items : HasJob(k)' = HasJob(k)
    BY <1>2, <1>5, <1>7 DEF HasJob, Open
  <1>9. \A k \in Items : ItemRule(k)'
    <2>1. ItemRule(i)'
      BY <1>2, <1>3, <1>4, <1>5, <1>7 DEF IInv, ItemRule, HasJob, Live, Open, Decided
    <2>2. \A k \in Items \ {i} : ItemRule(k)'
      BY <1>3, <1>7 DEF IInv, ItemRule, HasJob, Live, Open, Decided
    <2> QED
      BY <2>1, <2>2
  <1>10. ASSUME NEW k \in Items, NEW l \in Items, k # l, k[2] = l[2]
         PROVE  PageRule(k, l)'
    <2>1. PageRule(k, l)
      BY <1>10 DEF IInv, PageInv
    <2>2. k # i /\ Older(k, l) => Older(k, l)'
      BY <1>7 DEF Older, AllowsNewerRevision
    <2>3. l # i /\ Older(l, k) => Older(l, k)'
      BY <1>7 DEF Older, AllowsNewerRevision
    <2>4. HasJob(k) /\ HasJob(l) =>
            (k # i /\ Older(k, l)) \/ (l # i /\ Older(l, k))
      BY <1>4, <1>10, <2>1 DEF PageRule
    <2>5. Open(k)' => ~Open(l)' /\ ~Live(l)'
      BY <1>4, <1>7, <1>8, <1>10, <2>1 DEF PageRule, Open, Live
    <2> QED
      BY <1>8, <2>2, <2>3, <2>4, <2>5 DEF PageRule
  <1>11. CallInv'
    BY <1>3, <1>8, CallTypes, ItemIs DEF IInv, CallInv, CallRule
  <1> QED
    BY <1>6, <1>9, <1>10, <1>11 DEF IInv, PageInv

-----------------------------------------------------------------------------
(* The operator takes a page from the batches *)

LEMMA CloseStep ==
  ASSUME IInv, NEW p \in Pages, NEW open \in {"needs_approval", "invalidated"},
         Closable(p), CloseJobs(p, open),
         handled' \subseteq handled \cup {p}, reported' \subseteq reported \cup {p},
         UNCHANGED <<source, batch, attempt, hold, calls>>
  PROVE  IInv'
  <1>1. ASSUME NEW i \in Items
        PROVE  /\ item'[i] \in ItemRow /\ job'[i] \in JobRow
               /\ item'[i].revision = item[i].revision
               /\ HasJob(i)' = HasJob(i) /\ (Open(i)' => Open(i)) /\ (Live(i)' => Live(i))
               /\ Live(i)' => i[2] # p
               /\ ItemRule(i)'
    <2>1. item[i] \in ItemRow /\ job[i] \in JobRow
      BY Rows DEF IInv
    <2>2. CASE i[2] # p
      <3>1. item'[i] = item[i] /\ job'[i] = job[i]
        BY <2>2 DEF CloseJobs
      <3> QED
        BY <2>1, <2>2, <3>1, ItemIs DEF IInv, ItemRule, HasJob, Live, Open, Decided
    <2>3. CASE i[2] = p /\ HasJob(i)
      <3>1. job'[i] = [job[i] EXCEPT !.status = "failed"] /\ ~Open(i)
        BY <2>1, <2>3 DEF CloseJobs, IInv, ItemRule, Open, JobRow
      <3>2. \/ item'[i] = [item[i] EXCEPT !.state = "failed"]
            \/ item'[i] = item[i] /\ item[i].state \in {"invalidated", "failed"}
        <4>1. item[i].state \in {job[i].status, "invalidated"}
          BY <2>3 DEF IInv, ItemRule
        <4>2. job[i].status \in {"queued", "claimed", "failed"}
          BY <2>1, <2>3 DEF Closable, JobRow, HasJob
        <4>3. item'[i] = IF Active(i) THEN [item[i] EXCEPT !.state = "failed"] ELSE item[i]
          BY <2>3, <3>1 DEF CloseJobs, Open, Active
        <4> QED
          BY <4>1, <4>2, <4>3 DEF Active
      <3>3. /\ job'[i] \in JobRow /\ job'[i].status = "failed"
            /\ item'[i] \in ItemRow /\ item'[i].state \in {"invalidated", "failed"}
            /\ item'[i].revision = item[i].revision
        BY <2>1, <3>1, <3>2 DEF JobRow, ItemRow
      <3> QED
        BY <2>3, <3>3, ItemIs DEF IInv, ItemRule, HasJob, Live, Open, Decided
    <2>4. CASE i[2] = p /\ ~HasJob(i)
      <3>1. job'[i] = job[i]
        BY <2>4 DEF CloseJobs
      <3>2. \/ item'[i] = [item[i] EXCEPT !.state = open] /\ Open(i)
            \/ item'[i] = item[i]
        <4>1. item[i].state \in {"absent", "needs_approval", "invalidated"}
          BY <2>4 DEF IInv, ItemRule
        <4>2. item'[i] = IF ~Active(i) THEN item[i]
                         ELSE [item[i] EXCEPT !.state = IF Open(i) THEN open ELSE "failed"]
          BY <2>4 DEF CloseJobs, Open, Active
        <4> QED
          BY <4>1, <4>2 DEF Active, Open
      <3>3. /\ item'[i] \in ItemRow /\ item'[i].revision = item[i].revision
            /\ \/ item'[i].state = open /\ Open(i)
               \/ item'[i].state = item[i].state
        BY <2>1, <3>2 DEF ItemRow
      <3> QED
        BY <2>1, <2>4, <3>1, <3>3, ItemIs
        DEF IInv, ItemRule, HasJob, Live, Open, Decided
    <2> QED
      BY <2>2, <2>3, <2>4
  <1>2. ASSUME NEW i \in Items, NEW k \in Items
        PROVE  Older(i, k) => Older(i, k)'
    <2>1. job[i].status = "failed" => job'[i] = job[i]
      BY Rows DEF CloseJobs, IInv, JobRow
    <2> QED
      BY <1>1, <2>1 DEF Older, AllowsNewerRevision
  <1>3. ASSUME NEW i \in Items, NEW k \in Items, i # k, i[2] = k[2]
        PROVE  PageRule(i, k)'
    <2>1. PageRule(i, k)
      BY <1>3 DEF IInv, PageInv
    <2> QED
      BY <1>1, <1>2, <2>1 DEF PageRule
  <1>4. TypeOK'
    <2>1. item' \in [Items -> ItemRow] /\ job' \in [Items -> JobRow]
      BY <1>1 DEF CloseJobs
    <2> QED
      BY <2>1 DEF IInv, TypeOK
  <1>5. CallInv'
    BY <1>1, CallTypes, ItemIs DEF IInv, CallInv, CallRule
  <1> QED
    BY <1>1, <1>3, <1>4, <1>5 DEF IInv, PageInv

LEMMA OperatorSteps ==
  ASSUME IInv, NEW p \in Pages, ReportElsewhere(p) \/ HandleManually(p)
  PROVE  IInv'
  <1>1. CASE ReportElsewhere(p)
    BY <1>1, CloseStep DEF ReportElsewhere
  <1>2. CASE HandleManually(p)
    BY <1>2, CloseStep DEF HandleManually
  <1> QED
    BY <1>1, <1>2

-----------------------------------------------------------------------------
(* A manifest is stored *)

LEMMA CreateBatchStep ==
  ASSUME IInv, NEW c \in calls, NEW b \in Batches, CreateBatch(c, b)
  PROVE  IInv'
  <1> DEFINE admitted == {p \in DOMAIN c.read : c.read[p] # 0 /\ ~Blocked(p, c.read[p], {})}
             gone == Superseded(c.kind)
             New(i) == i[1] = b /\ i[2] \in admitted
  <1>1. /\ c.op = "create" /\ batch[b].status = "absent"
        /\ StoreBatch(b, c, admitted) /\ calls' \subseteq calls
        /\ UNCHANGED <<source, handled, reported, job, attempt, hold>>
    BY DEF CreateBatch, Ends, posts
  <1>2. c.kind \in Kinds
    BY <1>1, CallTypes DEF IInv, CreateCalls
  <1>3. /\ DOMAIN c.read \in SUBSET Pages
        /\ \A p \in DOMAIN c.read : c.read[p] \in 0..MaxRevision
    <2>1. c \in CreateCalls
      BY <1>1, CallTypes DEF IInv
    <2>2. PICK S \in SUBSET Pages : c.read \in [S -> 0..MaxRevision]
      BY <2>1 DEF CreateCalls
    <2> QED
      BY <2>2
  <1>4. \A d \in gone : d \in Batches /\ batch[d].status = "pending_approval"
    BY DEF Superseded
  <1>5. \A p \in admitted : /\ p \in Pages
                            /\ \A k \in Items : k[2] = p => ~Open(k) /\ ~Live(k)
    BY <1>3, UnblockedPage
  <1>6. /\ batch' = [d \in Batches |->
             CASE d = b -> [status |-> "pending_approval", kind |-> c.kind,
                            selected |-> DOMAIN c.read]
               [] d \in gone -> [batch[d] EXCEPT !.status = "superseded"]
               [] OTHER -> batch[d]]
        /\ item' = [i \in Items |->
             CASE New(i) -> [state |-> "needs_approval", revision |-> c.read[i[2]]]
               [] i[1] \in gone /\ Open(i) -> [item[i] EXCEPT !.state = "invalidated"]
               [] OTHER -> item[i]]
    BY <1>1 DEF StoreBatch
  <1>7. \A i \in Items : New(i) => c.read[i[2]] \in 0..MaxRevision
    BY <1>3
  <1> HIDE DEF admitted, gone
  <1>8. ASSUME NEW i \in Items
        PROVE  /\ item'[i] \in ItemRow
               /\ i[1] = b => item[i].state = "absent" /\ ~HasJob(i)
               /\ \/ New(i) /\ item'[i].state = "needs_approval"
                  \/ /\ ~New(i) /\ Open(i) /\ i[1] \in gone
                     /\ item'[i].state = "invalidated"
                     /\ item'[i].revision = item[i].revision
                  \/ ~New(i) /\ ~(Open(i) /\ i[1] \in gone) /\ item'[i] = item[i]
    <2>1. item[i] \in ItemRow
      BY Rows DEF IInv
    <2>2. i[1] = b => item[i].state = "absent" /\ ~HasJob(i)
      BY <1>1 DEF IInv, ItemRule, HasJob, Decided
    <2>3. CASE New(i)
      <3>1. item'[i] = [state |-> "needs_approval", revision |-> c.read[i[2]]]
        BY <1>1, <1>4, <1>6, <2>3
      <3>2. c.read[i[2]] \in 0..MaxRevision
        BY <1>7, <2>3
      <3>3. item'[i] \in ItemRow /\ item'[i].state = "needs_approval"
        BY <3>1, <3>2 DEF ItemRow
      <3> QED
        BY <2>2, <2>3, <3>3
    <2>4. CASE ~New(i) /\ Open(i) /\ i[1] \in gone
      <3>1. item'[i] = [item[i] EXCEPT !.state = "invalidated"]
        BY <1>6, <2>4
      <3> QED
        BY <2>1, <2>2, <2>4, <3>1 DEF ItemRow
    <2>5. CASE ~New(i) /\ ~(Open(i) /\ i[1] \in gone)
      BY <1>6, <2>1, <2>2, <2>5
    <2> QED
      BY <2>3, <2>4, <2>5
  <1>9. ASSUME NEW d \in Batches
        PROVE  /\ batch'[d] \in BatchRow
               /\ d = b => batch'[d].status = "pending_approval"
               /\ d \in gone => d # b /\ batch'[d].status = "superseded"
               /\ d # b /\ d \notin gone => batch'[d] = batch[d]
    <2>1. batch[d] \in BatchRow
      BY DEF IInv, TypeOK
    <2>2. CASE d = b
      BY <1>1, <1>2, <1>3, <1>4, <1>6, <2>2 DEF BatchRow
    <2>3. CASE d # b /\ d \in gone
      BY <1>6, <2>1, <2>3 DEF BatchRow
    <2>4. CASE d # b /\ d \notin gone
      BY <1>6, <2>1, <2>4
    <2> QED
      BY <2>2, <2>3, <2>4
  <1>10. TypeOK' /\ CallInv'
    <2>1. /\ item' \in [Items -> ItemRow]
          /\ batch' \in [Batches -> BatchRow]
      BY <1>6, <1>8, <1>9
    <2>2. (\A e \in calls' : CallOK(e)) /\ CallInv'
      BY <1>1, JobsStaySame, NoNewCall
    <2> QED
      BY <1>1, <2>1, <2>2 DEF IInv, TypeOK, CallOK
  <1>11. ASSUME NEW i \in Items PROVE HasJob(i)' = HasJob(i) /\ Live(i)' = Live(i)
    BY <1>1 DEF HasJob, Live
  <1>12. ASSUME NEW i \in Items PROVE ItemRule(i)'
    <2>1. i[1] \in Batches /\ i[2] \in Pages
      BY ItemIs
    <2>2. CASE New(i)
      BY <1>1, <1>8, <1>9, <1>11, <2>1, <2>2 DEF IInv, ItemRule, Open, Live, HasJob
    <2>3. CASE ~New(i) /\ Open(i) /\ i[1] \in gone
      BY <1>1, <1>4, <1>8, <1>9, <1>11, <2>1, <2>3
      DEF IInv, ItemRule, Open, Live, HasJob, Decided
    <2>4. CASE ~New(i) /\ ~(Open(i) /\ i[1] \in gone)
      <3>1. item'[i] = item[i]
        BY <1>8, <2>4
      <3>2. CASE i[1] = b
        BY <1>1, <1>8, <1>9, <1>11, <2>1, <3>1, <3>2 DEF IInv, ItemRule, Open, HasJob
      <3>3. CASE i[1] # b /\ i[1] \in gone
        BY <1>1, <1>4, <1>8, <1>9, <1>11, <2>1, <2>4, <3>1, <3>3
        DEF IInv, ItemRule, Open, Decided
      <3>4. CASE i[1] # b /\ i[1] \notin gone
        BY <1>1, <1>9, <1>11, <2>1, <3>1, <3>4 DEF IInv, ItemRule, Open, Decided
      <3> QED
        BY <3>2, <3>3, <3>4
    <2> QED
      BY <2>2, <2>3, <2>4
  <1>13. ASSUME NEW i \in Items, NEW k \in Items, i # k, i[2] = k[2]
         PROVE  PageRule(i, k)'
    <2>1. PageRule(i, k) /\ PageRule(k, i)
      BY <1>13 DEF IInv, PageInv
    <2>2. ~(New(i) /\ New(k))
      BY <1>13, ItemIs
    <2>3. HasJob(i) /\ HasJob(k) =>
            item'[i].revision = item[i].revision /\ item'[k].revision = item[k].revision
      BY <1>8
    <2>4. HasJob(i)' /\ HasJob(k)' => Older(i, k)' \/ Older(k, i)'
      BY <1>1, <1>11, <2>1, <2>3 DEF PageRule, Older, AllowsNewerRevision
    <2>5. Open(i)' => New(i) \/ Open(i)
      BY <1>8 DEF Open
    <2>6. Open(k)' => New(k) \/ Open(k)
      BY <1>8 DEF Open
    <2>7. New(i) => ~Open(k) /\ ~Live(k)
      BY <1>5, <1>13
    <2>8. New(k) => ~Open(i)
      BY <1>5, <1>13
    <2> HIDE DEF New
    <2> QED
      BY <1>11, <2>1, <2>2, <2>4, <2>5, <2>6, <2>7, <2>8 DEF PageRule
  <1> QED
    BY <1>10, <1>12, <1>13 DEF IInv, PageInv

-----------------------------------------------------------------------------
(* A manifest is approved and its attempts attached *)

LEMMA ApproveManifestStep ==
  ASSUME IInv, NEW c \in calls, ApproveManifest(c)
  PROVE  IInv'
  <1> DEFINE b == c.batch
             approved == {p \in DOMAIN c.decided :
               c.decided[p] /\ ~Blocked(p, item[<<c.batch, p>>].revision, {<<c.batch, p>>})}
             status == IF \E i \in ItemsOf(b) : item'[i].state = "invalidated"
                         THEN "partially_approved" ELSE "approved"
             row == [batch[b] EXCEPT !.status = status]
             d == [op |-> "list", batch |-> c.batch]
             Queues(i) == i[1] = b /\ Open(i) /\ i[2] \in approved
  <1>1. /\ c.op = "decide" /\ batch[b].status = "pending_approval"
        /\ ApproveItems(b, approved) /\ calls' \subseteq calls \cup {d}
        /\ UNCHANGED <<source, handled, reported, attempt, hold>>
    BY DEF ApproveManifest, Continues, posts
  <1>2. b \in Batches /\ batch[b] \in BatchRow
    BY <1>1, CallTypes DEF IInv, TypeOK
  <1>3. ASSUME NEW i \in Items, Queues(i)
        PROVE  /\ i[2] \notin handled \cup reported
               /\ \A k \in Items : k # i /\ k[2] = i[2] =>
                    ~Open(k) /\ ~Live(k) /\ (HasJob(k) => Older(k, i))
    <2>1. i = <<c.batch, i[2]>> /\ i[2] \in Pages
      BY <1>3, ItemIs
    <2>2. ~Blocked(i[2], item[i].revision, {i})
      BY <1>3, <2>1
    <2> QED
      BY <2>1, <2>2, UnblockedPage DEF Older
  <1>4. /\ item' = [i \in Items |->
             IF i[1] = b /\ Open(i)
               THEN [item[i] EXCEPT !.state = IF i[2] \in approved THEN "queued" ELSE "invalidated"]
               ELSE item[i]]
        /\ job' = [i \in Items |->
             IF i[1] = b /\ Open(i) /\ i[2] \in approved
               THEN [AbsentJob EXCEPT !.status = "queued"] ELSE job[i]]
        /\ batch' = [batch EXCEPT ![b].status = status]
    BY <1>1 DEF ApproveItems
  <1>5. /\ status \in {"partially_approved", "approved"}
        /\ batch' = [batch EXCEPT ![b] = row]
    BY <1>4 DEF IInv, TypeOK
  <1> HIDE DEF approved, status
  <1>6. row \in BatchRow /\ row.status \in {"partially_approved", "approved"}
    BY <1>2, <1>5 DEF BatchRow
  <1> HIDE DEF row
  <1>7. /\ batch' \in [Batches -> BatchRow]
        /\ Decided(b)'
        /\ \A e \in Batches \ {b} : batch'[e] = batch[e]
    BY <1>2, <1>5, <1>6 DEF IInv, TypeOK, Decided
  <1>8. ASSUME NEW i \in Items
        PROVE  /\ item'[i] \in ItemRow /\ job'[i] \in JobRow
               /\ item'[i].revision = item[i].revision
               /\ ~Open(i) => item'[i] = item[i] /\ job'[i] = job[i]
               /\ i[1] # b => item'[i] = item[i] /\ job'[i] = job[i]
               /\ Queues(i) => item'[i].state = "queued" /\ job'[i].status = "queued"
               /\ i[1] = b /\ Open(i) /\ ~Queues(i) =>
                    item'[i].state = "invalidated" /\ job'[i] = job[i]
    <2>1. item[i] \in ItemRow /\ job[i] \in JobRow
      BY Rows DEF IInv
    <2>2. CASE Queues(i)
      <3>1. /\ item'[i] = [item[i] EXCEPT !.state = "queued"]
            /\ job'[i] = [AbsentJob EXCEPT !.status = "queued"]
        BY <1>4, <2>2
      <3>2. /\ item'[i] \in ItemRow /\ item'[i].state = "queued"
            /\ item'[i].revision = item[i].revision
            /\ job'[i] \in JobRow /\ job'[i].status = "queued"
        BY <2>1, <3>1 DEF ItemRow, JobRow, AbsentJob
      <3> QED
        BY <2>2, <3>2
    <2>3. CASE i[1] = b /\ Open(i) /\ ~Queues(i)
      <3>1. item'[i] = [item[i] EXCEPT !.state = "invalidated"] /\ job'[i] = job[i]
        BY <1>4, <2>3
      <3>2. /\ item'[i] \in ItemRow /\ item'[i].state = "invalidated"
            /\ item'[i].revision = item[i].revision
        BY <2>1, <3>1 DEF ItemRow
      <3> QED
        BY <2>1, <2>3, <3>1, <3>2
    <2>4. CASE i[1] # b \/ ~Open(i)
      <3>1. item'[i] = item[i] /\ job'[i] = job[i]
        BY <1>4, <2>4
      <3> QED
        BY <2>1, <2>4, <3>1
    <2> QED
      BY <2>2, <2>3, <2>4
  <1>9. ASSUME NEW i \in Items
        PROVE  /\ Open(i) => ~HasJob(i)
               /\ Open(i)' => Open(i) /\ ~Queues(i)
               /\ HasJob(i)' <=> HasJob(i) \/ Queues(i)
               /\ Live(i)' <=> Live(i) \/ Queues(i)
    <2>1. Open(i) => ~HasJob(i) /\ ~Live(i)
      BY DEF IInv, ItemRule, Open, TypeOK, JobRow, Live, HasJob
    <2>2. CASE Queues(i)
      BY <1>8, <2>1, <2>2 DEF Open, HasJob, Live
    <2>3. CASE ~Queues(i)
      <3>1. job'[i] = job[i] /\ (item'[i] = item[i] \/ item'[i].state = "invalidated")
        BY <1>8, <2>3
      <3> QED
        BY <2>1, <2>3, <3>1 DEF Open, HasJob, Live
    <2> QED
      BY <2>2, <2>3
  <1>10. TypeOK' /\ CallInv'
    <2>1. item' \in [Items -> ItemRow] /\ job' \in [Items -> JobRow]
      BY <1>4, <1>8
    <2>2. d \in MaterializeCalls /\ CallOK(d) /\ CallRule(d)
      BY <1>2 DEF MaterializeCalls, CallOK, CallRule
    <2>3. JobsStay
      BY <1>9 DEF JobsStay
    <2> HIDE DEF d
    <2>4. (\A e \in calls' : CallOK(e)) /\ CallInv'
      BY <1>1, <2>2, <2>3, NewCall
    <2> QED
      BY <1>1, <1>7, <2>1, <2>4 DEF IInv, TypeOK, CallOK
  <1>11. ASSUME NEW i \in Items PROVE ItemRule(i)'
    <2>1. i[1] \in Batches /\ ItemRule(i)
      BY ItemIs DEF IInv
    <2>2. i[1] = b => Decided(i[1])'
      BY <1>7
    <2>3. i[1] = b => batch'[i[1]].status # "absent"
      BY <1>7 DEF Decided
    <2>4. CASE Queues(i)
      BY <1>1, <1>3, <1>8, <1>9, <2>1, <2>2, <2>3, <2>4
      DEF ItemRule, Open, HasJob, Decided
    <2>5. CASE i[1] = b /\ Open(i) /\ ~Queues(i)
      BY <1>1, <1>8, <1>9, <2>1, <2>2, <2>3, <2>5 DEF ItemRule, Open, HasJob, Live
    <2>6. CASE ~Open(i)
      BY <1>1, <1>7, <1>8, <1>9, <2>1, <2>2, <2>3, <2>6
      DEF ItemRule, Open, HasJob, Live, Decided
    <2>7. CASE i[1] # b
      BY <1>1, <1>7, <1>8, <2>1, <2>7 DEF ItemRule, Open, HasJob, Live, Decided
    <2> QED
      BY <2>4, <2>5, <2>6, <2>7
  <1>12. ASSUME NEW i \in Items, NEW k \in Items, i # k, i[2] = k[2]
         PROVE  PageRule(i, k)'
    <2>1. PageRule(i, k) /\ PageRule(k, i)
      BY <1>12 DEF IInv, PageInv
    <2>2. Older(i, k) => HasJob(i) /\ Older(i, k)'
      <3>1. Older(i, k) => HasJob(i)
        BY DEF Older, AllowsNewerRevision, HasJob
      <3>2. Older(i, k) => job'[i] = job[i]
        BY <1>8, <1>9, <3>1
      <3> QED
        BY <1>1, <1>8, <3>1, <3>2 DEF Older, AllowsNewerRevision
    <2>3. Older(k, i) => HasJob(k) /\ Older(k, i)'
      <3>1. Older(k, i) => HasJob(k)
        BY DEF Older, AllowsNewerRevision, HasJob
      <3>2. Older(k, i) => job'[k] = job[k]
        BY <1>8, <1>9, <3>1
      <3> QED
        BY <1>1, <1>8, <3>1, <3>2 DEF Older, AllowsNewerRevision
    <2>4. Queues(i) => ~Queues(k) /\ ~Open(k) /\ ~Live(k) /\ (HasJob(k) => Older(k, i))
      BY <1>3, <1>12
    <2>5. Queues(k) => ~Queues(i) /\ ~Open(i) /\ ~Live(i) /\ (HasJob(i) => Older(i, k))
      BY <1>3, <1>12
    <2> HIDE DEF Queues
    <2> QED
      BY <1>9, <2>1, <2>2, <2>3, <2>4, <2>5 DEF PageRule
  <1> QED
    BY <1>10, <1>11, <1>12 DEF IInv, PageInv

LEMMA MaterializeAttemptStep ==
  ASSUME IInv, NEW c \in calls, NEW p \in Pages, MaterializeAttempt(c, p)
  PROVE  IInv'
  <1> DEFINE i == <<c.batch, p>>
             d == [c EXCEPT !.todo = c.todo \ {p}]
  <1>1. /\ c.op = "materialize" /\ p \in c.todo
        /\ \/ attempt' = attempt
           \/ attempt[i] = "none" /\ attempt' = [attempt EXCEPT ![i] = "active"]
        /\ calls' \subseteq calls \cup {d}
        /\ UNCHANGED <<source, handled, reported, batch, item, job, hold>>
    BY DEF MaterializeAttempt, Ends, Continues, posts
  <1>2. c \in MaterializeCalls /\ c.batch \in Batches /\ c.todo \subseteq Pages /\ CallRule(c)
    BY <1>1, CallTypes DEF IInv, CallInv
  <1>3. i \in Items /\ HasJob(i)
    BY <1>1, <1>2, ItemIs DEF CallRule
  <1>4. CallOK(d) /\ CallRule(d)
    <2>1. c \in [op : {"materialize"}, batch : Batches, todo : SUBSET Pages]
      BY <1>1, <1>2 DEF MaterializeCalls
    <2>2. /\ d \in [op : {"materialize"}, batch : Batches, todo : SUBSET Pages]
          /\ d.batch = c.batch /\ d.todo \subseteq c.todo
      BY <1>2, <2>1
    <2> HIDE DEF d
    <2> QED
      BY <1>1, <1>2, <2>2 DEF CallOK, MaterializeCalls, CallRule
  <1> HIDE DEF d
  <1>5. (\A e \in calls' : CallOK(e)) /\ CallInv'
    BY <1>1, <1>4, JobsStaySame, NewCall
  <1>6. TypeOK'
    BY <1>1, <1>3, <1>5 DEF IInv, TypeOK, CallOK, AttemptState
  <1>7. \A k \in Items : attempt'[k] = attempt[k] \/ (k = i /\ attempt[k] = "none")
    BY <1>1, <1>3 DEF IInv, TypeOK
  <1>8. \A k \in Items : ItemRule(k)'
    BY <1>1, <1>3, <1>7 DEF IInv, ItemRule, HasJob, Live, Open, Decided
  <1>9. ASSUME NEW k \in Items, NEW l \in Items, k # l, k[2] = l[2]
        PROVE  PageRule(k, l)'
    <2>1. PageRule(k, l)
      BY <1>9 DEF IInv, PageInv
    <2>2. (Older(k, l) => Older(k, l)') /\ (Older(l, k) => Older(l, k)')
      BY <1>1, <1>7 DEF Older, AllowsNewerRevision
    <2> QED
      BY <1>1, <2>1, <2>2 DEF PageRule, HasJob, Open, Live
  <1> QED
    BY <1>5, <1>6, <1>8, <1>9 DEF IInv, PageInv

-----------------------------------------------------------------------------
(* Theorems *)

LEMMA NextInv == IInv /\ [Next]_vars => IInv'
  <1> SUFFICES ASSUME IInv, [Next]_vars PROVE IInv'
    OBVIOUS
  <1>1. CASE UNCHANGED vars
    BY <1>1, JobsStaySame, NoNewCall, QuietStep DEF vars, posts, IInv, TypeOK
  <1>2. ASSUME NEW p \in Pages, EditPost(p) \/ ReportElsewhere(p) \/ HandleManually(p)
        PROVE  IInv'
    BY <1>2, OutsideStep, OperatorSteps
  <1>3. ASSUME ReleaseHold PROVE IInv'
    BY <1>3, OutsideStep
  <1>4. ASSUME NEW kind \in Kinds, NEW selected \in SUBSET Pages,
               ReadSelection(kind, selected)
        PROVE  IInv'
    BY <1>4, ReadSelectionStep
  <1>5. ASSUME NEW b \in Batches, Approve(b) PROVE IInv'
    BY <1>5, ApproveStep
  <1>6. ASSUME NEW c \in calls,
               \/ \E b \in Batches : CreateBatch(c, b)
               \/ \E p \in Pages : ReadDecision(c, p) \/ MaterializeAttempt(c, p)
               \/ ApproveManifest(c) \/ ListApproved(c) \/ AbandonCall(c)
        PROVE  IInv'
    BY <1>6, CreateBatchStep, ReadDecisionStep, MaterializeAttemptStep,
       ApproveManifestStep, ListStep, OutsideStep
  <1>7. ASSUME NEW i \in Items,
               \/ TakeHold(i) \/ Claim(i) \/ InvalidateItem(i) \/ Fail(i)
               \/ Submit(i) \/ Recover(i)
        PROVE  IInv'
    BY <1>7, OutsideStep, WorkerSteps, RecoverStep
  <1> QED
    BY <1>1, <1>2, <1>3, <1>4, <1>5, <1>6, <1>7 DEF Next

LEMMA Inductive == Spec => []IInv
  BY InitInv, NextInv, PTL DEF Spec

(* Type correctness of the rows and the calls in flight. *)
THEOREM TypeCorrect == Spec => []TypeOK
  <1>1. IInv => TypeOK
    BY DEF IInv
  <1> QED
    BY <1>1, Inductive, PTL

(* A page has one owner at most: one live job, or the operator, or a       *)
(* publication reported from elsewhere, however the batches of its         *)
(* revisions are prepared, approved, failed and recovered.                 *)
THEOREM OneOwner == Spec => []OneOwnerPerPage
  <1>1. IInv => OneOwnerPerPage
    BY DEF IInv, ItemRule, PageInv, PageRule, OneOwnerPerPage, Older,
       AllowsNewerRevision, Live, HasJob
  <1> QED
    BY <1>1, Inductive, PTL

(* A page is under review in one manifest at most, and never while a job   *)
(* of it is live.                                                          *)
THEOREM OneReview == Spec => []OneReviewPerPage
  <1>1. IInv => OneReviewPerPage
    BY DEF IInv, PageInv, PageRule, OneReviewPerPage
  <1> QED
    BY <1>1, Inductive, PTL

(* The items of a superseded manifest are never open and never have a job, *)
(* whatever calls read the manifest while it was pending.                  *)
THEOREM SupersededUnworked == Spec => []SupersededIsNeverWorked
  <1>1. IInv => SupersededIsNeverWorked
    BY DEF IInv, ItemRule, Decided, SupersededIsNeverWorked
  <1> QED
    BY <1>1, Inductive, PTL

(* An approval decides every item of its manifest: none stays open behind  *)
(* it, and each has its job or was invalidated.                            *)
THEOREM ApprovalDecides == Spec => []ApprovalDecidesEveryItem
  <1>1. IInv => ApprovalDecidesEveryItem
    BY DEF IInv, ItemRule, Decided, Open, ItemsOf, ApprovalDecidesEveryItem
  <1> QED
    BY <1>1, Inductive, PTL

(* The job of an invalidated item is over. *)
THEOREM InvalidatedUnworked == Spec => []InvalidatedIsNeverWorked
  <1>1. IInv => InvalidatedIsNeverWorked
    BY DEF IInv, ItemRule, InvalidatedIsNeverWorked
  <1> QED
    BY <1>1, Inductive, PTL

(* A queued job whose approval died before its attempt was created can     *)
(* still get one: no older attempt of the page is active beside it.        *)
THEOREM UnattachedRepairable == Spec => []UnattachedJobIsRepairable
  <1>1. ASSUME IInv, NEW i \in Items, job[i].status = "queued", attempt[i] = "none",
               NEW k \in Items, k[2] = i[2], attempt[k] = "active"
        PROVE  FALSE
    <2>1. HasJob(i) /\ HasJob(k) /\ i # k
      BY <1>1 DEF IInv, ItemRule, HasJob
    <2>2. Older(i, k) \/ Older(k, i)
      BY <1>1, <2>1 DEF IInv, PageInv, PageRule
    <2> QED
      BY <1>1, <2>2 DEF Older, AllowsNewerRevision
  <1>2. ASSUME IInv, NEW i \in Items, job[i].status = "queued"
        PROVE  Decided(i[1]) /\ item[i].state = "queued"
    BY <1>2 DEF IInv, ItemRule, HasJob, Live
  <1>3. IInv => UnattachedJobIsRepairable
    BY <1>1, <1>2 DEF UnattachedJobIsRepairable
  <1> QED
    BY <1>3, Inductive, PTL

(* A manifest is approved or superseded once: of two approvals in flight,  *)
(* or an approval and a rebuild, the later changes nothing.                *)
THEOREM DecidedOnce == Spec => DecisionIsFinal
  <1> DEFINE Final == \A b \in Batches :
               batch[b].status \notin {"absent", "pending_approval"} => batch'[b] = batch[b]
  <1>1. ASSUME IInv, Next, NEW b \in Batches,
               batch[b].status \notin {"absent", "pending_approval"}
        PROVE  batch'[b] = batch[b]
    <2>1. ASSUME NEW c \in calls, NEW e \in Batches, CreateBatch(c, e)
          PROVE  batch'[b] = batch[b]
      BY <1>1, <2>1 DEF CreateBatch, StoreBatch, Superseded
    <2>2. ASSUME NEW c \in calls, ApproveManifest(c)
          PROVE  batch'[b] = batch[b]
      <3>1. c.batch # b /\ c.batch \in Batches
        BY <1>1, <2>2, CallTypes DEF ApproveManifest, IInv
      <3> QED
        BY <2>2, <3>1 DEF ApproveManifest, ApproveItems, IInv, TypeOK
    <2>3. CASE UNCHANGED batch
      BY <2>3
    <2> QED
      BY <1>1, <2>1, <2>2, <2>3
      DEF Next, EditPost, ReportElsewhere, HandleManually, ReleaseHold, ReadSelection,
          Approve, ReadDecision, MaterializeAttempt, ListApproved, AbandonCall, TakeHold,
          Claim, InvalidateItem, Fail, Submit, Recover
  <1>2. IInv /\ [Next]_vars => [Final]_vars
    BY <1>1
  <1> QED
    BY <1>2, Inductive, PTL DEF Spec, DecisionIsFinal
=============================================================================
