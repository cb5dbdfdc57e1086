----------------------- MODULE MetricsCollectionProofs -----------------------
(***************************************************************************)
(* A page is measured by one collector at a time, a replaced collector     *)
(* never takes it back to what it saw, and a retry writes nothing, for any *)
(* clock, lease and cadence and any number of collectors and statements.   *)
(*                                                                         *)
(* The inductive invariant ties the row of a page to the claims that were  *)
(* answered (HeldRule), to what was measured under them (MeasuredRule) and *)
(* to the statements that still may apply (CallInv).  A statement decides  *)
(* with the time of its start, so what it finds has to be related to that  *)
(* time and not to the present.                                            *)
(***************************************************************************)
EXTENDS MetricsCollection, TLAPS

(* A claim that was replaced is over; the current one has the row's lease; *)
(* either was answered after all that earlier ones recorded was measured.  *)
HeldRule(h) ==
  LET r == row[h.page] IN
  /\ h.token <= r.token
  /\ h.token < r.token => h.deadline <= now \/ Recorded(h.page, h.token)
  /\ h.token = r.token /\ ~Recorded(h.page, h.token) => h.deadline = r.expires
  /\ \A e \in recorded : e.page = h.page /\ e.token < h.token => e.at <= h.since
(* So is what a claim measures later than what earlier ones recorded. *)
MeasuredRule(o) ==
  /\ o.token <= row[o.page].token /\ o.at # 0
  /\ \A e \in recorded : e.page = o.page /\ e.token < o.token => e.at < o.at
RowRule(p) ==
  /\ row[p].observed = 0 =>
       row[p].snapshotAt = 0 /\ \A s \in snapshots : s.page # p
  /\ row[p].observed # 0 => row[p].snapshotAt # 0
CallInv == \A c \in calls : c.op = "write" => c.observation \in observations

IInv ==
  /\ TypeOK
  /\ \A h \in held : HeldRule(h)
  /\ \A o \in observations : MeasuredRule(o)
  /\ \A p \in Pages : RowRule(p)
  /\ CallInv /\ LastClaimIsShown

-----------------------------------------------------------------------------
(* Types, and what a write finds *)

LEMMA RowType ==
  ASSUME TypeOK, NEW p \in Pages
  PROVE  /\ row[p] \in Row
         /\ row[p].token \in Nat /\ row[p].expires \in Nat
         /\ row[p].metrics \in Metrics \cup {NoMetrics}
         /\ row[p].observed \in Nat /\ row[p].observed <= now
         /\ row[p].snapshotAt \in Nat /\ row[p].due \in Nat /\ now \in Nat
BY ClockAssumption DEF TypeOK, Row, Time

LEMMA ObservedType ==
  ASSUME TypeOK, NEW o \in observations
  PROVE  /\ o \in Observation /\ o.page \in Pages /\ o.token \in Nat
         /\ o.at \in Nat /\ o.at \in Time /\ o.at <= now /\ o.metrics \in Metrics
BY ClockAssumption DEF TypeOK, Observation, Time

LEMMA WriteType ==
  ASSUME IInv, NEW c \in calls, c.op = "write"
  PROVE  /\ c.observation \in observations
         /\ c.start \in Nat /\ c.start <= now
<1>1. c.start \in Time /\ c.start <= now
  BY DEF IInv, TypeOK, Call
<1> QED BY <1>1, ClockAssumption DEF IInv, CallInv, Time

(* An observation that the row shows is neither a checkpoint nor a change. *)
LEMMA ExactIsKept ==
  ASSUME IInv, NEW o \in observations, Exact(o)
  PROVE  ~Inserts(o) /\ ~Writes(o)
<1> DEFINE r == row[o.page]
<1>1. /\ o.page \in Pages /\ o.at \in Nat /\ o.at # 0
      /\ r.observed = o.at /\ r.metrics = o.metrics /\ r.due \in Nat
  BY ObservedType, RowType DEF IInv, MeasuredRule, Exact
<1>2. r.snapshotAt # 0
  BY <1>1 DEF IInv, RowRule
<1>3. ~(r.due # 0 /\ r.due <= o.at)
  <2>1. r.due # 0 => r.due > r.observed
    BY <1>1 DEF IInv, TypeOK
  <2> QED BY <1>1, <2>1
<1>4. ~Inserts(o)
  BY <1>1, <1>2, <1>3 DEF Inserts, Noteworthy
<1> QED BY <1>4 DEF Writes

-----------------------------------------------------------------------------
(* The invariant, action by action *)

LEMMA InitInv == Init => IInv
<1> SUFFICES ASSUME Init PROVE IInv
  OBVIOUS
<1>1. 0 \in Time /\ 0 \in Nat
  BY ClockAssumption DEF Time
<1>2. TypeOK
  BY <1>1 DEF Init, TypeOK, Row
<1>3. \A p \in Pages : RowRule(p)
  BY DEF Init, RowRule
<1>4. /\ \A h \in held : HeldRule(h)
      /\ \A o \in observations : MeasuredRule(o)
      /\ CallInv /\ LastClaimIsShown
  BY DEF Init, CallInv, LastClaimIsShown
<1> QED BY <1>2, <1>3, <1>4 DEF IInv

LEMMA QuietInv ==
  ASSUME IInv,
         UNCHANGED <<row, snapshots, held, observations, recorded>>,
         now' \in Time, now <= now', reconciled' \subseteq Pages,
         calls' \subseteq Call,
         \A c \in calls' : c.start <= now',
         CallInv'
  PROVE  IInv'
<1>1. now \in Nat /\ now' \in Nat
  BY ClockAssumption DEF IInv, TypeOK, Time
<1>2. TypeOK'
  <2>1. \A p \in Pages : row'[p].observed <= now'
    BY <1>1, RowType DEF IInv
  <2>2. \A p \in Pages : row'[p].due # 0 => row'[p].due > row'[p].observed
    BY DEF IInv, TypeOK
  <2>3. \A h \in held' : h.since <= now'
    <3> SUFFICES ASSUME NEW h \in held PROVE h.since <= now'
      OBVIOUS
    <3>1. h.since \in Nat /\ h.since <= now
      BY ClockAssumption DEF IInv, TypeOK, Held, Time
    <3> QED BY <3>1, <1>1
  <2>4. \A o \in observations' : o.at <= now'
    BY <1>1, ObservedType DEF IInv
  <2> QED BY <2>1, <2>2, <2>3, <2>4 DEF IInv, TypeOK
<1>3. \A h \in held' : HeldRule(h)'
  <2> SUFFICES ASSUME NEW h \in held PROVE HeldRule(h)'
    OBVIOUS
  <2>1. HeldRule(h) /\ h.deadline \in Nat
    BY DEF IInv, TypeOK, Held
  <2> QED BY <2>1, <1>1 DEF HeldRule, Recorded
<1>4. \A o \in observations' : MeasuredRule(o)'
  BY DEF IInv, MeasuredRule
<1>5. \A p \in Pages : RowRule(p)'
  BY DEF IInv, RowRule
<1>6. LastClaimIsShown'
  BY DEF IInv, LastClaimIsShown
<1> QED BY <1>2, <1>3, <1>4, <1>5, <1>6 DEF IInv

LEMMA TickInv == ASSUME IInv, Tick PROVE IInv'
<1>1. now \in Nat /\ now' \in Time /\ now <= now'
  BY ClockAssumption DEF IInv, TypeOK, Time, Tick
<1>2. CallInv'
  BY DEF IInv, CallInv, Tick, workers
<1>3. \A c \in calls' : c.start <= now'
  <2> SUFFICES ASSUME NEW c \in calls PROVE c.start <= now'
    BY DEF Tick
  <2>1. c.start \in Nat /\ c.start <= now
    BY ClockAssumption DEF IInv, TypeOK, Call, Time
  <2> QED BY <2>1, <1>1, ClockAssumption DEF Time
<1>4. /\ reconciled' \subseteq Pages /\ calls' \subseteq Call
      /\ UNCHANGED <<row, snapshots, held, observations, recorded>>
  BY DEF IInv, TypeOK, Tick, workers
<1> QED BY <1>1, <1>2, <1>3, <1>4, QuietInv

LEMMA ReconcileInv ==
  ASSUME IInv, NEW p \in Pages, Reconcile(p) PROVE IInv'
<1>1. now' \in Time /\ now <= now' /\ reconciled' \subseteq Pages
  BY ClockAssumption DEF IInv, TypeOK, Time, Reconcile
<1>2. CallInv'
  BY DEF IInv, CallInv, Reconcile, workers
<1>3. /\ \A c \in calls' : c.start <= now'
      /\ calls' \subseteq Call
      /\ UNCHANGED <<row, snapshots, held, observations, recorded>>
  BY DEF IInv, TypeOK, Reconcile, workers
<1> QED BY <1>1, <1>2, <1>3, QuietInv

LEMMA ReadDueInv ==
  ASSUME IInv, NEW pages \in SUBSET Pages, NEW onDemand \in BOOLEAN,
         ReadDue(pages, onDemand)
  PROVE  IInv'
<1> DEFINE c == [op |-> "claim", start |-> now, pages |-> pages, onDemand |-> onDemand]
<1>1. now \in Nat /\ now \in Time
  BY ClockAssumption DEF IInv, TypeOK, Time
<1>2. calls' = calls \cup {c} /\ c \in Call /\ c.op # "write" /\ c.start = now
  BY <1>1 DEF ReadDue, Call
<1> HIDE DEF c
<1>3. /\ UNCHANGED <<now, reconciled, row, snapshots, held, observations, recorded>>
      /\ reconciled' \subseteq Pages
  BY DEF ReadDue, workers, IInv, TypeOK
<1>4. CallInv'
  BY <1>2, <1>3 DEF IInv, CallInv
<1>5. calls' \subseteq Call /\ \A d \in calls' : d.start <= now'
  BY <1>1, <1>2, <1>3 DEF IInv, TypeOK
<1>6. now' \in Time /\ now <= now'
  BY <1>1, <1>3
<1> QED BY <1>3, <1>4, <1>5, <1>6, QuietInv

LEMMA SubmitInv ==
  ASSUME IInv, NEW o \in observations, Submit(o) PROVE IInv'
<1> DEFINE c == [op |-> "write", start |-> now, observation |-> o]
<1>1. now \in Nat /\ now \in Time /\ o \in Observation
  BY ClockAssumption DEF IInv, TypeOK, Time
<1>2. /\ calls' = calls \cup {c} /\ c \in Call
      /\ c.start = now /\ c.observation = o
  BY <1>1 DEF Submit, Call
<1> HIDE DEF c
<1>3. /\ UNCHANGED <<now, reconciled, row, snapshots, held, observations, recorded>>
      /\ reconciled' \subseteq Pages
  BY DEF Submit, workers, IInv, TypeOK
<1>4. CallInv'
  BY <1>2, <1>3 DEF IInv, CallInv
<1>5. calls' \subseteq Call /\ \A d \in calls' : d.start <= now'
  BY <1>1, <1>2, <1>3 DEF IInv, TypeOK
<1>6. now' \in Time /\ now <= now'
  BY <1>1, <1>3
<1> QED BY <1>3, <1>4, <1>5, <1>6, QuietInv

(* RefuseObservation, AbandonCall *)
LEMMA DroppedCallInv ==
  ASSUME IInv, NEW c \in calls, RefuseObservation(c) \/ AbandonCall(c)
  PROVE  IInv'
<1>1. /\ UNCHANGED <<now, reconciled, row, snapshots, held, observations, recorded>>
      /\ calls' = calls \ {c}
  BY DEF RefuseObservation, AbandonCall, workers
<1>2. CallInv'
  BY <1>1 DEF IInv, CallInv
<1>3. /\ calls' \subseteq Call /\ reconciled' \subseteq Pages
      /\ \A d \in calls' : d.start <= now'
      /\ now' \in Time /\ now <= now'
  BY <1>1, ClockAssumption DEF IInv, TypeOK, Time
<1> QED BY <1>1, <1>2, <1>3, QuietInv

(* The measurement is later than the answer, and so than what was recorded *)
(* of earlier claims.                                                      *)
LEMMA ObserveInv ==
  ASSUME IInv, NEW h \in held, NEW m \in Metrics, Observe(h, m) PROVE IInv'
<1> DEFINE o == [page |-> h.page, token |-> h.token, at |-> now, metrics |-> m]
<1>1. /\ now \in Nat /\ h \in Held /\ h.page \in Pages /\ h.token \in Nat
      /\ h.since \in Nat /\ h.since < now
  BY ClockAssumption DEF IInv, TypeOK, Held, Time, Observe
<1>2. /\ observations' = observations \cup {o}
      /\ UNCHANGED <<now, reconciled, row, snapshots, held, calls, recorded>>
  BY DEF Observe
<1>3. /\ o \in Observation /\ o.at = now
      /\ o.page = h.page /\ o.token = h.token
  BY <1>1 DEF Observation, IInv, TypeOK
<1> HIDE DEF o
<1>4. TypeOK'
  <2>1. \A x \in observations' : x \in Observation /\ x.at <= now
    BY <1>1, <1>2, <1>3 DEF IInv, TypeOK
  <2> QED BY <1>2, <2>1 DEF IInv, TypeOK
<1>5. MeasuredRule(o)
  <2>1. HeldRule(h)
    BY DEF IInv
  <2>2. \A e \in recorded : e.at \in Nat
    BY ObservedType DEF IInv, TypeOK
  <2> QED BY <1>1, <1>3, <2>1, <2>2 DEF HeldRule, MeasuredRule
<1>6. \A x \in observations' : MeasuredRule(x)'
  BY <1>2, <1>5 DEF IInv, MeasuredRule
<1>7. \A x \in held' : HeldRule(x)'
  BY <1>2 DEF IInv, HeldRule, Recorded
<1>8. \A p \in Pages : RowRule(p)'
  BY <1>2 DEF IInv, RowRule
<1>9. CallInv' /\ LastClaimIsShown'
  BY <1>2 DEF IInv, CallInv, LastClaimIsShown
<1> QED BY <1>4, <1>6, <1>7, <1>8, <1>9 DEF IInv

(* The row that is taken has no lease at the time the claim started, so    *)
(* that its earlier claim is over, or was recorded.                        *)
LEMMA ClaimDueRow ==
  ASSUME IInv, NEW c \in calls, ClaimDue(c), NEW p \in Pages
  PROVE  \/ row'[p] = row[p]
         \/ /\ row[p].expires <= c.start
            /\ p \in c.pages
            /\ row'[p] \in Row
            /\ row'[p].token = row[p].token + 1
            /\ row'[p].expires = c.start + Lease
            /\ row'[p].metrics = row[p].metrics
            /\ row'[p].observed = row[p].observed
            /\ row'[p].snapshotAt = row[p].snapshotAt
            /\ row'[p].due = row[p].due
<1> DEFINE r == Renewed(p, c.start)
<1>1. row[p] \in Row /\ c.start \in Nat
  BY ClockAssumption, RowType DEF IInv, TypeOK, Call, Time
<1>2. /\ r \in Row
      /\ r.token = row[p].token + 1 /\ r.expires = c.start + Lease
      /\ r.metrics = row[p].metrics /\ r.observed = row[p].observed
      /\ r.snapshotAt = row[p].snapshotAt /\ r.due = row[p].due
  <2> DEFINE t == row[p].token + 1
             e == c.start + Lease
  <2>1. t \in Nat /\ e \in Nat /\ r = [row[p] EXCEPT !.token = t, !.expires = e]
    BY <1>1, ClockAssumption DEF Renewed, Row
  <2> HIDE DEF t, e, r
  <2>2. /\ r \in Row /\ r.token = t /\ r.expires = e
        /\ r.metrics = row[p].metrics /\ r.observed = row[p].observed
        /\ r.snapshotAt = row[p].snapshotAt /\ r.due = row[p].due
    BY <1>1, <2>1 DEF Row
  <2> QED BY <2>2 DEF t, e
<1> HIDE DEF r
<1>3. row'[p] = IF p \in c.pages /\ row[p].expires <= c.start THEN r ELSE row[p]
  BY DEF ClaimDue, r
<1> QED BY <1>2, <1>3

LEMMA ClaimDueInv == ASSUME IInv, NEW c \in calls, ClaimDue(c) PROVE IInv'
<1> DEFINE won == {p \in c.pages : row[p].expires <= c.start}
           New(p) == [page |-> p, token |-> row[p].token + 1, since |-> now,
                      deadline |-> c.start + Lease]
<1>1. /\ c.op = "claim" /\ calls' = calls \ {c}
      /\ held' = held \cup {New(p) : p \in won}
      /\ row' = [p \in Pages |-> IF p \in won THEN Renewed(p, c.start) ELSE row[p]]
      /\ UNCHANGED <<now, reconciled, snapshots, observations, recorded>>
  BY DEF ClaimDue, Answered
<1>2. /\ now \in Nat /\ now \in Time /\ c.start \in Nat /\ c.start <= now
      /\ won \subseteq Pages /\ Lease \in Nat
  BY <1>1, ClockAssumption DEF IInv, TypeOK, Call, Time
<1>3. ASSUME NEW p \in won
      PROVE  /\ New(p) \in Held /\ New(p).page = p
             /\ New(p).token = row'[p].token /\ New(p).deadline = row'[p].expires
             /\ New(p).since = now
             /\ row'[p].token = row[p].token + 1
  <2>1. row[p].token \in Nat
    BY <1>2, RowType DEF IInv
  <2>2. row'[p] = Renewed(p, c.start) /\ row[p] \in Row
    BY <1>1, <1>2, RowType DEF IInv
  <2>3. row'[p].token = row[p].token + 1 /\ row'[p].expires = c.start + Lease
    BY <2>2 DEF Renewed, Row
  <2> QED BY <1>2, <2>1, <2>3 DEF Held
<1>4. \A p \in Pages : row[p].token \in Nat /\ row[p].expires \in Nat /\ row[p].observed \in Nat
  BY RowType DEF IInv
<1>5. ASSUME NEW p \in Pages, row'[p] # row[p]
      PROVE  /\ p \in won /\ row[p].expires <= now
             /\ row'[p].token = row[p].token + 1
  <2>1. p \in won
    BY <1>1, <1>5
  <2>2. row'[p].token = row[p].token + 1
    BY <2>1, <1>3
  <2> QED BY <2>1, <2>2, <1>2, <1>4
<1> HIDE DEF New, won
<1>6. TypeOK'
  <2>1. row' \in [Pages -> Row]
    <3>1. \A p \in Pages : row'[p] \in Row
      BY ClaimDueRow, RowType DEF IInv
    <3> QED BY <1>1, <3>1
  <2>2. \A p \in Pages : /\ row'[p].observed <= now
                         /\ row'[p].due # 0 => row'[p].due > row'[p].observed
    <3> SUFFICES ASSUME NEW p \in Pages
                 PROVE  /\ row'[p].observed <= now
                        /\ row'[p].due # 0 => row'[p].due > row'[p].observed
      OBVIOUS
    <3>1. row'[p].observed = row[p].observed /\ row'[p].due = row[p].due
      BY ClaimDueRow
    <3>2. /\ row[p].observed <= now
          /\ row[p].due # 0 => row[p].due > row[p].observed
      BY DEF IInv, TypeOK
    <3> QED BY <3>1, <3>2
  <2>3. ASSUME NEW h \in held' PROVE h \in Held /\ h.since <= now
    <3>1. CASE h \in held
      BY <3>1 DEF IInv, TypeOK
    <3>2. CASE h \notin held
      <4>1. PICK p \in won : h = New(p)
        BY <3>2, <1>1
      <4>2. h \in Held /\ h.since = now
        BY <4>1, <1>3
      <4> QED BY <4>2, <1>2
    <3> QED BY <3>1, <3>2
  <2>4. calls' \subseteq Call /\ \A d \in calls' : d.start <= now'
    BY <1>1 DEF IInv, TypeOK
  <2>5. held' \subseteq Held /\ \A h \in held' : h.since <= now'
    BY <2>3, <1>1
  <2>6. /\ now' \in Time /\ reconciled' \subseteq Pages /\ snapshots' \subseteq Snapshot
        /\ observations' \subseteq Observation /\ recorded' \subseteq observations'
        /\ \A o \in observations' : o.at <= now'
    BY <1>1 DEF IInv, TypeOK
  <2> QED BY <1>1, <2>1, <2>2, <2>4, <2>5, <2>6 DEF TypeOK
<1>7. ASSUME NEW h \in held' PROVE HeldRule(h)'
  <2>1. CASE h \in held
    <3>1. /\ HeldRule(h) /\ h.page \in Pages
          /\ h.token \in Nat /\ h.deadline \in Nat
      BY <2>1 DEF IInv, TypeOK, Held
    <3>2. CASE row'[h.page] = row[h.page]
      BY <3>1, <3>2, <1>1 DEF HeldRule, Recorded
    <3>3. CASE row'[h.page] # row[h.page]
      <4>1. /\ row[h.page].expires <= now /\ row'[h.page].token = row[h.page].token + 1
            /\ row[h.page].token \in Nat /\ row[h.page].expires \in Nat
        BY <3>1, <3>3, <1>4, <1>5
      <4>2. h.token <= row[h.page].token
        BY <3>1 DEF HeldRule
      <4>3. h.token < row'[h.page].token /\ h.token # row'[h.page].token
        BY <3>1, <4>1, <4>2
      <4>4. h.deadline <= now \/ Recorded(h.page, h.token)
        BY <3>1, <4>1, <4>2 DEF HeldRule
      <4> QED BY <1>1, <4>3, <4>4, <3>1, <4>1 DEF HeldRule, Recorded
    <3> QED BY <3>2, <3>3
  <2>2. CASE h \notin held
    <3>1. PICK p \in won : h = New(p)
      BY <2>2, <1>1
    <3>2. /\ h.page = p /\ h.token = row'[p].token /\ h.deadline = row'[p].expires
          /\ h.since = now /\ p \in Pages /\ row'[p].token \in Nat
      BY <3>1, <1>2, <1>3, <1>4
    <3>3. \A e \in recorded' : e.at <= now
      BY <1>1, ObservedType DEF IInv, TypeOK
    <3> QED BY <3>2, <3>3 DEF HeldRule
  <2> QED BY <2>1, <2>2
<1>8. ASSUME NEW o \in observations' PROVE MeasuredRule(o)'
  <2>1. o \in observations /\ MeasuredRule(o) /\ o.page \in Pages /\ o.token \in Nat
    BY <1>1 DEF IInv, TypeOK, Observation
  <2>2. CASE row'[o.page] = row[o.page]
    BY <2>1, <2>2, <1>1 DEF MeasuredRule
  <2>3. CASE row'[o.page] # row[o.page]
    BY <2>1, <2>3, <1>1, <1>4, <1>5 DEF MeasuredRule
  <2> QED BY <2>2, <2>3
<1>9. ASSUME NEW p \in Pages PROVE RowRule(p)'
  <2>1. row'[p].observed = row[p].observed /\ row'[p].snapshotAt = row[p].snapshotAt
    BY ClaimDueRow
  <2> QED BY <2>1, <1>1 DEF IInv, RowRule
<1>10. CallInv'
  BY <1>1 DEF IInv, CallInv
<1>11. LastClaimIsShown'
  <2>1. \A p \in Pages : /\ row'[p].observed = row[p].observed
                          /\ row'[p].metrics = row[p].metrics
    BY ClaimDueRow
  <2> QED BY <2>1, <1>1 DEF IInv, LastClaimIsShown
<1> QED BY <1>6, <1>7, <1>8, <1>9, <1>10, <1>11 DEF IInv

(* What a write leaves in the row of its page: what it found, or the       *)
(* observation.                                                            *)
LEMMA WriteRow ==
  ASSUME IInv, NEW c \in calls, WriteObservation(c)
  PROVE  LET o == c.observation
             q == o.page IN
         /\ o \in observations /\ q \in Pages /\ o.token = row[q].token
         /\ \A p \in Pages : p # q => row'[p] = row[p]
         /\ row' \in [Pages -> Row]
         /\ row'[q].token = o.token
         /\ row'[q].observed = o.at /\ row'[q].metrics = o.metrics
         /\ row'[q].due # 0 => row'[q].due > o.at
         /\ row'[q].snapshotAt = IF Inserts(o) THEN o.at ELSE row[q].snapshotAt
         /\ Exact(o) => row'[q] = row[q] /\ snapshots' = snapshots
<1> DEFINE o == c.observation
           q == o.page
           r == row[q]
           new == Measured(o, c.start)
<1>1. c.op = "write" /\ Accepts(o, c.start)
  BY DEF WriteObservation
<1>2. /\ o \in observations /\ q \in Pages /\ o.token = r.token
      /\ o.at \in Nat /\ o.at \in Time /\ o.metrics \in Metrics /\ c.start \in Nat
      /\ r \in Row /\ row \in [Pages -> Row]
  BY <1>1, WriteType, ObservedType, RowType DEF Accepts, IInv, TypeOK
<1>3. CASE Exact(o)
  <2>1. ~Inserts(o) /\ ~Writes(o)
    BY <1>2, <1>3, ExactIsKept
  <2>2. row' = row /\ snapshots' = snapshots
    BY <2>1 DEF WriteObservation
  <2>3. r.observed = o.at /\ r.metrics = o.metrics /\ (r.due # 0 => r.due > r.observed)
    BY <1>2, <1>3 DEF Exact, IInv, TypeOK
  <2> QED BY <1>2, <2>1, <2>2, <2>3
<1>4. CASE ~Exact(o)
  <2>1. row' = [row EXCEPT ![q] = new]
    BY <1>4 DEF WriteObservation, Writes
  <2> DEFINE due == NextDue(o.at)
             kept == IF Inserts(o) THEN o.at ELSE r.snapshotAt
  <2>2. /\ due \in Nat /\ (due # 0 => due > o.at)
        /\ kept \in Time
    BY <1>2, CadenceAssumption DEF NextDue, Row
  <2>3. new = [r EXCEPT !.metrics = o.metrics, !.observed = o.at, !.due = due,
                        !.snapshotAt = kept, !.expires = c.start]
    BY DEF Measured
  <2>4. kept = IF Inserts(o) THEN o.at ELSE r.snapshotAt
    OBVIOUS
  <2> HIDE DEF due, kept, new
  <2>5. /\ new \in Row /\ new.token = r.token
        /\ new.metrics = o.metrics /\ new.observed = o.at
        /\ new.snapshotAt = kept /\ new.due = due
    BY <1>2, <2>2, <2>3 DEF Row
  <2>6. /\ row'[q] = new /\ row' \in [Pages -> Row]
        /\ \A p \in Pages : p # q => row'[p] = row[p]
    BY <1>2, <2>1, <2>5
  <2> QED BY <1>2, <1>4, <2>2, <2>4, <2>5, <2>6
<1> QED BY <1>3, <1>4

LEMMA WriteInv ==
  ASSUME IInv, NEW c \in calls, WriteObservation(c) PROVE IInv'
<1> DEFINE o == c.observation
           q == o.page
           snap == [page |-> q, at |-> o.at, metrics |-> o.metrics]
<1>1. /\ o \in observations /\ q \in Pages /\ o.token = row[q].token
      /\ \A p \in Pages : p # q => row'[p] = row[p]
      /\ row' \in [Pages -> Row]
      /\ row'[q].token = o.token
      /\ row'[q].observed = o.at /\ row'[q].metrics = o.metrics
      /\ row'[q].due # 0 => row'[q].due > o.at
      /\ row'[q].snapshotAt = IF Inserts(o) THEN o.at ELSE row[q].snapshotAt
  BY WriteRow
<1>2. /\ snapshots' = IF Inserts(o) THEN snapshots \cup {snap} ELSE snapshots
      /\ recorded' = recorded \cup {o}
      /\ calls' = calls \ {c}
      /\ UNCHANGED <<now, reconciled, held, observations>>
  BY DEF WriteObservation, workers
<1>3. /\ o.at \in Nat /\ o.at <= now /\ o.at # 0 /\ o.token \in Nat
      /\ snap \in Snapshot /\ snap.page = q
  BY <1>1, ObservedType DEF IInv, MeasuredRule, Snapshot
<1>4. /\ \A p \in Pages : row'[p].token = row[p].token
      /\ \A p \in Pages : row[p].token \in Nat
  BY <1>1, RowType DEF IInv
<1>5. \A e \in recorded : /\ e \in observations /\ e.page \in Pages /\ e.token \in Nat
                          /\ e.token <= row[e.page].token
  BY ObservedType DEF IInv, TypeOK, MeasuredRule
<1> HIDE DEF snap
<1>6. TypeOK'
  <2>1. \A p \in Pages : /\ row'[p].observed <= now
                         /\ row'[p].due # 0 => row'[p].due > row'[p].observed
    BY <1>1, <1>3 DEF IInv, TypeOK
  <2>2. snapshots' \subseteq Snapshot /\ recorded' \subseteq observations
    BY <1>1, <1>2, <1>3 DEF IInv, TypeOK
  <2> QED BY <1>1, <1>2, <2>1, <2>2 DEF IInv, TypeOK
<1>7. ASSUME NEW h \in held' PROVE HeldRule(h)'
  <2>1. HeldRule(h) /\ h \in Held /\ h.page \in Pages /\ h.token \in Nat
    BY <1>2 DEF IInv, TypeOK, Held
  <2>2. Recorded(h.page, h.token) => Recorded(h.page, h.token)'
    BY <1>2 DEF Recorded
  <2>3. ~(o.page = h.page /\ o.token < h.token)
    BY <2>1, <1>1, <1>3 DEF HeldRule
  <2>4. CASE h.page = q /\ h.token = o.token
    <3>1. Recorded(h.page, h.token)'
      BY <2>4, <1>2 DEF Recorded
    <3> QED BY <2>1, <2>3, <3>1, <1>2, <1>4 DEF HeldRule
  <2>5. CASE h.page = q /\ h.token # o.token
    BY <2>1, <2>2, <2>3, <2>5, <1>1, <1>2, <1>4 DEF HeldRule
  <2>6. CASE h.page # q
    <3>1. row'[h.page] = row[h.page]
      BY <2>1, <2>6, <1>1
    <3> QED BY <2>1, <2>2, <2>6, <3>1, <1>2 DEF HeldRule
  <2> QED BY <2>4, <2>5, <2>6
<1>8. ASSUME NEW x \in observations' PROVE MeasuredRule(x)'
  <2>1. MeasuredRule(x) /\ x.page \in Pages /\ x.token \in Nat
    BY <1>2, ObservedType DEF IInv
  <2>2. ~(o.page = x.page /\ o.token < x.token)
    BY <2>1, <1>1, <1>3 DEF MeasuredRule
  <2> QED BY <2>1, <2>2, <1>2, <1>4 DEF MeasuredRule
<1>9. ASSUME NEW p \in Pages PROVE RowRule(p)'
  <2>1. RowRule(p)
    BY DEF IInv
  <2>2. CASE p # q
    BY <2>1, <2>2, <1>1, <1>2, <1>3 DEF RowRule
  <2>3. CASE p = q
    <3>1. row[q].snapshotAt = 0 => Inserts(o)
      BY <2>1, <2>3, <1>1 DEF RowRule, Inserts, Noteworthy
    <3> QED BY <2>3, <3>1, <1>1, <1>3 DEF RowRule
  <2> QED BY <2>2, <2>3
<1>10. CallInv'
  BY <1>2 DEF IInv, CallInv
<1>11. LastClaimIsShown'
  <2> SUFFICES ASSUME NEW p \in Pages, row'[p].observed # 0
               PROVE  \E x \in recorded' :
                        /\ x.page = p /\ x.at = row'[p].observed
                        /\ x.metrics = row'[p].metrics
                        /\ \A e \in recorded' : e.page = p /\ e.token # x.token =>
                             e.token < x.token /\ e.at < x.at
    BY DEF LastClaimIsShown
  <2>1. CASE p = q
    <3>1. \A e \in recorded : e.page = p /\ e.token # o.token =>
            e.token < o.token /\ e.at < o.at
      <4>1. MeasuredRule(o)
        BY <1>1 DEF IInv
      <4> QED BY <2>1, <4>1, <1>1, <1>3, <1>5 DEF MeasuredRule
    <3> QED BY <2>1, <3>1, <1>1, <1>2
  <2>2. CASE p # q
    <3>1. row'[p] = row[p]
      BY <2>2, <1>1
    <3>2. PICK x \in recorded :
            /\ x.page = p /\ x.at = row[p].observed /\ x.metrics = row[p].metrics
            /\ \A e \in recorded : e.page = p /\ e.token # x.token =>
                 e.token < x.token /\ e.at < x.at
      BY <3>1 DEF IInv, LastClaimIsShown
    <3> QED BY <2>2, <3>1, <3>2, <1>2
  <2> QED BY <2>1, <2>2
<1> QED BY <1>6, <1>7, <1>8, <1>9, <1>10, <1>11 DEF IInv

LEMMA NextInv == IInv /\ [Next]_vars => IInv'
<1> SUFFICES ASSUME IInv, [Next]_vars PROVE IInv'
  OBVIOUS
<1>1. CASE Tick
  BY <1>1, TickInv
<1>2. ASSUME NEW p \in Pages, Reconcile(p) PROVE IInv'
  BY <1>2, ReconcileInv
<1>3. ASSUME NEW pages \in SUBSET Pages, NEW onDemand \in BOOLEAN,
             ReadDue(pages, onDemand)
      PROVE  IInv'
  BY <1>3, ReadDueInv
<1>4. ASSUME NEW h \in held, NEW m \in Metrics, Observe(h, m) PROVE IInv'
  BY <1>4, ObserveInv
<1>5. ASSUME NEW o \in observations, Submit(o) PROVE IInv'
  BY <1>5, SubmitInv
<1>6. ASSUME NEW c \in calls, ClaimDue(c) PROVE IInv'
  BY <1>6, ClaimDueInv
<1>7. ASSUME NEW c \in calls, WriteObservation(c) PROVE IInv'
  BY <1>7, WriteInv
<1>8. ASSUME NEW c \in calls, RefuseObservation(c) \/ AbandonCall(c) PROVE IInv'
  BY <1>8, DroppedCallInv
<1>9. CASE UNCHANGED vars
  BY <1>9 DEF vars, workers, IInv, TypeOK, HeldRule, MeasuredRule, RowRule, CallInv,
              LastClaimIsShown, Recorded
<1> QED BY <1>1, <1>2, <1>3, <1>4, <1>5, <1>6, <1>7, <1>8, <1>9 DEF Next

LEMMA InvHolds == Spec => []IInv
BY InitInv, NextInv, PTL DEF Spec

-----------------------------------------------------------------------------
(* The properties *)

\* Rows, claims, observations, statements and snapshots keep their types,
\* nothing is dated in the future and a measured page is due again only later
\* (the columns of rednote_metric_collection_state and the statements of
\* claimDueRednoteMetricPosts and writeMetricObservation).
THEOREM TypeCorrect == Spec => []TypeOK
BY InvHolds, PTL DEF IInv

\* A page is never leased to two collectors: the upsert of
\* claimDueRednoteMetricPosts asks again for the lease that its candidates
\* were read with, and a recorded observation ends its claim.
THEOREM OneCollector == Spec => []OneCollectorAtATime
<1>1. IInv => OneCollectorAtATime
  <2> SUFFICES ASSUME IInv, NEW g \in held, NEW h \in held,
                      g.page = h.page, g.token < h.token
               PROVE  g.deadline <= now \/ Recorded(g.page, g.token)
    BY DEF OneCollectorAtATime
  <2>1. HeldRule(g) /\ HeldRule(h)
    BY DEF IInv
  <2>2. /\ g.token \in Nat /\ h.token \in Nat /\ g.page \in Pages
        /\ row[g.page].token \in Nat
    BY RowType DEF IInv, TypeOK, Held
  <2>3. g.token < row[g.page].token
    BY <2>1, <2>2 DEF HeldRule
  <2> QED BY <2>1, <2>3 DEF HeldRule
<1> QED BY <1>1, InvHolds, PTL

\* What a page shows was measured by the last of its claims that recorded
\* anything, later than all that earlier ones recorded: writeMetricObservation
\* refuses the token of a replaced claim under the lock of the row, and a
\* worker measures after its claim was answered.
THEOREM LastClaimShown == Spec => []LastClaimIsShown
BY InvHolds, PTL DEF IInv

\* A retry of what a page shows writes neither its state nor a snapshot, under
\* a lease or after it: what is shown was kept, and is due again only later
\* (writeMetricObservation).
THEOREM ReplaysWriteNothing == Spec => ReplayWritesNothing
<1> DEFINE Quiet ==
      \A p \in Pages :
        /\ row'[p].token = row[p].token
        /\ row'[p].observed = row[p].observed /\ row'[p].metrics = row[p].metrics
        => row'[p] = row[p] /\ {s \in snapshots' : s.page = p} \subseteq snapshots
<1>1. IInv /\ [Next]_vars => [Quiet]_vars
  <2> SUFFICES ASSUME IInv, Next, NEW p \in Pages,
                      row'[p].token = row[p].token,
                      row'[p].observed = row[p].observed, row'[p].metrics = row[p].metrics
               PROVE  row'[p] = row[p] /\ {s \in snapshots' : s.page = p} \subseteq snapshots
    OBVIOUS
  <2>1. CASE row' = row /\ snapshots' = snapshots
    BY <2>1
  <2>2. ASSUME NEW c \in calls, ClaimDue(c)
        PROVE  row'[p] = row[p] /\ snapshots' = snapshots
    <3>1. row[p].token \in Nat /\ snapshots' = snapshots
      BY <2>2, RowType DEF IInv, ClaimDue
    <3> QED BY <2>2, <3>1, ClaimDueRow
  <2>3. ASSUME NEW c \in calls, WriteObservation(c)
        PROVE  row'[p] = row[p] /\ {s \in snapshots' : s.page = p} \subseteq snapshots
    <3> DEFINE o == c.observation
    <3>1. CASE o.page = p
      <4>1. Exact(o)
        BY <2>3, <3>1, WriteRow DEF Exact
      <4> QED BY <2>3, <3>1, <4>1, WriteRow
    <3>2. CASE o.page # p
      <4>1. row'[p] = row[p]
        BY <2>3, <3>2, WriteRow
      <4>2. snapshots' \subseteq
              snapshots \cup {[page |-> o.page, at |-> o.at, metrics |-> o.metrics]}
        BY <2>3 DEF WriteObservation
      <4> QED BY <3>2, <4>1, <4>2
    <3> QED BY <3>1, <3>2
  <2> QED BY <2>1, <2>2, <2>3 DEF Next, Tick, Reconcile, ReadDue, Observe, Submit,
              RefuseObservation, AbandonCall
<1> HIDE DEF Quiet
<1>2. [Quiet]_vars <=>
        [\A p \in Pages :
           /\ row'[p].token = row[p].token
           /\ row'[p].observed = row[p].observed /\ row'[p].metrics = row[p].metrics
           => row'[p] = row[p]
              /\ {s \in snapshots' : s.page = p} \subseteq snapshots]_vars
  BY DEF Quiet
<1> QED BY <1>1, <1>2, InvHolds, PTL DEF Spec, ReplayWritesNothing
=============================================================================
