-------------------------- MODULE MetricsCollection --------------------------
(***************************************************************************)
(* Who measures a published post, and what is kept of it: the leased claim *)
(* of a page in rednote_metric_collection_state, the observations workers  *)
(* submit under it, and the snapshots that are written of them.            *)
(*                                                                         *)
(* Unlike the other modules this one counts time.  A statement has the     *)
(* time of its start (CURRENT_TIMESTAMP) and applies later, to the rows it *)
(* finds then; a claim also reads its candidates at its start.  Others run *)
(* in between.                                                             *)
(*                                                                         *)
(* Abstractions.  Every page was published at time 0.  A token is a number *)
(* of its page.  The items of a submission are statements of their own.    *)
(* The worker is external: it measures after it was answered, as often as  *)
(* it likes, and submits a measurement as often as it likes, also while    *)
(* another one of its claim is being submitted.  Where a publication came  *)
(* from is left out.                                                       *)
(***************************************************************************)
EXTENDS Naturals, FiniteSets

CONSTANTS
  Pages, Metrics, NoMetrics,
  Lease,       \* leaseSeconds
  Cadence,     \* the interval after a measurement, by its time; 0 for none
  Limit,       \* bound: pages of one claim, MAX_BATCH_SIZE
  MaxTime,     \* bound on the clock
  MaxClaims,   \* bound on the claims of a page
  MaxObserved, \* bound on the measurements
  MaxCalls     \* bound on the statements in progress

Time == 0..MaxTime
ASSUME ClockAssumption == MaxTime \in Nat /\ Lease \in Nat \ {0}
ASSUME CadenceAssumption == Cadence \in [Time -> Nat]
ASSUME MetricsAssumption == NoMetrics \notin Metrics

VARIABLES
  now,
  reconciled,    \* pages whose publication is reconciled
  row,           \* rednote_metric_collection_state; 0 is NULL
  snapshots,     \* post_performance_snapshots
  held,          \* claims that were answered, with the time of the answer
  observations,  \* what the workers measured
  calls,         \* statements in progress
  recorded       \* history: the observations that were accepted

vars == <<now, reconciled, row, snapshots, held, observations, calls, recorded>>
workers == <<held, observations>>

Row ==
  [token : Nat, expires : Nat, metrics : Metrics \cup {NoMetrics},
   observed : Time, snapshotAt : Time, due : Nat]
Observation == [page : Pages, token : Nat, at : Time, metrics : Metrics]
Snapshot == [page : Pages, at : Time, metrics : Metrics]
Held == [page : Pages, token : Nat, since : Time, deadline : Nat]
Call ==
  [op : {"claim"}, start : Time, pages : SUBSET Pages, onDemand : BOOLEAN]
  \cup [op : {"write"}, start : Time, observation : Observation]

Init ==
  /\ now = 0 /\ reconciled = {}
  /\ row = [p \in Pages |-> [token |-> 0, expires |-> 0, metrics |-> NoMetrics,
                             observed |-> 0, snapshotAt |-> 0, due |-> 0]]
  /\ snapshots = {} /\ held = {} /\ observations = {} /\ calls = {} /\ recorded = {}

Tick ==
  /\ now < MaxTime
  /\ now' = now + 1
  /\ UNCHANGED <<reconciled, row, snapshots, workers, calls, recorded>>
Reconcile(p) ==
  /\ p \notin reconciled
  /\ reconciled' = reconciled \cup {p}
  /\ UNCHANGED <<now, row, snapshots, workers, calls, recorded>>

-----------------------------------------------------------------------------
(* claimDueRednoteMetricPosts *)

CadenceDue(p, time) == row[p].observed = 0 \/ (row[p].due # 0 /\ row[p].due <= time)
Due(p, onDemand) ==
  /\ p \in reconciled
  /\ row[p].expires <= now
  /\ onDemand \/ (Cadence[now] # 0 /\ CadenceDue(p, now))
(* The candidates *)
ReadDue(pages, onDemand) ==
  /\ pages # {} /\ Cardinality(pages) <= Limit /\ Cardinality(calls) < MaxCalls
  /\ \A p \in pages : Due(p, onDemand)
  /\ calls' = calls \cup
       {[op |-> "claim", start |-> now, pages |-> pages, onDemand |-> onDemand]}
  /\ UNCHANGED <<now, reconciled, row, snapshots, workers, recorded>>

Renewed(p, start) ==
  [row[p] EXCEPT !.token = row[p].token + 1, !.expires = start + Lease]
Answered(c, won) ==
  held \cup {[page |-> p, token |-> row[p].token + 1, since |-> now,
              deadline |-> c.start + Lease] : p \in won}
\* Slip: the upsert takes every candidate.
ClaimCandidates(c) ==
  /\ c.op = "claim" /\ \A p \in c.pages : row[p].token < MaxClaims
  /\ row' = [p \in Pages |-> IF p \in c.pages THEN Renewed(p, c.start) ELSE row[p]]
  /\ held' = Answered(c, c.pages)
  /\ calls' = calls \ {c}
  /\ UNCHANGED <<now, reconciled, snapshots, observations, recorded>>
(* The upsert: of the candidates it takes those nobody else claimed since. *)
ClaimDue(c) ==
  LET won == {p \in c.pages : row[p].expires <= c.start} IN
  /\ c.op = "claim" /\ \A p \in won : row[p].token < MaxClaims
  /\ row' = [p \in Pages |-> IF p \in won THEN Renewed(p, c.start) ELSE row[p]]
  /\ held' = Answered(c, won)
  /\ calls' = calls \ {c}
  /\ UNCHANGED <<now, reconciled, snapshots, observations, recorded>>

-----------------------------------------------------------------------------
(* The workers *)

(* Some time passes between the answer and the measurement. *)
Observe(h, m) ==
  /\ h.since < now /\ Cardinality(observations) < MaxObserved
  /\ observations' = observations \cup
       {[page |-> h.page, token |-> h.token, at |-> now, metrics |-> m]}
  /\ UNCHANGED <<now, reconciled, row, snapshots, held, calls, recorded>>
Submit(o) ==
  /\ Cardinality(calls) < MaxCalls
  /\ calls' = calls \cup {[op |-> "write", start |-> now, observation |-> o]}
  /\ UNCHANGED <<now, reconciled, row, snapshots, workers, recorded>>

-----------------------------------------------------------------------------
(* writeMetricObservation *)

Exact(o) == row[o.page].observed = o.at /\ row[o.page].metrics = o.metrics
\* Slip: the row is locked by its page and its lease.
AcceptsAnyClaim(o, start) == row[o.page].expires > start \/ Exact(o)
(* The locked row *)
Accepts(o, start) ==
  /\ row[o.page].token = o.token
  /\ row[o.page].expires > start \/ Exact(o)
Noteworthy(o) ==
  \/ row[o.page].metrics # o.metrics
  \/ row[o.page].snapshotAt = 0
  \/ row[o.page].due # 0 /\ row[o.page].due <= o.at
Inserts(o) ==
  Noteworthy(o) /\ \A s \in snapshots : ~(s.page = o.page /\ s.at = o.at)
NextDue(at) == IF Cadence[at] = 0 THEN 0 ELSE at + Cadence[at]
\* Slip: a repeated observation is written again.
WritesAlways(o) == TRUE
Writes(o) == ~Exact(o) \/ Inserts(o)
Measured(o, start) ==
  [row[o.page] EXCEPT
     !.metrics = o.metrics, !.observed = o.at, !.due = NextDue(o.at),
     !.snapshotAt = IF Inserts(o) THEN o.at ELSE @, !.expires = start]

WriteObservation(c) ==
  LET o == c.observation IN
  /\ c.op = "write" /\ Accepts(o, c.start)
  /\ row' = IF Writes(o) THEN [row EXCEPT ![o.page] = Measured(o, c.start)] ELSE row
  /\ snapshots' = IF Inserts(o)
       THEN snapshots \cup {[page |-> o.page, at |-> o.at, metrics |-> o.metrics]}
       ELSE snapshots
  /\ recorded' = recorded \cup {o}
  /\ calls' = calls \ {c}
  /\ UNCHANGED <<now, reconciled, workers>>
(* STALE_CLAIM, a failure of the run summary *)
RefuseObservation(c) ==
  /\ c.op = "write" /\ ~Accepts(c.observation, c.start)
  /\ calls' = calls \ {c}
  /\ UNCHANGED <<now, reconciled, row, snapshots, workers, recorded>>
(* The connection is lost before the statement applied. *)
AbandonCall(c) ==
  /\ calls' = calls \ {c}
  /\ UNCHANGED <<now, reconciled, row, snapshots, workers, recorded>>

-----------------------------------------------------------------------------

Next ==
  \/ Tick
  \/ \E p \in Pages : Reconcile(p)
  \/ \E pages \in SUBSET Pages, onDemand \in BOOLEAN : ReadDue(pages, onDemand)
  \/ \E h \in held, m \in Metrics : Observe(h, m)
  \/ \E o \in observations : Submit(o)
  \/ \E c \in calls :
       ClaimDue(c) \/ WriteObservation(c) \/ RefuseObservation(c) \/ AbandonCall(c)
Spec == Init /\ [][Next]_vars

-----------------------------------------------------------------------------
(* Properties *)

\* Rows, claims, observations and statements have their types, nothing is
\* dated in the future, and a measured page is due again only later.
TypeOK ==
  /\ now \in Time /\ reconciled \subseteq Pages
  /\ row \in [Pages -> Row]
  /\ snapshots \subseteq Snapshot
  /\ observations \subseteq Observation /\ recorded \subseteq observations
  /\ held \subseteq Held /\ calls \subseteq Call
  /\ \A p \in Pages : /\ row[p].observed <= now
                      /\ row[p].due # 0 => row[p].due > row[p].observed
  /\ \A c \in calls : c.start <= now
  /\ \A h \in held : h.since <= now
  /\ \A o \in observations : o.at <= now

Recorded(p, token) == \E o \in recorded : o.page = p /\ o.token = token

\* Two collectors never hold one page: an earlier claim's lease ended, or an
\* observation of it was recorded, although both claims may have read the same
\* candidates and a lease is counted from a start that lies in the past.
OneCollectorAtATime ==
  \A g, h \in held : g.page = h.page /\ g.token < h.token =>
    g.deadline <= now \/ Recorded(g.page, g.token)

\* A page shows what the last of its claims that recorded anything measured,
\* and that is later than all that the claims before it recorded: whatever is
\* delivered late, repeated or crossing does not take the page back to what a
\* replaced collector saw.  (Of one claim, two different observations whose
\* submissions overlap may be applied in either order.)
LastClaimIsShown ==
  \A p \in Pages : row[p].observed # 0 =>
    \E o \in recorded :
      /\ o.page = p /\ o.at = row[p].observed /\ o.metrics = row[p].metrics
      /\ \A e \in recorded : e.page = p /\ e.token # o.token =>
           e.token < o.token /\ e.at < o.at

\* "Exact retries coalesce without writes" (README.md), after the lease as well
\* as under it: the state of a page and its snapshots change only with a new
\* claim or with another observation than the page shows, so that a retry
\* neither ends a lease again nor passes for a checkpoint of the cadence.
ReplayWritesNothing ==
  [][\A p \in Pages :
       /\ row'[p].token = row[p].token
       /\ row'[p].observed = row[p].observed /\ row'[p].metrics = row[p].metrics
       => row'[p] = row[p] /\ {s \in snapshots' : s.page = p} \subseteq snapshots]_vars
=============================================================================
