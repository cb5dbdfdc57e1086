---------------------------- MODULE PublishOnce ----------------------------
(***************************************************************************)
(* What the publishing queue promises of every Notion page, without jobs, *)
(* leases or retries: at most one job ever owns the right to publish the  *)
(* page in the browser, only a page that has an owner is confirmed as     *)
(* published by the queue, and a page is either confirmed by the queue or *)
(* taken over by the operator, once and for good.                         *)
(***************************************************************************)
CONSTANTS Pages, Jobs, NoJob

VARIABLES
  owner,  \* the job whose attempt consumed the page's authorization
  phase   \* open, confirmed (by the queue) or by_hand (the operator's)

vars == <<owner, phase>>

Init ==
  /\ owner = [p \in Pages |-> NoJob]
  /\ phase = [p \in Pages |-> "open"]

Authorize(p, j) ==
  /\ owner[p] = NoJob
  /\ owner' = [owner EXCEPT ![p] = j]
  /\ UNCHANGED phase

Confirm(p) ==
  /\ owner[p] # NoJob /\ phase[p] = "open"
  /\ phase' = [phase EXCEPT ![p] = "confirmed"]
  /\ UNCHANGED owner

TakeOver(p) ==
  /\ phase[p] = "open"
  /\ phase' = [phase EXCEPT ![p] = "by_hand"]
  /\ UNCHANGED owner

Next == \E p \in Pages : Confirm(p) \/ TakeOver(p) \/ \E j \in Jobs : Authorize(p, j)

Spec == Init /\ [][Next]_vars
=============================================================================
