----------------------------- MODULE CandidateAudit -----------------------------
(***************************************************************************)
(* How the history of candidate wallets is audited                         *)
(* (CandidateEnrichmentService.run_once, run by candidate_enrichment_loop  *)
(* of app/worker.py).                                                      *)
(*                                                                         *)
(* A cycle walks through the candidates, those that were tried longest ago *)
(* first, and reads one page of history for at most MaxCandidates of them. *)
(* A candidate's row in service_heartbeats says where its next page        *)
(* begins.  The history is numbered from its oldest transaction and read   *)
(* from the top.  Every row is of the current audit version.               *)
(***************************************************************************)
EXTENDS Naturals, Sequences, SequencesExt, FiniteSets

CONSTANTS
  Candidate,      \* numbered in the order in which they are queued
  External,       \* those found as top traders, audited one by one; the others
                  \* come from the score leaderboard
  NoCandidate,
  Flaky,          \* bound: those whose calls may fail for ever
  PageSize,       \* history_limit
  MaxHistory,     \* maximum_history_transactions
  EarlyAt,        \* adaptive_initial_transactions
  MaxCandidates,  \* maximum_candidates, per cycle
  MaxHeight,      \* bound: transactions of one candidate
  MaxFaults       \* bound: failed calls of the others, failed cycles, crashes

ASSUME AuditAssumption ==
  /\ Candidate \subseteq Nat /\ IsFiniteSet(Candidate)
  /\ External \subseteq Candidate /\ Flaky \subseteq Candidate
  /\ NoCandidate \notin Candidate
  /\ PageSize \in Nat \ {0} /\ MaxHistory \in Nat \ {0} /\ EarlyAt \in Nat
  /\ MaxCandidates \in Nat \ {0} /\ MaxHeight \in Nat /\ MaxFaults \in Nat

VARIABLES
  height,     \* the chain: how many transactions a candidate has
  row,        \* service_heartbeats "candidate:..."
  tried,      \* the candidates that have a row, by last_heartbeat_at
  due,        \* those whose last attempt is retry_seconds ago
  queued,     \* those with a "candidate-source:" row or a score
  poor,       \* those whose score is below the minimum
  monitored,  \* those with an enabled monitor
  start,      \* history: where the audit of a candidate began, from the top
  read,       \* history: what it has handed to the detection so far
  pc,         \* the loop, at each await
  left,       \* the candidates this cycle has not come to yet
  attempted,  \* how many it has tried
  cur,        \* the candidate in hand
  finished,   \* the last one whose page was read, if that completed it
  faults

rows == <<row, tried, due>>
history == <<start, read>>
cycle == <<left, attempted, cur, finished>>
outside == <<height, queued, poor, monitored>>
vars == <<outside, rows, history, pc, cycle, faults>>

Fault == faults < MaxFaults /\ faults' = faults + 1

-----------------------------------------------------------------------------
(* Rows *)

NoRow == [state |-> "none", total |-> 0, token |-> FALSE, low |-> 0,
          capped |-> FALSE, early |-> FALSE, selected |-> FALSE, counted |-> FALSE]

Unfinished(c) == row[c].state \in {"in_progress", "error"}
Complete(c) == row[c].state = "complete"

(* An unfinished audit of a wallet whose scores are those of a copy grade. *)
SelectedPending(c) == Unfinished(c) /\ ~row[c].capped /\ row[c].selected

ReadyOnce(c) == row[c].state \in {"none", "in_progress"}    \* slip: no retry
Ready(c) == row[c].state \in {"none", "in_progress"} \/ c \in due

(* Which of the attempts so far is the last one for c. *)
Place(c) == CHOOSE i \in DOMAIN tried : tried[i] = c

(* _candidate_priority, and the order of the queue where that does not tell. *)
RankOfNone(c) == 0    \* slip: not sorted by attempt
Rank(c) == IF row[c].state = "none" THEN 0 ELSE Place(c)

(* An attempt writes the row, whose last_heartbeat_at is then the latest. *)
Beat(c) ==
  /\ tried' = Append(IF row[c].state = "none" THEN tried ELSE RemoveAt(tried, Place(c)), c)
  /\ due' = due \ {c}

QueuedBefore(c, d) ==
  (c \in External /\ d \notin External) \/ ((c \in External <=> d \in External) /\ c < d)

Before(c, d) ==
  IF SelectedPending(c) # SelectedPending(d) THEN SelectedPending(c)
  ELSE Rank(c) < Rank(d) \/ (Rank(c) = Rank(d) /\ QueuedBefore(c, d))

Init ==
  /\ height \in [Candidate -> 0 .. MaxHeight]
  /\ row = [c \in Candidate |-> NoRow]
  /\ tried = <<>> /\ due = {}
  /\ queued \in SUBSET Candidate /\ poor \in SUBSET (Candidate \ External)
  /\ monitored = {}
  /\ start = [c \in Candidate |-> 0] /\ read = [c \in Candidate |-> {}]
  /\ pc = "idle" /\ left = {} /\ attempted = 0
  /\ cur = NoCandidate /\ finished = NoCandidate
  /\ faults = 0

-----------------------------------------------------------------------------
(* The chain, the clock and the other loops *)

NewTransaction(c) ==
  /\ height[c] < MaxHeight
  /\ height' = [height EXCEPT ![c] = @ + 1]
  /\ UNCHANGED <<rows, history, queued, poor, monitored, pc, cycle, faults>>

(* retry_seconds have passed, for earlier attempts sooner. *)
RetryDue(c) ==
  /\ row[c].state # "none" /\ c \notin due
  /\ \A i \in 1 .. Rank(c) - 1 : tried[i] \in due
  /\ due' = due \cup {c}
  /\ UNCHANGED <<outside, row, tried, history, pc, cycle, faults>>

(* Copy sources, promotion and the operator enable and disable monitors. *)
SetMonitor(c) ==
  /\ monitored' = IF c \in monitored THEN monitored \ {c} ELSE monitored \cup {c}
  /\ UNCHANGED <<height, rows, history, queued, poor, pc, cycle, faults>>

-----------------------------------------------------------------------------
(* The walk through the candidates *)

(* Discovery queues top traders, the leaderboard may have new wallets. *)
StartCycle ==
  /\ pc = "idle"
  /\ \E found \in SUBSET (Candidate \ queued) : queued' = queued \cup found
  /\ pc' = "walk" /\ left' = queued' /\ attempted' = 0 /\ finished' = NoCandidate
  /\ UNCHANGED <<height, rows, history, poor, monitored, cur, faults>>

Turn(c) ==
  /\ pc = "walk" /\ c \in left /\ attempted < MaxCandidates
  /\ \A d \in left : d = c \/ Before(c, d)

Uncounted(c) == Complete(c) /\ ~row[c].counted

(* Complete, but its total is not known: take what was processed. *)
Backfill(c) ==
  /\ Turn(c) /\ Uncounted(c)
  /\ row' = [row EXCEPT ![c].counted = TRUE]
  /\ Beat(c)
  /\ left' = left \ {c} /\ attempted' = attempted + 1
  /\ UNCHANGED <<outside, history, pc, cur, finished, faults>>

Followed(c) ==
  c \in monitored /\ (Complete(c) \/ (c \notin External /\ ~SelectedPending(c)))

(* An external candidate that must wait for its retry ends the cycle. *)
Blocks(c) == ~Ready(c) /\ c \in External /\ Unfinished(c)

Weak(c) == c \in poor /\ ~Unfinished(c)

Skip(c) ==
  /\ Turn(c) /\ ~Uncounted(c)
  /\ Followed(c) \/ (~Ready(c) /\ ~Blocks(c)) \/ (Ready(c) /\ Weak(c))
  /\ left' = left \ {c}
  /\ UNCHANGED <<outside, rows, history, pc, attempted, cur, finished, faults>>

(* The candidates or the attempts are used up, or one blocks the others. *)
EndWalk ==
  /\ pc = "walk"
  /\ \/ left = {} \/ attempted = MaxCandidates
     \/ \E c \in left : Turn(c) /\ ~Uncounted(c) /\ ~Followed(c) /\ Blocks(c)
  /\ pc' = "promote" /\ left' = {} /\ attempted' = 0
  /\ UNCHANGED <<outside, rows, history, cur, finished, faults>>

(* What an audit goes on with; one that does not resume starts afresh. *)
Total(c) == IF Unfinished(c) THEN row[c].total ELSE 0
Resumes(c) == Unfinished(c) /\ row[c].token

Attempt(c) ==
  /\ Turn(c) /\ ~Uncounted(c) /\ ~Followed(c) /\ Ready(c) /\ ~Weak(c)
  /\ left' = left \ {c} /\ attempted' = attempted + 1

(* A retry finds that the cap was reached before. *)
FinishCapped(c) ==
  /\ Attempt(c) /\ Total(c) >= MaxHistory
  /\ row' = [row EXCEPT ![c].state = "complete", ![c].token = FALSE,
                        ![c].capped = TRUE, ![c].early = FALSE]
  /\ Beat(c)
  /\ UNCHANGED <<outside, history, pc, cur, finished, faults>>

BeginPage(c) ==
  /\ Attempt(c) /\ Total(c) < MaxHistory
  /\ pc' = "page" /\ cur' = c
  /\ UNCHANGED <<outside, rows, history, finished, faults>>

-----------------------------------------------------------------------------
(* One page: scan_page, process_transactions oldest first, the scores *)

MinOf(a, b) == IF a <= b THEN a ELSE b
LimitUncapped == PageSize    \* slip: the cap is not applied
Limit == MinOf(PageSize, MaxHistory - Total(cur))
PageTop == IF Resumes(cur) THEN row[cur].low ELSE height[cur]
PageBottom == IF PageTop > Limit THEN PageTop - Limit ELSE 0
Counted == Total(cur) + PageTop - PageBottom

HandOn(done) == read' = [read EXCEPT ![cur] = @ \cup (PageBottom + 1 .. PageBottom + done)]

Leave == pc' = "walk" /\ cur' = NoCandidate

(* A token follows unless the history ends with this page, and may follow a full
   page even then. *)
PageRead(more, early, selected) ==
  LET capped == Counted >= MaxHistory
      complete == ~more \/ capped \/ early
  IN /\ pc = "page"
     /\ IF more THEN PageTop - PageBottom = Limit ELSE PageBottom = 0
     /\ early => Counted >= EarlyAt
     /\ HandOn(PageTop - PageBottom)
     /\ start' = IF Resumes(cur) THEN start ELSE [start EXCEPT ![cur] = PageTop]
     /\ row' = [row EXCEPT ![cur] =
          [state |-> IF complete THEN "complete" ELSE "in_progress",
           total |-> Counted, token |-> ~complete, low |-> PageBottom,
           capped |-> capped, early |-> early, selected |-> selected,
           counted |-> row[cur].counted \/ complete]]
     /\ Beat(cur)
     /\ poor' \in {poor \ {cur}, poor \cup ({cur} \ External)}
     /\ finished' = IF complete THEN cur ELSE NoCandidate
     /\ Leave
     /\ UNCHANGED <<height, queued, monitored, left, attempted, faults>>

(* An error before, in or after the handling of the page; the total counts a page
   that was handled. *)
FailedAfresh(total) ==    \* slip: the token is not kept
  [row EXCEPT ![cur].state = "error", ![cur].total = total, ![cur].token = FALSE]
FailedAhead(total) ==     \* slip: the next page's token is kept
  [row EXCEPT ![cur].state = "error", ![cur].total = total, ![cur].token = TRUE,
              ![cur].low = PageBottom]
Failed(total) ==
  [row EXCEPT ![cur].state = "error", ![cur].total = total, ![cur].token = Resumes(cur)]

PageFails(done) ==
  /\ pc = "page" /\ done <= PageTop - PageBottom
  /\ IF cur \in Flaky THEN UNCHANGED faults ELSE Fault
  /\ HandOn(done)
  /\ \/ row' = Failed(Total(cur))
     \/ done = PageTop - PageBottom /\ row' = Failed(Counted)
  /\ Beat(cur)
  /\ Leave
  /\ UNCHANGED <<outside, start, left, attempted, finished>>

-----------------------------------------------------------------------------
(* Ends *)

(* The last candidate, if its audit is complete, is promoted if it is eligible
   and there is room. *)
Promote ==
  /\ pc = "promote"
  /\ \/ UNCHANGED monitored
     \/ finished # NoCandidate /\ monitored' = monitored \cup {finished}
  /\ pc' = "idle" /\ finished' = NoCandidate
  /\ UNCHANGED <<height, queued, poor, rows, history, left, attempted, cur, faults>>

(* A statement failed, so the row cannot be written either; or the process ends.
   Part of a page may have been handled. *)
CycleLost ==
  /\ pc # "idle" /\ Fault
  /\ \/ UNCHANGED read
     \/ pc = "page" /\ \E done \in 0 .. PageTop - PageBottom : HandOn(done)
  /\ pc' = "idle" /\ left' = {} /\ attempted' = 0
  /\ cur' = NoCandidate /\ finished' = NoCandidate
  /\ UNCHANGED <<outside, rows, start>>

-----------------------------------------------------------------------------
Walk ==
  \/ StartCycle \/ EndWalk \/ Promote
  \/ \E c \in Candidate : Backfill(c) \/ Skip(c) \/ FinishCapped(c) \/ BeginPage(c)

Page ==
  \/ \E more, early, selected \in BOOLEAN : PageRead(more, early, selected)
  \/ \E done \in 0 .. PageSize : PageFails(done)

Outside == \E c \in Candidate : NewTransaction(c) \/ SetMonitor(c)

Next ==
  \/ Walk \/ Page \/ CycleLost
  \/ \E c \in Candidate : RetryDue(c)
  \/ Outside

Spec == Init /\ [][Next]_vars

(* The loop comes round for ever and time passes. *)
Fairness == WF_vars(Walk \/ Page) /\ \A c \in Candidate : WF_vars(RetryDue(c))
FairSpec == Spec /\ Fairness

-----------------------------------------------------------------------------
(* Properties *)

RowType ==
  [state : {"none", "in_progress", "complete", "error"}, total : 0 .. MaxHistory,
   token : BOOLEAN, low : 0 .. MaxHeight, capped : BOOLEAN, early : BOOLEAN,
   selected : BOOLEAN, counted : BOOLEAN]

(* Every variable has its type; no audit counts more than maximum_history_
   transactions, and the attempts name each candidate with a row once. *)
TypeOK ==
  /\ height \in [Candidate -> 0 .. MaxHeight]
  /\ row \in [Candidate -> RowType]
  /\ tried \in Seq(Candidate)
  /\ \A c \in Candidate :
       row[c].state # "none" <=> \E i \in DOMAIN tried : tried[i] = c
  /\ \A i, j \in DOMAIN tried : tried[i] = tried[j] => i = j
  /\ due \subseteq Candidate /\ queued \subseteq Candidate
  /\ poor \subseteq Candidate /\ monitored \subseteq Candidate
  /\ start \in [Candidate -> 0 .. MaxHeight]
  /\ read \in [Candidate -> SUBSET (1 .. MaxHeight)]
  /\ pc \in {"idle", "walk", "page", "promote"}
  /\ left \subseteq Candidate /\ attempted \in 0 .. MaxCandidates
  /\ cur \in Candidate \cup {NoCandidate}
  /\ finished \in Candidate \cup {NoCandidate}
  /\ pc = "page" => cur \in Candidate
  /\ faults \in 0 .. MaxFaults

(* A candidate that is reported complete, and neither capped nor stopped early,
   has had its whole history handled, through errors, lost cycles and retries. *)
CompleteIsWhole ==
  \A c \in Candidate :
    Complete(c) /\ ~row[c].capped /\ ~row[c].early => 1 .. start[c] \subseteq read[c]

(* "Transient errors retain the checkpoint" (docs/TRADER_DISCOVERY.md:141): an
   audit that has got somewhere is never thrown back before it is complete. *)
NoProgressLost ==
  [][\A c \in Candidate :
       Resumes(c) => \/ row'[c].state = "complete"
                     \/ row'[c].token /\ row'[c].low <= row[c].low]_vars

(* Nobody is kept waiting for ever, unless by an external candidate of a copy
   grade that goes on failing. *)
Waiting(c) == c \in queued \ (monitored \cup poor) /\ row[c].state = "none"
Obstinate(c) == c \in External /\ SelectedPending(c) /\ row[c].state = "error"
OthersGoOn == \A c \in Candidate \ Flaky : ~<>[]Waiting(c)
OthersGoOnUnlessObstinate ==
  <>[](\A c \in Candidate : ~Obstinate(c)) => OthersGoOn

(* Every candidate the discovery has queued is audited to the end, under the
   same condition. *)
AuditsFinish ==
  <>[](\A c \in Candidate : ~Obstinate(c)) =>
    \A c \in External \ Flaky : c \in queued ~> Complete(c)

=============================================================================
