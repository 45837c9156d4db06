--------------------------- MODULE MonitorIngestion ---------------------------
(***************************************************************************)
(* How the swaps of monitored wallets reach the event bus                  *)
(* (app/services/monitor_worker.py, app/listeners/transaction_scanner.py,  *)
(* app/services/token_detection_service.py and app/listeners/              *)
(* helius_websocket.py).                                                   *)
(*                                                                         *)
(* A poll scans each wallet newest first down to its checkpoint, handles   *)
(* what it found oldest first and advances the checkpoint.  A page leaves  *)
(* out a transaction for which the provider has no details.  For the       *)
(* wallets that are copied a WebSocket handles the same transactions in a  *)
(* session of its own, in any order.  Transaction i of a wallet is the     *)
(* i-th that the chain finalized.                                          *)
(***************************************************************************)
EXTENDS Naturals

CONSTANTS
  Wallet,      \* the ids of the enabled monitors
  Source,      \* those whose wallets are copied: polled first, and pushed
  PageSize, MaxPages,
  MaxHeight,   \* bound: transactions of one wallet
  MaxFaults    \* bound: failed calls, pages with gaps, and crashes

ASSUME IngestionAssumption ==
  /\ Wallet \subseteq Nat /\ Source \subseteq Wallet
  /\ PageSize \in Nat \ {0} /\ MaxPages \in Nat \ {0}
  /\ MaxHeight \in Nat /\ MaxFaults \in Nat

VARIABLES
  height,      \* the chain: how many transactions a wallet has
  checkpoint,  \* wallet_monitors.checkpoint_signature, 0 when NULL
  failed,      \* wallet_monitors.last_error is set
  trades,      \* the trades table
  published,   \* the transactions whose TradeScored went out
  skipped,     \* history: what a first scan or an incomplete catch-up passed over
  leftOut,     \* history: what a checkpoint passed since its details were empty
  pc,          \* the poller, at each await
  left,        \* the wallets this poll has still to scan
  cur,         \* the wallet being scanned
  scan,        \* scan_since: pages read, how deep, the newest seen, the gaps
  batch,       \* why the scan ended and what is still to be handled
  push,        \* the WebSocket: where its handler is, and with what
  seen,        \* the signatures it remembers
  faults

rows == <<checkpoint, failed, trades>>
passed == <<skipped, leftOut>>
outcome == <<published, passed>>
poll == <<pc, left, cur, scan, batch>>
vars == <<height, rows, outcome, poll, push, seen, faults>>

Tx == 1 .. MaxHeight
NoScan == [pages |-> 0, low |-> 0, newest |-> 0, gaps |-> {}]
NoBatch == [kind |-> "batch", todo |-> {}]
NoPush == [pc |-> "idle", wallet |-> 0, tx |-> 0]
Handling == {"lookup", "insert", "publish"}

Fault == faults < MaxFaults /\ faults' = faults + 1

Init ==
  /\ height \in [Wallet -> 0 .. MaxHeight]
  /\ checkpoint = [w \in Wallet |-> 0]
  /\ failed = [w \in Wallet |-> FALSE]
  /\ trades = [w \in Wallet |-> {}]
  /\ published = trades /\ skipped = trades /\ leftOut = trades
  /\ pc = "idle" /\ left = {} /\ cur = 0 /\ scan = NoScan /\ batch = NoBatch
  /\ push = NoPush /\ seen = {}
  /\ faults = 0

(* A wallet makes a swap. *)
NewTransaction(w) ==
  /\ height[w] < MaxHeight
  /\ height' = [height EXCEPT ![w] = @ + 1]
  /\ UNCHANGED <<rows, outcome, poll, push, seen, faults>>

(* The locals of a wallet that is done with. *)
Forget == cur' = 0 /\ scan' = NoScan /\ batch' = NoBatch

-----------------------------------------------------------------------------
(* run_once: the wallets, copy sources first, then by id *)

Before(v, w) == (v \in Source /\ w \notin Source)
                \/ ((v \in Source <=> w \in Source) /\ v < w)

Monitors == Wallet

(* The poll first enables the monitors of the copy sources, which clears their
   error. *)
StartPoll ==
  /\ pc = "idle"
  /\ failed' = [w \in Wallet |-> w \notin Source /\ failed[w]]
  /\ pc' = "next" /\ left' = Monitors
  /\ UNCHANGED <<height, checkpoint, trades, outcome, cur, scan, batch, push, seen,
                 faults>>

(* The checkpoint was read with the monitors. *)
StartScan(w) ==
  /\ pc = "next" /\ w \in left
  /\ \A v \in left : v = w \/ Before(w, v)
  /\ pc' = "scan" /\ cur' = w /\ left' = left \ {w}
  /\ scan' = NoScan /\ batch' = NoBatch
  /\ UNCHANGED <<height, rows, outcome, push, seen, faults>>

EndPoll ==
  /\ pc = "next" /\ left = {}
  /\ pc' = "idle"
  /\ UNCHANGED <<height, rows, outcome, left, cur, scan, batch, push, seen, faults>>

-----------------------------------------------------------------------------
(* scan_since: one page, newest first *)

PageTop == IF scan.pages = 0 THEN height[cur] ELSE scan.low
PageBottom == IF PageTop > PageSize THEN PageTop - PageSize ELSE 0
Page == PageBottom + 1 .. PageTop
FullPage == PageTop >= PageSize           \* a token may follow, even at the beginning

(* In the standard history mode a page is a list of signatures, and the client asks
   for the details of each.  Those whose answer is empty are left out; an empty
   answer for the checkpoint hides it. *)
Answered(gaps) == IF gaps = {} THEN UNCHANGED faults ELSE Fault

(* The first transaction with details is the newest the scan has seen. *)
Newest(gaps, n) ==
  IF scan.newest # 0 THEN n = scan.newest
  ELSE /\ n \in (Page \ gaps) \cup {0}
       /\ \A i \in Page \ gaps : i <= n

Found(gaps) == checkpoint[cur] \in Page \ gaps
FirstNewSkipsOne == checkpoint[cur] + 2   \* slip: off by one
FirstNew == checkpoint[cur] + 1

(* The scan is complete, or is given up: from `first` on, the batch is handled
   oldest first. *)
ScanEnds(kind, first, n, gaps) ==
  LET all == IF kind = "batch" THEN (first .. n) \ (scan.gaps \cup gaps) ELSE {}
  IN /\ scan' = [scan EXCEPT !.newest = n, !.gaps = @ \cup gaps]
     /\ batch' = [kind |-> kind, todo |-> all]
     /\ pc' = IF all # {} THEN "lookup" ELSE "mark"
     /\ UNCHANGED <<height, rows, outcome, left, cur, push, seen>>

ReachCheckpoint(n, gaps) ==
  /\ Found(gaps)
  /\ ScanEnds("batch", FirstNew, n, gaps)

(* Without a checkpoint the first page only sets one. *)
FirstScan(n, gaps) ==
  /\ ~Found(gaps) /\ checkpoint[cur] = 0
  /\ ScanEnds("baseline", 1, n, gaps)

(* No pagination token: the whole history was read.  In the standard history mode
   a token follows every full page, the last one too. *)
ReachBeginning(n, gaps) ==
  /\ ~Found(gaps) /\ checkpoint[cur] # 0 /\ PageBottom = 0
  /\ ScanEnds("batch", 1, n, gaps)

MorePages == scan.pages + 2 < MaxPages    \* slip: the last page is not asked for
PagesLeft == scan.pages + 1 < MaxPages

(* The pages ran out. *)
GiveUp(n, gaps) ==
  /\ ~Found(gaps) /\ checkpoint[cur] # 0 /\ FullPage /\ ~PagesLeft
  /\ ScanEnds("resync", 1, n, gaps)

NextPage(n, gaps) ==
  /\ ~Found(gaps) /\ checkpoint[cur] # 0 /\ FullPage /\ PagesLeft
  /\ scan' = [pages |-> scan.pages + 1, low |-> PageBottom, newest |-> n,
              gaps |-> scan.gaps \cup gaps]
  /\ UNCHANGED <<height, rows, outcome, pc, left, cur, batch, push, seen>>

ReadPage(n, gaps) ==
  /\ Newest(gaps, n) /\ Answered(gaps)
  /\ \/ ReachCheckpoint(n, gaps) \/ FirstScan(n, gaps) \/ ReachBeginning(n, gaps)
     \/ GiveUp(n, gaps) \/ NextPage(n, gaps)

(* The provider repeats a token: given up, too. *)
TokenRepeats(n) ==
  /\ scan.pages > 0 /\ Newest({}, n) /\ Fault
  /\ ~Found({}) /\ FullPage
  /\ ScanEnds("broken", 1, n, {})

-----------------------------------------------------------------------------
(* process_transactions: look for the trade, insert it, publish *)

First(i) == i \in batch.todo /\ \A j \in batch.todo : i <= j
Stored(i) == i \in trades[cur]

Lookup(i) ==
  /\ pc = "lookup" /\ First(i)
  /\ pc' = IF Stored(i) THEN "publish" ELSE "insert"
  /\ UNCHANGED <<height, rows, outcome, left, cur, scan, batch, push, seen, faults>>

Insert(i) ==
  /\ pc = "insert" /\ First(i) /\ ~Stored(i)
  /\ trades' = [trades EXCEPT ![cur] = @ \cup {i}]
  /\ pc' = "publish"
  /\ UNCHANGED <<height, checkpoint, failed, outcome, left, cur, scan, batch, push,
                 seen, faults>>

(* TradeScored goes out whether or not the trade was new. *)
Publish(i) ==
  /\ pc = "publish" /\ First(i)
  /\ published' = [published EXCEPT ![cur] = @ \cup {i}]
  /\ batch' = [batch EXCEPT !.todo = @ \ {i}]
  /\ pc' = IF batch.todo # {i} THEN "lookup" ELSE "mark"
  /\ UNCHANGED <<height, rows, passed, left, cur, scan, push, seen, faults>>

(* mark_success *)
AdvancedPast == scan.newest + 1      \* slip: the one after the batch
Advanced == IF scan.newest = 0 THEN checkpoint[cur] ELSE scan.newest
PassedOver == IF batch.kind = "batch" THEN {} ELSE 1 .. scan.newest
Gaps == IF batch.kind = "batch" THEN scan.gaps \cap (1 .. scan.newest) ELSE {}

MarkSuccess ==
  /\ pc = "mark"
  /\ checkpoint' = [checkpoint EXCEPT ![cur] = Advanced]
  /\ failed' = [failed EXCEPT ![cur] = FALSE]
  /\ skipped' = [skipped EXCEPT ![cur] = @ \cup PassedOver]
  /\ leftOut' = [leftOut EXCEPT ![cur] = @ \cup Gaps]
  /\ pc' = "next" /\ Forget
  /\ UNCHANGED <<height, trades, published, left, push, seen, faults>>

(* mark_error, for an error that leaves the session usable. *)
MarkError ==
  /\ pc \in {"scan"} \cup Handling /\ Fault
  /\ failed' = [failed EXCEPT ![cur] = TRUE]
  /\ pc' = "next" /\ Forget
  /\ UNCHANGED <<height, checkpoint, trades, outcome, left, push, seen>>

(* A statement failed: the session needs a rollback that nobody issues, so the
   commit in mark_error fails too, and the poll with it. *)
SessionFails ==
  /\ \/ /\ pc = "insert" /\ UNCHANGED faults
        /\ \E i \in batch.todo : First(i) /\ Stored(i)
     \/ pc \in Handling \cup {"mark"} /\ Fault
  /\ pc' = "idle" /\ left' = {} /\ Forget
  /\ UNCHANGED <<height, rows, outcome, push, seen>>

-----------------------------------------------------------------------------
(* The WebSocket *)

(* The signature is remembered before it is handled, and one that is remembered
   is dropped. *)
Receive(w, i) ==
  /\ push.pc = "idle" /\ i <= height[w] /\ <<w, i>> \notin seen
  /\ seen' = seen \cup {<<w, i>>}
  /\ push' = [pc |-> "lookup", wallet |-> w, tx |-> i]
  /\ UNCHANGED <<height, rows, outcome, poll, faults>>

Pushed == push.tx \in trades[push.wallet]

PushLookup ==
  /\ push.pc = "lookup"
  /\ push' = [push EXCEPT !.pc = IF Pushed THEN "publish" ELSE "insert"]
  /\ UNCHANGED <<height, rows, outcome, poll, seen, faults>>

PushInsert ==
  /\ push.pc = "insert" /\ ~Pushed
  /\ trades' = [trades EXCEPT ![push.wallet] = @ \cup {push.tx}]
  /\ push' = [push EXCEPT !.pc = "publish"]
  /\ UNCHANGED <<height, checkpoint, failed, outcome, poll, seen, faults>>

PushPublish ==
  /\ push.pc = "publish"
  /\ published' = [published EXCEPT ![push.wallet] = @ \cup {push.tx}]
  /\ push' = NoPush
  /\ UNCHANGED <<height, rows, passed, poll, seen, faults>>

(* Not the leader, an error, or a trade inserted meanwhile: reconnect. *)
PushFails ==
  /\ push.pc # "idle"
  /\ \/ push.pc = "insert" /\ Pushed /\ UNCHANGED faults
     \/ Fault
  /\ push' = NoPush
  /\ UNCHANGED <<height, rows, outcome, poll, seen>>

(* The process ends: what it remembers is gone. *)
Crash ==
  /\ Fault
  /\ pc' = "idle" /\ left' = {} /\ Forget
  /\ push' = NoPush /\ seen' = {}
  /\ UNCHANGED <<height, rows, outcome>>

-----------------------------------------------------------------------------
Scan ==
  /\ pc = "scan"
  /\ \E n \in 0 .. MaxHeight :
       TokenRepeats(n) \/ \E gaps \in SUBSET Page : ReadPage(n, gaps)
Handle == \E i \in batch.todo : Lookup(i) \/ Insert(i) \/ Publish(i)
Poll ==
  \/ StartPoll \/ (\E w \in Wallet : StartScan(w)) \/ EndPoll
  \/ Scan \/ Handle \/ MarkSuccess \/ MarkError \/ SessionFails

WebSocket ==
  \/ \E w \in Source, i \in Tx : Receive(w, i)
  \/ PushLookup \/ PushInsert \/ PushPublish \/ PushFails

Next == (\E w \in Wallet : NewTransaction(w)) \/ Poll \/ WebSocket \/ Crash

Spec == Init /\ [][Next]_vars

(* The main loop polls for ever; nobody owes a push. *)
FairSpec == Spec /\ WF_vars(Poll)

-----------------------------------------------------------------------------
(* Properties *)

TypeOK ==
  /\ height \in [Wallet -> 0 .. MaxHeight]
  /\ checkpoint \in [Wallet -> 0 .. MaxHeight]
  /\ failed \in [Wallet -> BOOLEAN]
  /\ trades \in [Wallet -> SUBSET Tx] /\ published \in [Wallet -> SUBSET Tx]
  /\ skipped \in [Wallet -> SUBSET Tx] /\ leftOut \in [Wallet -> SUBSET Tx]
  /\ pc \in {"idle", "next", "scan", "mark"} \cup Handling
  /\ left \subseteq Wallet /\ cur \in Wallet \cup {0}
  /\ scan \in [pages : Nat, low : 0 .. MaxHeight, newest : 0 .. MaxHeight,
               gaps : SUBSET Tx]
  /\ batch \in [kind : {"batch", "baseline", "resync", "broken"}, todo : SUBSET Tx]
  /\ push \in [pc : {"idle"} \cup Handling, wallet : Wallet \cup {0}, tx : 0 .. MaxHeight]
  /\ seen \subseteq (Source \X Tx)
  /\ faults \in 0 .. MaxFaults

(* Handled, or passed over by the first scan or by a catch-up that was given up. *)
Settled(w, i) == i \in published[w] \cup skipped[w]

(* What the checkpoint passes was handled, was passed over on purpose, or had empty
   details in the very scan that passed it: errors, crashes, races with the WebSocket,
   lost pushes, and an empty answer for another transaction lose nothing else
   (MonitorWorker.run_once, TransactionScanner.scan_since). *)
OnlyGapsAreMissed ==
  \A w \in Wallet : \A i \in 1 .. checkpoint[w] : Settled(w, i) \/ i \in leftOut[w]

(* A catch-up is given up, and a backlog skipped, only if the backlog has at least as
   many transactions as the pages it may read, or the provider misbehaved: empty
   details, or a token it repeats (scan_since, max_pages). *)
OnlyLongBacklogsAreSkipped ==
  [][MarkSuccess /\ batch.kind = "resync" /\ scan.gaps = {}
       => checkpoint[cur] + MaxPages * PageSize <= scan.newest]_vars

(* A poll hands a wallet's transactions on in the order of the chain. *)
PolledInOrder ==
  [][\A i \in batch.todo : Publish(i)
       => \A j \in 1 .. i - 1 : Settled(cur, j) \/ j \in leftOut[cur] \cup scan.gaps]_vars

(* Every transaction is handled in the end, pushed or not, unless it was passed
   over on purpose, or the checkpoint passed it while its details were empty. *)
EveryTransactionSettles ==
  \A w \in Wallet, i \in Tx : i <= height[w] ~> Settled(w, i) \/ i \in leftOut[w]

(* What a test of the worker says: the failure of one wallet does not keep the
   poll from the others. *)
PollVisitsEveryWallet ==
  [][pc # "idle" /\ pc' = "idle" /\ UNCHANGED faults => left = {}]_vars

=============================================================================
