# A formal model of Sniper-Sniper

The repository watches Solana wallets, stores and scores their trades, looks for
new tokens and new traders, and *paper copies* the trades of the wallets it
follows: it keeps a portfolio that buys and sells, at quoted prices, what they
buy and sell. This directory holds TLA+ models of that program, the TLC
configurations that check them on small instances, and theorems about them
proved with TLAPS.

## The system

One worker process (`app/worker.py`) runs every loop as an asyncio task; several
replicas may run, and a PostgreSQL advisory lock makes one of them the leader.
All state that outlives the process is in PostgreSQL.

| Component | State | Operations | How it interacts |
|---|---|---|---|
| Leader election (`infrastructure/leader_election.py`) | the connection that holds the lock, `is_leader` | `try_acquire`, `verify`, `release` | every loop reads `is_leader`; only the main loop calls `verify` |
| Monitor ingestion (`services/monitor_worker.py`, `listeners/transaction_scanner.py`) | one checkpoint per monitored address | `run_once`: scan since the checkpoint, handle, advance | RPC pages in, `TokenDetectionService` out |
| WebSocket (`listeners/helius_websocket.py`) | subscriptions, recent signatures | subscribe, receive, reconnect | same handler as ingestion, without checkpoint |
| Token detection and persistence (`services/token_detection_service.py`, collectors, repositories) | tokens, wallets, trades | parse, insert if new, publish events | the event bus calls the collectors in order |
| Event bus (`core/event_bus.py`) | subscribers | `publish` awaits each handler in turn | `TradeScored` reaches `PaperCopyCollector` |
| **Paper copy** (`services/paper_copy_service.py`, `services/paper_copy_reconciliation_service.py`, `repositories/paper_copy_repository.py`) | portfolio, positions, orders | `enqueue_trade`, `execute_next`, `reconcile`, `close_all_positions` | executor loop, collectors and a CLI share the tables |
| Candidate audit (`services/candidate_enrichment_service.py`) | progress of each candidate's history | `run_once`: scan pages, score, retry or finish | RPC in, score snapshots out |
| DEX discovery (`services/dex_discovery_service.py`) | cursor per program | sample the newest transactions, hand them on | RPC in, the same detection and scoring as ingestion |
| Copy sources, trader promotion (`services/copy_source_service.py`, `collectors/trader_promotion_collector.py`) | enabled monitors | promote, enable the sources, audit styles | decides whom ingestion and paper copy follow |
| Alerts, Telegram, reports | alert rows, sent flags | send, mark as sent | reads everything |
| Scoring, positions, style (calculators, `repositories/analytics_repository.py`) | score snapshots | pure computations on stored trades | run at each trade, by the discovery, the audit and the API |
| Funding graph | transfers | store, query | reads transactions |
| API and frontend | none | read-only queries | reads everything |

What is hard here: the tables are read before an `await` and used after it;
trades arrive by WebSocket, polling and catch-up, in any order and more than
once; quotes fail and are retried under an age limit; reconciliation sells what
a late trade will ask to sell again; a cycle that fails half-way has already
committed part of its work; and a second process may close positions while the
worker trades. `PROJECT.json` lists the hazards at their lines.

What makes each component correct:

* paper copy: the books balance, no order is filled twice or lost, the limits on
  positions hold, queued orders are settled, a source's exit is followed;
* leadership: at most one replica acts, and a lost lock is noticed before acting;
* ingestion: a checkpoint only passes a transaction that was not handled when it was
  passed over on purpose, or when the provider had no details of it;
* persistence: a trade is stored once, and one failure does not stop the others;
* candidate audit: a candidate reported complete was scanned completely, and one
  that keeps failing neither blocks the others nor is retried for ever;
* discovery: what was sampled is handled although a program, a handler or the
  worker fails; the programs of a cycle share a session that one of them can break;
* promotion: loops that promote at once pass the maximum by a bounded number only,
  and a wallet that is worthy, or a copy source, does end up monitored;
* messages: what is marked as sent was told to every recipient, what is to be told
  once is told by one job only;
* calculators: what SQL, in doubles, and Python, in decimals, find in one pass, in
  whatever order trades were stored, is what the definition says but for the roundings;
  a grade needs evidence.

## Modules

| Module | What it is |
|---|---|
| `PaperCopy` | the queue, the reconciliation and the execution of one portfolio |
| `PaperLedger` | what a paper portfolio promises: orders settle once, money is accounted for |
| `MCPaperCopy` | `PaperCopy` with its signatures interchangeable, for TLC |
| `PaperCopyProofs` | types, the session, cash, final orders, `PaperLedger`, limits and books |
| `LeaderElection` | replicas, the advisory lock and the tasks that look at `is_leader` |
| `LeaderElectionProofs` | types and mutual exclusion |
| `MonitorIngestion` | the poller with its checkpoints, beside the WebSocket |
| `MonitorIngestionProofs` | types, checkpoints, order, and when a backlog may be skipped |
| `CandidateAudit` | how the histories of candidate wallets are audited, page by page |
| `CandidateAuditProofs` | completeness, checkpoints and bounds of the audit |
| `TraderPromotion` | which wallets are monitored: loops that promote, copy sources, operator, style audit |
| `TraderPromotionProofs` | types, and by how much the maximum can be passed |
| `DexDiscovery` | the discovery of swaps on the DEX programs, and the collectors behind it step by step |
| `MCDexDiscovery` | the sequence of its programs, for TLC |
| `DexDiscoveryProofs` | types, and that nothing sampled is missed, and scores |
| `Notifications` | what the recipients are told, and what is remembered of it |
| `NotificationsProofs` | proofs about it; EXTENDS `Notifications` |
| `Fractions` | rational numbers, which stand for decimals and ratios |
| `Doubles` | the floats that amounts are stored and added up in |
| `TradeHistory` | stored trades, and what the queries of `AnalyticsRepository` make of them |
| `Positions` | `PositionCalculator` |
| `TraderStyle` | `TraderStyleService` |
| `Scores` | the four score calculators and `ScoringService` |
| `StyleByDefinition` | windows and cycles as sets of trades, what the style filter should find |
| `MCCalculations` | histories to compute on, and reference definitions |
| `CalculationsProofs` | holdings, style, books and grades of histories of any length; EXTENDS `MCCalculations` |

The models do not share variables: what one assumes of another is an
environment action. A replica that leads runs `MonitorIngestion`'s poller and
WebSocket; every `Publish` and `PushPublish` there may become an `EnqueueTrade`
of `PaperCopy`, which takes any trade at any time, any number of times, and so
covers every order `MonitorIngestion` can produce. `PaperCopy` has one executor,
as `LeaderElection` has it while no session is lost. `CandidateAudit` hands its
pages to the same detection as ingestion; which monitors are enabled is open in it
(`SetMonitor`), and `TraderPromotion` says who sets them. `Publish` of
`MonitorIngestion` stands for the handlers between `TradeObserved` and
`TradeScored`; `DexDiscovery` has them one by one, with the second session at work.
A score that it saves may be a `ScoreSaved` and a `ScoreUpdated` of
`TraderPromotion`. An order that `PaperCopy` fills or skips is a `Settle` of
`Notifications`, whose workers may all take themselves for the leader, which is
more than `LeaderElection` allows. The calculators are functions of the stored
trades; the processes need of them only whether a wallet is worthy and patient.

### PaperCopy

The database is `orders` (a function on the unique key), `cash` and `positions`;
`invested` and `realized` are history variables that add up what the fills did.
The chain is `balance` and `trades`, the clock is `now`. The executor is
`paper_copy_execution_loop`: `pc` says at which await it is, `viewCash`,
`viewPos` and `dirty` are its SQLAlchemy session (`expire_on_commit=False`, so
objects survive a commit, and a flush writes the changed columns of a row),
`todo`, `fetched`, `seen` and `cur` are the locals of `reconcile` and
`execute_next`.

| Action | Code |
|---|---|
| `SourceTrade` | a swap on chain (external) |
| `EnqueueTrade` | `PaperCopyCollector.handle_trade_scored`, `enqueue_trade`, `repository.enqueue`, for any trade at any later time, any number of times |
| `Tick`, `ReconcileTimer` | time passes |
| `StartReconcile`, `FetchBalances` | `reconcile` up to the loop; `get_token_balances` of one wallet |
| `TrackSource` | the source holds at least what is tracked |
| `ReducePending`, `ReduceFilled`, `ReduceCollides` | `_reduce_position`: no route, sold, or a duplicate key |
| `RiskUnpriced`, `RiskHold`, `RiskExit` | `_refresh_risk` |
| `FinishReconcile` | the commit at the end of `reconcile` |
| `NothingDue`, `SkipDue`, `BeginOrder` | `execute_next` up to its first quote |
| `DeferOrder`, `RejectBuy`, `FillBuy`, `FillSell` | how `execute_next` ends |
| `CycleFails`, `Crash` | an exception in the cycle; the process restarts |

`next_due` locks the order and the portfolio row; an insert into the orders needs
a share lock on the portfolio, so `EnqueueTrade` waits while an order is in hand.
Money, quantities and time are whole numbers where the code has floats; a sale
rounds down the quantity and the cost it releases, so the tolerances of the code
(1e-9, 1e-12) have no counterpart. The portfolio is enabled, as the worker
creates it; the wallet filter of `enqueue_trade` is the set `Wallet`. Liquidity
and price impact are answers of the market, so `RejectBuy` may happen to any buy
in hand. A closed row is the zero row: the code resets every column a later step
reads when it reopens one.

### PaperLedger

Orders are `pending`, then `filled` or `skipped` for good; cash moves only with a
fill; what a sale brings is what it releases plus what it realizes. `PaperCopy`
implements it under the mapping that forgets all of an order but its status.

### LeaderElection

`lock` is the process whose database session holds the advisory lock: the server
knows sessions, and a session belongs to one process. `Abandoned` is a session
whose client is gone and which the server has not noticed yet. `conn[r]` is
`_connection is not None`, hence `is_leader`. `act[r][l]` is a background task:
not running, waiting, or in the middle of a cycle.

| Action | Code |
|---|---|
| `Grant`, `Acquired`, `NotAcquired` | `try_acquire`: the SELECT takes the lock, then a commit; a failure closes the connection |
| `StillLeader` | `try_acquire` with a connection returns at once |
| `Verified`, `VerifyFails`, `VerifyRaises` | `verify`: `SELECT 1`; an SQLAlchemyError forgets the connection, anything else ends `run` |
| `StartUp`, `StartUpFails`, `PollEnds` | the body of the main loop |
| `BeginCycle`, `EndCycle`, `LoopEnds` | the other loops, which read `is_leader` only |
| `StopSeen`, `CancelTask`, `Release` | `finally`: each task cancelled and awaited, the heartbeat last, then the lock |
| `Stop`, `Crash`, `Restart`, `SessionLost`, `Reap` | signals, processes and PostgreSQL (external) |

Closing a connection only returns it to the pool of the process, and a session
level lock survives that: after a failure the lock may stay with `r` although
`conn[r]` is FALSE. The pool hands its connections out in turn, so `try_acquire`
gets that session back and is granted the lock again: `Grant` admits `lock = r`.
A refused `try_acquire` changes nothing and is no action.

### MonitorIngestion

The transactions of a wallet are numbered in the order the chain finalized them;
a checkpoint is the number of its transaction, 0 when the column is NULL. A page
of history is an interval, read downwards from `scan.low`, less its gaps: the client
asks for the details of each signature and leaves out those whose answer is empty
(helius_client.py:356-360). The batch is handled upwards. `push` is the handler of the
WebSocket, with a session of its own.

| Action | Code |
|---|---|
| `NewTransaction` | the chain (external) |
| `StartPoll` | `CopySourceService.reconcile` (it enables the sources, which clears their error), `list_all`, the sort |
| `StartScan`, `EndPoll` | the loop of `MonitorWorker.run_once` |
| `ReadPage`: `ReachCheckpoint`, `FirstScan`, `ReachBeginning`, `GiveUp` or `NextPage` | one page of `scan_since`, with any gaps, by how it ends |
| `TokenRepeats` | a page whose token the provider has given before |
| `Lookup`, `Insert`, `Publish` | `process_transactions`, `create_trade`, `TradeObserved` up to `TradeScored` |
| `MarkSuccess`, `MarkError` | the repository's methods of those names |
| `SessionFails` | an error of a statement: the session needs a rollback, so `mark_error` raises and the poll ends |
| `Receive`, `PushLookup`, `PushInsert`, `PushPublish`, `PushFails` | the subscriber: it remembers the signature, then handles it, and reconnects after an error |
| `Crash` | the process ends |

A page with gaps is a fault. A gap at the checkpoint hides it from the scan, and a gap
at the top makes an older transaction the newest that was seen. `skipped` and
`leftOut` are history variables: what `mark_success` passed over in a first scan or in
a catch-up that was given up, and what it passed because the scan had no details of it.
The window of 10,000 remembered signatures is left out: what
falls out of it may be handled again, as after a restart. The filter of
transactions without a swap is left out: they have nothing to settle.

A page has a successor only if it is full (`FullPage`): the client makes a token of
the last signature when it got as many rows as it asked for.

### CandidateAudit

`row[c]` is the details column of the row `candidate:c` of `service_heartbeats`:
state, total, whether there is a pagination token and where it points (`low`), why
the audit ended, whether the scores written last are those of a copy grade, and
whether the total is known. `last_heartbeat_at` and the clock are replaced by
`tried`, the candidates in the order of their last attempt, and `due`, those whose
retry interval is over: what the code compares is only that. A history is numbered
from its oldest transaction. `start` and `read` are history variables: where an
audit began, and what was handed to the detection.

| Action | Code |
|---|---|
| `StartCycle` | discovery and the queue; any wallets may be new |
| `Backfill`, `Skip`, `EndWalk` | the early ends of a turn in the loop over the candidates, and the `break` |
| `FinishCapped`, `BeginPage` | an attempt, up to `scan_page` |
| `PageRead`, `PageFails` | the `try` block and its `except`: the page, the detection, the scores, the row |
| `Promote` | `promote_address` of the last wallet, if its audit is complete |
| `CycleLost` | the row cannot be written because the session failed, or the process ends |
| `RetryDue`, `SetMonitor`, `NewTransaction` | the clock, the other loops and the operator, the chain (external) |

The first candidate of the sort is the one whose `Turn` it is: rows do not change
order behind the walk, since an attempt moves only the candidate in hand. A row is
of the current audit version (rows of version 2 are from an earlier release and
only wait less or never); the limit of 1,000 rows, the details of the discovery and
the transactions whose details the provider returns empty are left out.

### TraderPromotion

`monitor` is the table `wallet_monitors`. `worthy`, `patient` and `sources` are what
the scores, the style service and the candidate rows say, which is up to the
environment. `pc`, `hand` and `seen` are where each loop is, the wallet it handles
and the row as it loaded it; `held` are the rows that the session of the poll keeps,
`view` those that the style audit loaded. `auto` is a history variable: monitors
that a promotion inserted and nobody touched since.

| Action | Code |
|---|---|
| `ScoreSaved`, `StyleChanges`, `CandidateAudited` | scores, styles and candidate rows (external to this module) |
| `ListSources`, `AddSource`, `SourceStored` | `CopySourceService.reconcile` at the beginning of a poll |
| `BeginPolling`, `EndPolling` | `list_all` by `MonitorWorker.run_once`, whose session keeps the rows |
| `ScoreUpdated`, `JudgedHasty`, `JudgedPatient` | `handle_score_updated` or `promote_address`, and `_has_holder_style` |
| `FindEnabled`, `FindDisabled`, `FindNone`, `PromotionEnables` | `_promote`: the monitor exists, or is enabled again |
| `CapacityReached`, `RoomFound`, `LoadMonitor`, `Promoted` | `_promote`: the count, `MonitorService.add` and its commit |
| `InsertCollides`, `CycleFails` | another session has inserted the row; any other exception |
| `AddMonitor`, `SetEnabled` | the API |
| `AuditStyles`, `AuditMonitor` | `app/audit_trader_styles.py` |

`TraderPromotionCollector.reconcile` has no caller but the tests and is left out.

### DexDiscovery

A chain is the sequence of the swaps of a program; a cursor is the number of its
transaction. `rows` are the tokens, wallets and trades by their unique keys, `scores`
the trades from which the snapshot of a wallet was computed. A session (the
discovery, and a peer that stands for the poll and the WebSocket) goes through the
plan of its transaction: token, wallet, trade, score; each item is read in one step
and written in another, so that the two can interleave anywhere.

| Action | Code |
|---|---|
| `Read`, `RowIsThere`, `InsertRow` | `get_by_...` and `create` in the token, wallet and trade services |
| `SaveScore`, `Publish` | `ScoreCollector.handle_wallet_updated` and its upsert; `TradeScored` |
| `PeerBegins`, `PeerFails` | another session handles a transaction of a monitored wallet |
| `BeginCycle`, `EndCycle` | `discovery_loop`: a session per cycle |
| `ListPages` | the pages of `scan_program`, down to the cursor or the end of the window |
| `Fetch`, `FetchMissing`, `FinishScan` | `get_transaction` oldest first; no details; the cursor is saved |
| `ScanFails`, `SessionRefuses` | the `except` of the loop over the programs; the session needs a rollback |
| `NewTransaction`, `Crash` | the chain, the process (external) |

The score of a token is computed and saved like that of a wallet and left out.

### Notifications

`settled` and `notified` are the orders and their `notification_sent`; `marker` is the
heartbeat row `paper-copy-report:<date>`, `alerts` the keys of the stored signals,
`created` whether the portfolio has a row. `job[w][k]` is the message of kind `k` that
worker `w` is sending: what it is about, the next recipient and whether all went
well. `seen` and `copies` are what arrived at the recipients.

| Action | Code |
|---|---|
| `Tell` | `TelegramNotifier.send_text`: all attempts for one recipient; a lost answer may hide a message that arrived |
| `EnsurePortfolio`, `StartTold` | `initialize_paper_copy`: the row is committed first |
| `BeginSummary`, `SummaryTold` | `paper_copy_summary_loop`: `list_unsent`, then `mark_notifications_sent` |
| `BeginReport`, `ReportTold` | `paper_copy_report_loop` and its marker |
| `CreateAlphaSignal`, `SignalTold` | `create_alpha_signal` (ON CONFLICT DO NOTHING), `AlphaSignalGenerated` |
| `Breaks`, `Crash`, `Lead`, `Deposed`, `Settle`, `Tick` | exceptions, processes, leadership, orders, the date |

A score alert is a stored row that nobody sends: `AlertGenerated` has no handler. It,
its acknowledgement by the API, and the read-only status messages are left out, and
so is a summary of no orders, which changes nothing.

### The calculators

A history is a sequence of trades in the order they were stored; `Ordered` is the
`ORDER BY timestamp, id` of the queries. `Listed` lists a set in an order: the n-th
member is the one that has n - 1 of the set before it; `Kept` are the rows of a WHERE,
in the order they had.

| Operators | Code |
|---|---|
| `WalletMetrics`, `TokenMetrics`, `CreatorMetrics` | the aggregates of `AnalyticsRepository` |
| `HolderAggregate`, `RunningQuantity`, `UnmatchedSells`, `Quantity`, `ListTokenHolders`, `HolderSummary` | running sums of doubles by a window function, and what is read off them |
| `Double`, `Add` | an amount as the database stores it, and a sum of two doubles |
| `Buy`, `Sell`, `Replay`, `Position`, `WalletPositions` | `PositionCalculator`, `get_wallet_positions` |
| `RollingTrades`, `RollingTokens`, `RollingSwitches`, `Cycles`, `Style`, `Reason` | `TraderStyleService.evaluate_trades` |
| `WalletScore`, `CopyScore`, `TokenScore`, `EarlyTokenScore` | the calculators; `ScoreWallet`, `ScoreToken`, `ScoreEarlyToken` are `ScoringService` |

Amounts are added up in two ways. `PositionCalculator` takes `Decimal(str(x))`, which
gives back the decimal that was stored, so it counts exactly, in the smallest unit of
a token. The holder query (analytics_repository.py:351, 395-400) and the cycles of the
style filter (trader_style_service.py:81) add doubles. `Doubles` says as little of them
as the proofs need: numbers are counted in fine units, `Unit` of which make the smallest
unit of a token, and `Rounded` is any function that moves a number up to `Largest` by no
more than `Error`. Sums are added in the order of time, each rounded; the total over the
holders in `HolderSummary` is not. With amounts of 0.1, 0.2 and -0.3 the database keeps
5.5e-17 and lists a holder whose position the decimals close: the properties compare what
both find up to the roundings, and claim nothing exact. `Dust` is the 1e-12 at which the
style filter takes a position for closed.

Ratios, costs, profits and scores are exact fractions in lowest terms. The grades of
wallets and tokens are taken from the score before it is rounded, the mode of copying
from the score rounded to hundredths (`ToHundredths`). That an emptied position is given
a cost of zero is no step here: in exact arithmetic it is zero already.

## Runs

| Run | Instance | Shows |
|---|---|---|
| `papercopy_core` | 2 wallets, 1 token, one slot, 2 swaps of 4 or 8, prices 1 and 2, one fault | type, session, books, limits, final orders, refinement |
| `papercopy_liveness` | 1 wallet, 2 swaps, one fault, fairness | orders settle and exits are followed, unless reconciliation collides with itself |
| `papercopy_collision` | 2 wallets, 3 swaps, fairness | **violated**: a colliding reconciliation order stops the executor |
| `leader_election` | 2 replicas, 2 tasks, three faults, fairness | exclusion unless a session was lost; a stale leader notices; somebody leads in the end |
| `ingestion_catch_up` | 1 copied wallet, 4 transactions, 3 pages of 1, one fault, fairness | what a checkpoint may pass, which backlogs are skipped, order, and every transaction is settled unless its details were empty |
| `ingestion_isolation` | 2 wallets, no fault | **violated**: a race with the WebSocket ends the poll |
| `audit_history` | 1 candidate, 4 transactions, pages of 2, cap of 3, two faults | types, the cap, completeness, checkpoints |
| `audit_queue` | 2 top traders, one that may fail for ever, one attempt per cycle, fairness | the other gets its turns and is audited to the end, unless a copy grade goes on failing |
| `promotion` | 3 wallets, one a copy source, 2 loops, a maximum of 1, one change for the worse, one fault, fairness | the overrun of the maximum; sources, and worthy wallets, end up monitored |
| `discovery` | 2 programs, 2 wallets, 2 transactions, a window of 1, one fault, fairness | what is sampled is published and scored, through failures and a second session |
| `notifications` | 2 workers, 2 recipients, 2 orders, 1 key, 2 attempts, one fault, fairness | marked means told; told by one job; every order is told in the end |
| `calculations` | histories of 4 or 5 trades | positions, holders, style and grades against reference definitions, with sums that are rounded |

Bounds. `MaxBalance` bounds what a source may hold, `MaxFaults` the failed cycles
and crashes; the number of swaps is the number of signatures; the clock stops when
no order and no trade could tell. An allocation of 4 with cash of 8 lets a
portfolio run out of cash; amounts 4 and 8 give a partial and a whole exit; prices
1 and 2 give a profit and, after a buy at 2, a stop loss; two attempts give a
retry; a maximum age of 1 gives a buy that expires in the queue. Two swaps are a
buy and its sell, or the buys of two sources for one slot; `papercopy_collision` has
three. The quantities that only size a trade have no other role, so larger numbers
add no new order of events.

Two replicas suffice for exclusion, which speaks of two; two tasks give the order
in which they are cancelled. Three faults are a session lost, a call failed on the
way back, and a stop or crash on top. `MaxHeight = MaxPages + 1` with pages of one
gives a backlog that fits, with more than one transaction in it, and one that does
not. A fault of ingestion is a failed call, a crash, a repeated page token or a page
with gaps, any of its transactions: one page suffices for the newest, the checkpoint,
and one in between to be missing.

For the audit, a cap of 3 with pages of 2 cuts the last page, and 4 transactions go
beyond it; two faults hit the same page twice or two pages. `Flaky` is the set of
candidates whose calls may fail without a bound, which is what starvation needs;
there one transaction is enough, since the order of turns does not depend on the
length of a history.

Three wallets and a maximum of 1 let two loops promote past it at once; a second
change would repeat the first. A score that gets better is not counted, so that it
may come and go. For the discovery, two programs share the session that one of them
breaks, and a window of 1 with two transactions loses the older one; two faults
were checked once, too, and gave nothing new. Two recipients tell "one has it" from
"all have it", a summary of one order out of two makes the listing matter (the limit
is 500 in the code), two attempts (three in the code) give a repeated copy; one kind
of message at a time is enough (`MaxKinds`), since two kinds share no row.

`calculations` varies in each history the data one property looks at (its aspect):
two tokens, three times and two amounts for the style; two wallets for the holders;
prices that give profits, losses and unpriced trades for the books and the grades.
Holders are listed in pages of one, so that two wallets already fill two pages.
The toy of floating point (`ToyRounded`) is exact from -10 to 10 and rounds to multiples
of three beyond. `Unit` is 19, so amounts of 1 and 2 are stored as 18 and 39, and 2 bought and sold 1 by 1
leave 3; an `Error` of 1 with a `Dust` of 8 is what four trades can
leave, and `Largest`, 400, is beyond what they add up to.
The limits are scaled down to what four or five trades can reach: `FullTrades` 4 for
50, `FullTokens` 2 for 10, windows of one unit. Four trades have a buy, a partial sale, a
sale beyond what is held, and a second cycle.

Symmetry is used in `papercopy_core` only, where signatures are interchangeable and
no liveness is checked.

Fairness. The executor loop polls for ever and catches every exception, so
`Executor` is weakly fair; the clock and the reconciliation interval go on, so
`Tick` and `ReconcileTimer` are too. The main loop of a replica always comes round
(`MainLoop`), a process that ended is restarted by its supervisor (`Restart`), and the server detects dead clients
(`Reap`). The poller runs for ever (`Poll`); nobody owes a push, so the WebSocket
has no fairness. The audit loop comes round for ever and catches what a cycle
raises (`Walk \/ Page`), and time passes (`RetryDue`). A promotion that began and
the steps of a poll go on; the end of a poll is strongly fair, because promotions in
it come between again and again but are finitely many in one poll. When scores are
updated is up to nobody: `WorthyAreMonitored` has it as a premise. The discovery
loop goes on (`Cycle`); the chain, its peer and its failures do not have to. Some
worker becomes the leader (`LeaderElection` shows it), and each loop of the
notifications goes on. Nothing obliges a source
to trade, a delivery to arrive, or a price to be favourable. Faults are bounded: an executor that fails
for ever makes no promise.

## What the runs found

* `OrdersSettle`. `_reduce_position` hashes what was tracked and what the chain
  says into the signature of its order. When the same two values come back, the
  insert violates `uq_paper_copy_order_source_trade`; `reconcile` raises before
  `last_reconciliation_at` is set, so every later cycle runs into it again and
  `execute_next` is never reached. `OrdersSettleUnlessCollision` shows this is the
  only way an order waits for ever.
* `PollVisitsEveryWallet`. The poller and the WebSocket look for a trade in two
  sessions. When both miss it, the later insert fails, the shared session of the
  poll is unusable, `mark_error` raises, and the remaining wallets are not scanned.
  `EveryTransactionSettles` shows that a later poll makes up for it.

Some passing properties carry a premise, or say less, because the code does less than
its documents say:

* `ExclusiveUnlessLost`. Only the main loop calls `verify`, once per poll. Between
  the loss of the session and that call the other tasks begin new cycles while
  another replica leads. docs/INGESTION.md:40 says that a stale process cannot
  continue ingesting. `StaleLeaderNotices` shows that it does stop in the end.
* `OnlyGapsAreMissed` and `EveryTransactionSettles`. docs/INGESTION.md:23-26 says that a poll
  processes the new batch down to the checkpoint, and that an incomplete catch-up never
  advances the checkpoint. It does, in two ways. A catch-up that runs out of pages
  sets the checkpoint to the newest transaction, so what it did not read is never
  handled (`skipped`; a test of the worker wants that); `OnlyLongBacklogsAreSkipped`
  shows when: the backlog fills all the pages it may read, or a page had gaps. And a transaction
  whose details came back empty is left out of its page, and lost to the poll once the
  checkpoint has passed it (`leftOut`). When the newest has no details, the checkpoint is
  set to an older one, and may even move back; then the next poll asks again.
* `SampledIsHandled` and `PublishedIsScored` do not say that the programs of one cycle are
  independent. docs/TRADER_DISCOVERY.md:29 says that failures are isolated per program,
  but the programs share a session: when a statement of one fails, the session needs a
  rollback that nobody issues, and the rest of the cycle is refused (`SessionRefuses`). It is
  the session of the next cycle that makes up for it.
* `StyleIsByDefinition` and `GradesNeedEvidence` say whom the style filter finds eligible,
  not whom a signal goes out for. docs/ALPHA_SIGNALS.md:18-20 and CHANGELOG.md:55-57
  want no rapid round trips of a wallet that signals;
  `AlphaSignalCollector._signal_eligible_style` lets a wallet pass whose only reason against
  it is `rapid_round_trip`. `Notifications` leaves open who may signal.
* `OthersGoOnUnlessObstinate`. A top trader whose audit is unfinished and whose last
  scores are of a copy grade is sorted before everybody. While its retry is not due,
  the `break` ends the cycle; when it is due, the one attempt of the cycle is for it.
  As long as its calls fail, nobody else is audited, although
  docs/TRADER_DISCOVERY.md says the local funnel continues. `AuditsFinish` shows that
  nothing else starves a candidate there.

The models also contain behaviour worth a look that no run reports.
The style filter takes a position for closed at 1e-12, whatever its size: that is less than one
rounding of large amounts (some 4e-9 at 3e7), so a sale of all of such a position may
leave its cycle open; the premise `Tolerated` of `StyleIsByDefinition` excludes it. The same
residue lists a wallet among the holders of a token of which it has nothing left.
A promotion that finds a disabled monitor enables it before the maximum is looked at
(trader_promotion_collector.py:63-65), so that enabled monitors may pass it by any number:
`OverrunBounded` counts those that promotions inserted.
Reconciliation follows a partial exit from the balances, and when its sell trade
arrives afterwards it is copied against the reduced position and sells more of it.
The keys of pending orders are read before the balances are awaited, so a trade
queued in between does not defer its position. In the audit, `history_total` grows
before the scores are read; when that fails, the row gets the new total with the
old token, and the page is read and counted again: an audit may end as capped with
less history than the cap. `CompleteIsWhole` therefore leaves capped audits out.
Only the last wallet of an audit cycle is promoted (`Promote`). Two source wallets in
one transaction and token share the key of their orders, so one of them is not copied.
The monitors of the copy sources are enabled again at each poll, also those that an
operator disabled; and a promotion within a poll takes a monitor for enabled that was
disabled since the poll began, and leaves it disabled (`FindEnabled`).
A recipient who can never be reached keeps a summary from being marked, so the oldest
orders are sent again and again and, from 500 on, later ones never: `OrdersAreTold`
holds because failures are bounded. A crash between the commit of a signal and its
message loses the message, since deduplication keeps the trade from another one.
A wallet that two sessions handle may have a score that misses the later trade:
`PublishedIsScored` therefore speaks of wallets that only the discovery handles.

## Proofs

`PaperCopyProofs` proves, for every value of the constants allowed by
`PaperCopyAssumption`:

* `TypeCorrect`: `Spec => []TypeOK`. TypeOK is inductive. The arithmetic lemmas
  (`ShareWithin`, `SellQuantityWithin`, `ReleasedWithin`, `BuyValueWithin`) say
  that a share of a position is at most the position, so cash and cost stay
  natural numbers; one lemma per helper types the row it returns.
* `SessionIsCurrent`: `Spec => []SessionCurrent`, inductive together with TypeOK.
* `SettledOrdersAreFinal` (`Spec => SettledOrdersStay`) and `PortfolioImplementsLedger`
  (`Spec => ImplementsLedger`). `StepEffect` sums up what every action does to orders
  and money; each of its cases is a step of the ledger or a stutter.
* `LimitsHold`: `Spec => []PositionsWithinLimits`. The limits are checked before a quote
  is awaited and the buy is filled after it, so the invariant `LimitsInv` adds to the
  types and the session that the lock on the portfolio keeps the queue out while an
  order is in hand, and that a pass of the reconciliation visits a position once.
* `BooksAlwaysBalance`: `Spec => []BooksBalance`, for any number of positions. `BooksInv`
  adds to `LimitsInv` that cash and what is invested add up (`CashBalance`), and that
  `invested` is the sum of the cost bases. `MoneyMoves` says each step changes cash, invested
  and realized together, and needs SessionCurrent to replace the loaded cash by the table's. A
  step writes one row, or flushes rows whose cost the session did not change; the
  lemmas on sums say that the sum then moves by the difference of that row.

`LeaderElectionProofs` proves `LeaderTypeCorrect` and `LeadersExcludeEachOther`
for any number of replicas, tasks and faults. `ExclusiveUnlessLost` says nothing of
a replica alone; the inductive `HoldsUnlessLost` says that a replica which believes
to lead, or acts, holds the lock unless it lost its session since it was granted
one. Two that act would both hold it. `LeaderAssumption` only says that the two
special holders are no replicas.

`MonitorIngestionProofs` proves `IngestionTypeCorrect`, `OnlyGapsAreEverMissed`,
`ShortBacklogsAreHandled` and `PollKeepsOrder` for any set of wallets, page size, number of
pages, history, gaps and faults. A checkpoint must not pass what nothing excuses, so
`IngestionInv` says what the poller knows while it works: everything up to the newest
transaction seen is in the batch, settled, or a gap of this scan or of one whose gaps were
passed (`BatchInv`, `Excused`); how far down a scan has come follows from the pages it has read, so that one
that was given up without gaps has read them all above the checkpoint (`ScanInv`); the
WebSocket only holds transactions that exist (`PushInv`).

`CandidateAuditProofs` proves `AuditsAreWhole`, `CheckpointsAreKept` and `AuditsAreBounded`
for any candidates, page size, cap, history and faults. A row only says where its next
page begins, so `AuditInv` adds what that means: everything between the checkpoint and
the start of the audit was handled (`Above`), and a page is only begun below the
cap, so that it has at least one transaction to ask for (`PageBelowCap`). For the
first two, the types without the bounds are enough (`Shape`). `AuditsAreBounded` is
`TypeOK` itself: the cap holds because a page never asks for more than is left of it,
and `tried` lists each candidate that has a row once, because an attempt takes the
candidate out of the list before it appends it (`Beat`).

`DexDiscoveryProofs` proves `DiscoveryTypeCorrect`, `NothingSampledIsMissed` and
`PublishedTradesAreScored` for any programs, wallets, transactions, window and faults.
Neither of the two properties is inductive. `DexInv`
adds, for each session, how far it has come with the transaction in hand (`InHand`)
and that the trades it has read of a wallet only it handles are all that were
published (`Collected`); for the scan, that what was sampled up to its newest
transaction is handled, in hand or still to come (`ScanOK`); and that what is
left of a cycle is the rest of the configured programs (`CycleOK`). Reads and writes of the other
session come in between anywhere.

`CalculationsProofs` is about histories of any length. What the runs check of short
ones is proved of every history whose trades move tokens (`MovesTokens`: a change of
zero is no trade in `TokenDetector`); nothing is assumed of the order in which they
were stored, of times, prices or of the number of wallets and tokens:

* `HoldersOfAnyHistory`: what the running sums of doubles find held by a wallet after n
  trades is within (4n + 1) `Error` of what the position calculator finds trade by trade in
  decimals; pages of one list whoever holds more than that, each once, and nobody
  before one who holds more than the roundings of both explain. The premise `InRange` says
  that what was traded is not beyond `Largest`.
* `StyleOfAnyHistory`: the windows and the reasons of the style filter are those by
  definition, for all limits; the cycles are, too, of histories that are `Tolerated`: what
  rounding can leave of a closed position is dust, and what is held is not.
* `BooksOfAnyHistory`: the books of a history of one token balance. This is the
  property about one position, whose trades are of one token.
* `GradesOfAnyHistory`: whatever was traded, a wallet without a profit is neither graded
  A nor copied automatically, one trade earns a token no more than an E, and no score
  leaves 0 to 100.
* `HoldingsAlwaysAgree`, `StyleAlwaysByDefinition`, `PositionsAlwaysKeepBooks` and
  `GradesAlwaysNeedEvidence` are the invariants of the run. Inductive is `Stored`: a history
  is a sequence of trades that move tokens and, where its books are looked at, of one
  token.

They rest on six parts:

* *The roundings.* Of doubles only `DoublesAssumption` is used. `SumsStayNear`: a running sum
  of n doubles is within 2n `Error` of the sum of the decimals. `RunningSumsFindHoldings`: the
  quantity held is the running total less its minimum so far, but for two roundings a
  trade and sum. The cycles are found by an exact pass, which the pass in doubles shadows
  trade by trade: both are open or both are closed, and as long as they are open, near each other
  (`Shadows`, `OneMoreTradeIsNear`, `DustIsNothing`, `AlwaysShadows`).
* *The passes.* `BusiestWindowIsFound`: after each trade, the left end of the window is
  the first trade in reach of it. `TokensAtOnceAreFound`: of the windows that trades at
  one time begin, the first holds all tokens of the others. `CyclesAreByDefinition`:
  while a cycle is open, the exact pass holds the net of all trades since its first. These
  are proved of ordered histories.
* *The order.* `Listed` is a bijection for every strict total order (`Orders`, `ListedLists`)
  and there is no other listing (`OneListing`), so that the trades of one token in
  order are those that are kept of the ordered trades (`RowsOfRows`), and `Ordered` sorts
  (`OrderedIs`). The definitions speak of the history as stored: a window is the same
  set of trades in either order (`WindowsInOrder`).
* *The sums.* A sum does not depend on the order in which it is taken (`SumAdds`,
  `SumPermuted`), so the totals of the ordered trades are those of the stored ones
  (`TotalsOfOrdered`).
* *The fractions.* `Is` says that a fraction stands for A / D, whatever its lowest terms
  are; `FracIs`, `PlusIs`, `TimesIs`, ... compute with it. `InBalance` brings all of a
  position to one denominator, and says what a purchase or a sale keeps: how priced and held,
  cost and spent, profit and proceeds compare. `BuyBalances` and `SellBalances` are its
  two steps; the best price a sale can bring is one of those paid (`BestExists`).
* *The scores.* `UpTo(a, u, E)` says that a lies from 0 to u / E; parts that are bounded over
  one E add up (`SumUpTo`, `PartsAddUp`), so that no score need be computed. A position of
  any history is `Sound`: it has a priced part exactly when it has a known cost, and
  realized nothing without a basis. Hence a wallet without a profit has a position that was
  realized and did not win, or none that was realized (`WinsAre`): with n of them, at most
  (n - 1) / n of the 10 points for wins and none of the 20 for returns leave
  80 - 10 / n, where an A takes 80 (`WalletScoreIs`). With `FullTrades` and `FullTokens`
  any positive numbers, the bound does not depend on how active a wallet is. After one trade the
  only holder has all (`HoldersOfOne`), which leaves a token 26.65 points of the 35 for a D,
  and 23.5 of the 30 of the early score (`ScoresOfOne`).

Induction takes a form the provers can do. A theorem about every step of a
recursion is reduced to the smallest set, or the least number, at which it would fail
(`SubsetInduction`, `LeastNumber`), from the library's theorem that strict inclusion
among finite sets is well-founded. The functions behind the folds are shown to exist
in the same way (`RecursionExists`). `CalculationsProofs` and `PaperCopyProofs` have
these lemmas each, since neither extends the other.

`TraderPromotionProofs` proves `PromotionTypeCorrect` and `PromotionsBounded` for any
number of wallets and loops and any maximum. `OverrunBounded` is not inductive: a loop
that found room inserts later. `RoomLeft` counts those loops along with the monitors
they will insert: a loop that finds room sees at most `Max - 1` monitors, and at most
the other loops are still promoting; a disabled monitor only makes room.

`NotificationsProofs` proves `OutboxTypeCorrect`, `SummariesAreTold`, `ReportsAreTold`
and `SignalsAreToldByOneJob` for any number of workers, recipients, orders, keys,
attempts and faults. A row is marked at the end of a message and the mail arrives
before it, so `OutboxInv` says what a message underway stands for: one that went well
so far has reached everybody it passed (`JobsReached`), a summary is about settled
orders (`JobsAbout`), and what is told once is told by one message, after its row
was stored, and has not reached the recipients ahead of it (`OneJob`).

Only model-checked is liveness, since fairness and ENABLED are out of the prover's reach:
`OrdersSettleUnlessCollision`, `ExitsAreFollowed`, `StaleLeaderNotices`, `SomebodyLeads`,
`EveryTransactionSettles`, `AuditsFinish`, `OthersGoOnUnlessObstinate`,
`SourcesAreMonitored`, `WorthyAreMonitored`, `SampledIsHandled` and `OrdersAreTold`.

The violated properties are shown by TLC's counterexamples.

## Not modelled, and the plan

`PROJECT.json` lists every component with its status. Left out:

* the API, the frontend and the layout of messages and reports: they keep no state
  that another component reads;
* which wallets may signal (`_signal_eligible_style`), and the market filter of signals;
* the retries, the back-off and the rotation of keys of `HeliusClient._request`: a call that
  fails after them is one failure of the models;
* the clients of market data and the parsers of transactions: formats, whose answers
  the models take as inputs;
* the funding graph: its inserts have the races that `DexDiscovery` has, its queries
  have no writers to race with;
* the scripts that recompute scores, remove assets and fill in scores at the start:
  each stores, in batches, what `Scores` computes;
* the window of 10,000 remembered signatures, and transactions whose details the
  provider returns empty in an audit.

Modules to come:

1. `PaperCopyClose`: the CLI that closes every position beside the worker, and two
   executors after a lost lock.
2. `TraderQueue`: how the discovery of top traders ranks and queues candidates.
