----------------------------- MODULE PaperCopy -----------------------------
(***************************************************************************)
(* Paper copy trading: the wallets we follow trade on chain, each of their *)
(* swaps that reaches the worker is queued as an order of the paper        *)
(* portfolio, and one executor loop per worker reconciles the positions    *)
(* with the chain and executes the orders that are due.                    *)
(*                                                                         *)
(*   app/services/paper_copy_service.py                 queue and execute  *)
(*   app/services/paper_copy_reconciliation_service.py  align with chain   *)
(*   app/repositories/paper_copy_repository.py          rows and locks     *)
(*   app/worker.py  paper_copy_execution_loop           the executor       *)
(*                                                                         *)
(* The executor works on ORM objects.  viewCash and viewPos are what its   *)
(* session has loaded, dirty the positions it has changed and not yet      *)
(* committed; a commit writes absolute values.  Between two awaits a step  *)
(* is atomic; at an await the chain, the clock and the queue move on.      *)
(*                                                                         *)
(* Money, token quantities and time are whole numbers (the code has        *)
(* floats), there is one portfolio and it stays enabled, as in the worker. *)
(***************************************************************************)
EXTENDS Integers, FiniteSets, Functions

CONSTANTS
  Wallet, Token,       \* the source wallets and the tokens they trade
  Sig,                 \* transaction signatures of the source wallets
  NoWallet, NoKey,     \* not a wallet, not an order key
  Amounts,             \* amounts a source wallet trades
  Holdings,            \* what a source wallet may hold before we follow it
  Prices,              \* prices the market quotes
  StartedAt,           \* portfolio.started_at
  InitialCash,         \* portfolio.initial_balance_usd
  Allocation,          \* portfolio.allocation_usd
  MaxOpenPositions,    \* portfolio.max_open_positions
  ReactionDelay,       \* portfolio.reaction_delay_seconds
  RetryDelay,          \* quote_retry_seconds
  MaxAttempts,         \* quote_max_attempts
  MaxAge,              \* maximum_trade_age_seconds
  MaxBuys,             \* maximum_buys_per_position
  AllowAveragingDown,  \* allow_averaging_down
  MinSourceValue,      \* minimum_source_value_usd
  SourceCapPct,        \* maximum_source_exposure_pct
  TokenCapPct,         \* maximum_token_exposure_pct
  StopLossPct, BreakEvenPct, TrailingPct, TrailingDrawdownPct,
  MaxBalance,          \* bound: the most a source wallet may hold of a token
  MaxFaults            \* bound: failed cycles and crashes in one behaviour

Positive == Nat \ {0}

ASSUME PaperCopyAssumption ==
  /\ NoWallet \notin Wallet
  /\ IsFiniteSet(Wallet) /\ IsFiniteSet(Token)
  /\ Amounts \subseteq Positive /\ Prices \subseteq Positive
  /\ Holdings \subseteq Nat
  /\ InitialCash \in Nat /\ Allocation \in Positive
  /\ MaxOpenPositions \in Positive /\ MaxBuys \in Positive
  /\ MaxAttempts \in Positive
  /\ StartedAt \in Nat /\ ReactionDelay \in Nat /\ RetryDelay \in Nat
  /\ MaxAge \in Nat /\ MinSourceValue \in Nat
  /\ SourceCapPct \in Nat /\ TokenCapPct \in Nat
  /\ StopLossPct \in 0 .. 100 /\ TrailingDrawdownPct \in 0 .. 100
  /\ BreakEvenPct \in Nat /\ TrailingPct \in Nat
  /\ AllowAveragingDown \in BOOLEAN
  /\ MaxBalance \in Nat /\ MaxFaults \in Nat

(* One position per (portfolio, source wallet, token). *)
Position == Wallet \X Token

VARIABLES
  now,          \* the clock
  balance,      \* wallet -> token -> what the wallet holds on chain
  trades,       \* the swaps of the source wallets, as the chain recorded them
  orders,       \* table paper_copy_orders: (signature, token) -> row
  cash,         \* portfolio.cash_balance_usd
  positions,    \* table paper_copy_positions
  invested,     \* history: cost basis bought and not released yet
  realized,     \* history: sum of the orders' realized_pnl_usd
  pc,           \* where the executor is: idle, align, risk, execute, order
  reconcileDue, \* last_reconciliation_at is None or too long ago
  viewCash, viewPos, dirty,    \* the executor's session
  todo,         \* positions the running reconcile has still to visit
  fetched, seen,               \* the wallet whose balances it has in hand
  cur,          \* the position at risk check or the key of the order in hand
  faults        \* failed cycles and crashes so far

envVars  == <<now, balance, trades>>
dbVars   == <<orders, cash, positions, invested, realized>>
viewVars == <<viewCash, viewPos, dirty>>
passVars == <<todo, fetched, seen>>
vars == <<now, balance, trades, orders, cash, positions, invested, realized,
          pc, reconcileDue, viewCash, viewPos, dirty, todo, fetched, seen,
          cur, faults>>

-----------------------------------------------------------------------------
(* Rows *)

(* A position row.  A closed position keeps no data that a later step reads,
   so it is the zero row, which also stands for a row that does not exist. *)
NoPosition == [src |-> 0, qty |-> 0, cost |-> 0,
               first |-> 0, last |-> 0, buys |-> 0, peak |-> 0]

Open(pos) == pos.qty > 0
OpenSet(ps) == {p \in Position : Open(ps[p])}

CostOf(ps, S) == SumFunctionOnSet([p \in Position |-> ps[p].cost], S)
OfWallet(w) == {p \in Position : p[1] = w}
OfToken(t) == {p \in Position : p[2] = t}

(* repository.equity: cash and the positions at their last price. *)
Equity(money, ps) ==
  money + SumFunctionOnSet([p \in Position |-> ps[p].qty * ps[p].last],
                           Position)

NewOrder(p, side, amount, at, after, status) ==
  [wallet |-> p[1], token |-> p[2], side |-> side, amount |-> amount,
   at |-> at, after |-> after, attempts |-> 0, status |-> status,
   id |-> Cardinality(DOMAIN orders) + 1]

Insert(k, order) ==
  [x \in DOMAIN orders \cup {k} |-> IF x = k THEN order ELSE orders[x]]

Keys(status) == {k \in DOMAIN orders : orders[k].status = status}
PositionOf(k) == <<orders[k].wallet, orders[k].token>>

-----------------------------------------------------------------------------
(* What a trade does to a position *)

MinOf(a, b) == IF a <= b THEN a ELSE b
MaxOf(a, b) == IF a >= b THEN a ELSE b

(* A buy of amount by the source is copied for this many dollars. *)
BuyValue(amount, price, money) == MinOf(MinOf(Allocation, amount * price), money)

(* A first buy, and one into a closed row, start the position afresh. *)
Bought(pos, amount, value, price) ==
  LET base == IF Open(pos) THEN pos ELSE [NoPosition EXCEPT !.first = price]
  IN [base EXCEPT !.src = @ + amount, !.qty = @ + value \div price,
                  !.cost = @ + value, !.last = price, !.buys = @ + 1]

(* The copy sells the fraction of its quantity that the source sold of what
   we think it holds, at most all of it. *)
SellQuantity(pos, amount) ==
  IF amount >= pos.src THEN pos.qty ELSE (pos.qty * amount) \div pos.src

Released(pos, q) == IF q >= pos.qty THEN pos.cost
                    ELSE (pos.cost * q) \div pos.qty

SoldCostKept(pos, q, price) ==    \* slip: the cost basis is not reduced
  IF q >= pos.qty THEN NoPosition
  ELSE [pos EXCEPT !.qty = @ - q, !.src = @ - (@ * q) \div pos.qty,
                   !.last = price]

Sold(pos, q, price) ==
  IF q >= pos.qty THEN NoPosition
  ELSE [pos EXCEPT !.qty = @ - q, !.src = @ - (@ * q) \div pos.qty,
                   !.cost = @ - Released(pos, q), !.last = price]

(* _refresh_risk: the return on the position if it were sold whole. *)
Repriced(pos, price) ==
  [pos EXCEPT !.last = price,
              !.peak = MaxOf(@, (pos.qty * price * 100) \div pos.cost - 100)]

ExitSignal(pos) ==
  LET value == pos.qty * pos.last
  IN \/ value * 100 <= pos.cost * (100 - StopLossPct)
     \/ /\ pos.peak >= TrailingPct
        /\ value * 10000 <= pos.cost * (100 + pos.peak)
                                     * (100 - TrailingDrawdownPct)
     \/ pos.peak >= BreakEvenPct /\ value <= pos.cost

-----------------------------------------------------------------------------
(* The session of the executor *)

EmptyView == [p \in Position |-> NoPosition]
NoBalances == [t \in Token |-> 0]

Load == viewCash' = cash /\ viewPos' = positions /\ dirty' = {}

CloseSession ==
  /\ viewCash' = 0 /\ viewPos' = EmptyView /\ dirty' = {}
  /\ todo' = {} /\ fetched' = NoWallet /\ seen' = NoBalances
  /\ cur' = NoKey

(* A flush writes the columns that changed: of a dirty row, the tracked
   source quantity, the last price and the peak. *)
Flushed ==
  [p \in Position |->
     IF p \in dirty
     THEN [positions[p] EXCEPT !.src = viewPos[p].src, !.last = viewPos[p].last,
                               !.peak = viewPos[p].peak]
     ELSE positions[p]]

(* _fill_sell up to its commit: q of position p at price. *)
CommitSaleGross(p, q, price) ==   \* slip: the proceeds are booked as profit
  LET released == Released(viewPos[p], q)
  IN /\ positions' = [Flushed EXCEPT ![p] = Sold(viewPos[p], q, price)]
     /\ cash' = viewCash + q * price
     /\ invested' = invested - released
     /\ realized' = realized + q * price

CommitSale(p, q, price) ==
  LET released == Released(viewPos[p], q)
  IN /\ positions' = [Flushed EXCEPT ![p] = Sold(viewPos[p], q, price)]
     /\ cash' = viewCash + q * price
     /\ invested' = invested - released
     /\ realized' = realized + q * price - released

(* expire_on_commit=False: the session goes on with the objects it has. *)
KeepStaleCash(p, q, price) ==     \* slip: the portfolio object is not updated
  /\ viewPos' = [viewPos EXCEPT ![p] = Sold(viewPos[p], q, price)]
  /\ viewCash' = viewCash
  /\ dirty' = {}

KeepViewAfterSale(p, q, price) ==
  /\ viewPos' = [viewPos EXCEPT ![p] = Sold(viewPos[p], q, price)]
  /\ viewCash' = viewCash + q * price
  /\ dirty' = {}

-----------------------------------------------------------------------------
(* The source wallets, the clock and the collectors *)

Init ==
  /\ now = StartedAt
  /\ balance \in [Wallet -> [Token -> Holdings]]
  /\ trades = {}
  /\ orders = [k \in {} |-> NoKey]
  /\ cash = InitialCash
  /\ positions = EmptyView
  /\ invested = 0 /\ realized = 0
  /\ pc = "idle" /\ reconcileDue = TRUE
  /\ viewCash = 0 /\ viewPos = EmptyView /\ dirty = {}
  /\ todo = {} /\ fetched = NoWallet /\ seen = NoBalances
  /\ cur = NoKey /\ faults = 0

(* A followed wallet swaps on chain.  A transfer, or a swap without a SOL
   leg, is a trade that is never delivered to EnqueueTrade. *)
SourceTrade(sig, w, t, side, amount) ==
  /\ \A tr \in trades : tr.sig # sig
  /\ IF side = "buy" THEN balance[w][t] + amount <= MaxBalance
                     ELSE amount <= balance[w][t]
  /\ LET left == IF side = "buy" THEN balance[w][t] + amount
                                 ELSE balance[w][t] - amount
     IN /\ balance' = [balance EXCEPT ![w][t] = left]
        /\ trades' = trades \cup {[sig |-> sig, wallet |-> w, token |-> t,
                                   side |-> side, amount |-> amount,
                                   at |-> now, left |-> left]}
  /\ UNCHANGED <<now, dbVars, pc, reconcileDue, viewVars, passVars, cur,
                 faults>>

(* TradeScored handled by PaperCopyCollector, for a trade in whatever order
   and however often it is delivered (WebSocket, polling, catch-up).  The
   insert needs a share lock on the portfolio row, which the executor holds
   exclusively from next_due to its commit (pc = "order"). *)
Fresh(tr) == now - tr.at <= MaxAge

NotPending(k) == k \notin Keys("pending")    \* slip: settled orders forgotten
NotQueued(k) == k \notin DOMAIN orders       \* uq_paper_copy_order_source_trade

EnqueueTrade(tr) ==
  LET k == <<tr.sig, tr.token>>
  IN /\ pc # "order"
     /\ tr.at >= StartedAt
     /\ tr.side = "buy" => Fresh(tr)
     /\ NotQueued(k)
     /\ orders' = Insert(k, NewOrder(<<tr.wallet, tr.token>>, tr.side,
                               tr.amount, tr.at, now + ReactionDelay,
                               "pending"))
     /\ UNCHANGED <<envVars, cash, positions, invested, realized, pc,
                    reconcileDue, viewVars, passVars, cur, faults>>

(* The clock runs while somebody could tell: an order is not due yet, or a
   buy, queued or not, is not too old yet. *)
TimeMatters ==
  \/ \E k \in Keys("pending") :
        \/ orders[k].after > now
        \/ orders[k].side = "buy" /\ Fresh(orders[k])
  \/ \E tr \in trades : /\ tr.side = "buy" /\ Fresh(tr)
                        /\ NotQueued(<<tr.sig, tr.token>>)

Tick ==
  /\ TimeMatters
  /\ now' = now + 1
  /\ UNCHANGED <<balance, trades, dbVars, pc, reconcileDue, viewVars,
                 passVars, cur, faults>>

-----------------------------------------------------------------------------
(* Reconciliation *)

(* The interval has passed since the last reconciliation. *)
ReconcileTimer ==
  /\ pc = "idle" /\ ~reconcileDue
  /\ reconcileDue' = TRUE
  /\ UNCHANGED <<envVars, dbVars, pc, viewVars, passVars, cur, faults>>

HasPending(p) == \E k \in Keys("pending") : PositionOf(k) = p

(* list_open_positions and pending_position_keys, read once. *)
StartReconcile ==
  /\ pc = "idle" /\ reconcileDue
  /\ pc' = "align"
  /\ Load
  /\ todo' = {p \in OpenSet(positions) : ~HasPending(p)}
  /\ UNCHANGED <<envVars, dbVars, reconcileDue, fetched, seen, cur, faults>>

(* get_token_balances: what the chain says now; it may change right after. *)
FetchBalances(w) ==
  /\ pc = "align"
  /\ todo \cap OfWallet(w) # {}
  /\ \A p \in todo : p[1] # fetched
  /\ fetched' = w /\ seen' = balance[w]
  /\ UNCHANGED <<envVars, dbVars, pc, reconcileDue, viewVars, todo, cur,
                 faults>>

Aligning(p) == pc = "align" /\ p \in todo /\ p[1] = fetched
Tracked(p) == viewPos[p].src
ActualIfListed(p) ==    \* slip: a token the wallet no longer lists is skipped
  IF seen[p[2]] = 0 THEN Tracked(p) ELSE seen[p[2]]
Actual(p) == seen[p[2]]

TrackSourceUncommitted(p) ==    \* slip: an increase alone is no reason to commit
  /\ Aligning(p) /\ Actual(p) >= Tracked(p)
  /\ viewPos' = [viewPos EXCEPT ![p].src = Actual(p)]
  /\ pc' = "risk" /\ cur' = p
  /\ UNCHANGED <<envVars, dbVars, reconcileDue, viewCash, dirty, passVars, faults>>

(* The source holds at least what we track: follow it, without a buy.  The
   change waits in the session for a later commit. *)
TrackSource(p) ==
  /\ Aligning(p) /\ Actual(p) >= Tracked(p)
  /\ viewPos' = [viewPos EXCEPT ![p].src = Actual(p)]
  /\ dirty' = IF Actual(p) > Tracked(p) THEN dirty \cup {p} ELSE dirty
  /\ pc' = "risk" /\ cur' = p
  /\ UNCHANGED <<envVars, dbVars, reconcileDue, viewCash, passVars, faults>>

(* _reduce_position: the signature of the order is a hash of what was
   tracked and what the chain says. *)
Shrunk(p) == Aligning(p) /\ Actual(p) < Tracked(p)
ReduceKey(p) == << <<p[1], p[2], Tracked(p), Actual(p)>>, p[2] >>
ReduceOrder(p, status) ==
  NewOrder(p, "sell", Tracked(p) - Actual(p), now, now, status)

(* No decimals or no route: the order stays in the queue. *)
ReducePending(p) ==
  /\ Shrunk(p) /\ ReduceKey(p) \notin DOMAIN orders
  /\ orders' = Insert(ReduceKey(p), ReduceOrder(p, "pending"))
  /\ positions' = Flushed
  /\ dirty' = {}
  /\ pc' = "risk" /\ cur' = p
  /\ UNCHANGED <<envVars, cash, invested, realized, reconcileDue, viewCash,
                 viewPos, passVars, faults>>

ReduceFilled(p, price) ==
  LET q == SellQuantity(viewPos[p], Tracked(p) - Actual(p))
  IN /\ Shrunk(p) /\ ReduceKey(p) \notin DOMAIN orders
     /\ q > 0
     /\ orders' = Insert(ReduceKey(p), ReduceOrder(p, "filled"))
     /\ CommitSale(p, q, price)
     /\ KeepViewAfterSale(p, q, price)
     /\ pc' = "risk" /\ cur' = p
     /\ UNCHANGED <<envVars, reconcileDue, passVars, faults>>

(* The flush violates uq_paper_copy_order_source_trade: IntegrityError ends
   the cycle, and last_reconciliation_at is not set. *)
ReduceCollides(p) ==
  /\ Shrunk(p) /\ ReduceKey(p) \in DOMAIN orders
  /\ pc' = "idle"
  /\ CloseSession
  /\ UNCHANGED <<envVars, dbVars, reconcileDue, faults>>

(* _refresh_risk on the position just aligned. *)
RiskDone == pc' = "align" /\ todo' = todo \ {cur} /\ cur' = NoKey

RiskUnpriced ==    \* closed by the reduction, or no route to price it
  /\ pc = "risk"
  /\ RiskDone
  /\ UNCHANGED <<envVars, dbVars, reconcileDue, viewVars, fetched, seen,
                 faults>>

CanReprice(p) == pc = "risk" /\ p = cur /\ Open(viewPos[p]) /\ viewPos[p].cost > 0

RiskHold(p, price) ==
  /\ CanReprice(p) /\ ~ExitSignal(Repriced(viewPos[p], price))
  /\ viewPos' = [viewPos EXCEPT ![p] = Repriced(viewPos[p], price)]
  /\ dirty' = dirty \cup {p}
  /\ RiskDone
  /\ UNCHANGED <<envVars, dbVars, reconcileDue, viewCash, fetched, seen,
                 faults>>

(* _exit_order: its signature hashes the time, so it is always a new one. *)
ExitKey(p) == << <<p[1], p[2], Cardinality(DOMAIN orders)>>, p[2] >>

RiskExit(p, price) ==
  /\ CanReprice(p) /\ ExitSignal(Repriced(viewPos[p], price))
  /\ ExitKey(p) \notin DOMAIN orders
  /\ orders' = Insert(ExitKey(p), NewOrder(p, "sell", viewPos[p].src, now,
                                           now, "filled"))
  /\ CommitSale(p, viewPos[p].qty, price)
  /\ KeepViewAfterSale(p, viewPos[p].qty, price)
  /\ RiskDone
  /\ UNCHANGED <<envVars, reconcileDue, fetched, seen, faults>>

(* Commits what is still in the session; execute_next follows in the same
   cycle. *)
FinishReconcile ==
  /\ pc = "align" /\ todo = {}
  /\ positions' = Flushed
  /\ reconcileDue' = FALSE
  /\ pc' = "execute"
  /\ CloseSession
  /\ UNCHANGED <<envVars, orders, cash, invested, realized, faults>>

-----------------------------------------------------------------------------
(* execute_next *)

Executing == pc = "execute" \/ (pc = "idle" /\ ~reconcileDue)

DueOfAnyStatus == {k \in DOMAIN orders : orders[k].after <= now}    \* slip
Due == {k \in Keys("pending") : orders[k].after <= now}

(* ORDER BY execute_after, id LIMIT 1 *)
IsNextDue(k) ==
  /\ k \in Due
  /\ \A j \in Due :
        \/ orders[k].after < orders[j].after
        \/ orders[k].after = orders[j].after /\ orders[k].id <= orders[j].id

Expired(o) == o.side = "buy" /\ now - o.at > MaxAge

(* _buy_precondition, and the position a sell needs. *)
LimitPassed(n) == n > MaxOpenPositions    \* slip: one too many
LimitReached(n) == n >= MaxOpenPositions
Blocked(o, pos) ==
  IF o.side = "sell" THEN ~Open(pos)
  ELSE \/ ~Open(pos) /\ LimitReached(Cardinality(OpenSet(positions)))
       \/ cash < Allocation
       \/ Open(pos) /\ pos.buys >= MaxBuys

NothingDue ==
  /\ pc = "execute" /\ Due = {}
  /\ pc' = "idle"
  /\ UNCHANGED <<envVars, dbVars, reconcileDue, viewVars, passVars, cur,
                 faults>>

SkipDue(k) ==
  /\ Executing /\ IsNextDue(k)
  /\ Expired(orders[k]) \/ Blocked(orders[k], positions[PositionOf(k)])
  /\ orders' = [orders EXCEPT ![k].status = "skipped"]
  /\ pc' = "idle"
  /\ UNCHANGED <<envVars, cash, positions, invested, realized, reconcileDue,
                 viewVars, passVars, cur, faults>>

(* The order and the portfolio are locked and loaded, and quotes awaited. *)
BeginOrder(k) ==
  /\ Executing /\ IsNextDue(k)
  /\ ~(Expired(orders[k]) \/ Blocked(orders[k], positions[PositionOf(k)]))
  /\ pc' = "order" /\ cur' = k
  /\ Load
  /\ UNCHANGED <<envVars, dbVars, reconcileDue, passVars, faults>>

InHand(k) == pc = "order" /\ k = cur

(* No quote, no decimals or no route (_market_quote, _buy_route, _sell_route):
   _defer. *)
DeferredUncounted(o) == [o EXCEPT !.after = now]    \* slip: attempts not counted
Deferred(o) ==
  IF o.attempts + 1 >= MaxAttempts
  THEN [o EXCEPT !.attempts = @ + 1, !.status = "skipped"]
  ELSE [o EXCEPT !.attempts = @ + 1, !.after = now + RetryDelay]

DeferOrder(k) ==
  /\ InHand(k)
  /\ orders' = [orders EXCEPT ![k] = Deferred(orders[k])]
  /\ pc' = "idle"
  /\ CloseSession
  /\ UNCHANGED <<envVars, cash, positions, invested, realized, reconcileDue,
                 faults>>

(* The market refuses a buy at this price: not enough liquidity, too much
   price impact (both external), averaging down, a source trade too small,
   or an exposure cap. *)
AveragesDown(pos, price) ==
  Open(pos) /\ ~AllowAveragingDown /\ price < pos.first

Overexposed(p, value) ==
  LET equity == Equity(viewCash, viewPos)
  IN \/ (CostOf(viewPos, OfWallet(p[1])) + value) * 100 > equity * SourceCapPct
     \/ (CostOf(viewPos, OfToken(p[2])) + value) * 100 > equity * TokenCapPct

BuyAllowed(o, p, price) ==
  /\ ~AveragesDown(viewPos[p], price)
  /\ o.amount * price >= MinSourceValue
  /\ ~Overexposed(p, BuyValue(o.amount, price, viewCash))

RejectBuy(k) ==
  /\ InHand(k) /\ orders[k].side = "buy"
  /\ orders' = [orders EXCEPT ![k].status = "skipped"]
  /\ pc' = "idle"
  /\ CloseSession
  /\ UNCHANGED <<envVars, cash, positions, invested, realized, reconcileDue,
                 faults>>

FillBuy(k, price) ==
  LET o == orders[k]
      p == PositionOf(k)
      value == BuyValue(o.amount, price, viewCash)
  IN /\ InHand(k) /\ o.side = "buy"
     /\ BuyAllowed(o, p, price)
     /\ value \div price > 0
     /\ orders' = [orders EXCEPT ![k].status = "filled"]
     /\ positions' = [positions EXCEPT ![p] =
                         Bought(viewPos[p], o.amount, value, price)]
     /\ cash' = viewCash - value
     /\ invested' = invested + value
     /\ realized' = realized
     /\ pc' = "idle"
     /\ CloseSession
     /\ UNCHANGED <<envVars, reconcileDue, faults>>

FillSell(k, price) ==
  LET p == PositionOf(k)
      q == SellQuantity(viewPos[p], orders[k].amount)
  IN /\ InHand(k) /\ orders[k].side = "sell"
     /\ q > 0
     /\ orders' = [orders EXCEPT ![k].status = "filled"]
     /\ CommitSale(p, q, price)
     /\ pc' = "idle"
     /\ CloseSession
     /\ UNCHANGED <<envVars, reconcileDue, faults>>

-----------------------------------------------------------------------------
(* Faults *)

(* An exception inside the cycle (balances, database): rolled back, logged,
   tried again at the next poll. *)
CycleFails ==
  /\ pc \in {"align", "risk", "order"}
  /\ faults < MaxFaults
  /\ faults' = faults + 1
  /\ pc' = "idle"
  /\ CloseSession
  /\ UNCHANGED <<envVars, dbVars, reconcileDue>>

(* The process stops and starts again: last_reconciliation_at is None. *)
Crash ==
  /\ faults < MaxFaults
  /\ faults' = faults + 1
  /\ pc' = "idle" /\ reconcileDue' = TRUE
  /\ CloseSession
  /\ UNCHANGED <<envVars, dbVars>>

-----------------------------------------------------------------------------
Reconcile ==
  \/ StartReconcile
  \/ \E w \in Wallet : FetchBalances(w)
  \/ \E p \in todo : \/ TrackSource(p)
                     \/ ReducePending(p)
                     \/ \E price \in Prices : ReduceFilled(p, price)
                     \/ ReduceCollides(p)
  \/ RiskUnpriced
  \/ \E p \in todo, price \in Prices : RiskHold(p, price) \/ RiskExit(p, price)
  \/ FinishReconcile

ExecuteNext ==
  \/ NothingDue
  \/ \E k \in DOMAIN orders :
        \/ SkipDue(k) \/ BeginOrder(k) \/ DeferOrder(k) \/ RejectBuy(k)
        \/ \E price \in Prices : FillBuy(k, price) \/ FillSell(k, price)

Executor == Reconcile \/ ExecuteNext

Source ==
  \E sig \in Sig, w \in Wallet, t \in Token, side \in {"buy", "sell"},
     amount \in Amounts : SourceTrade(sig, w, t, side, amount)

Queue == \E tr \in trades : EnqueueTrade(tr)

Next == \/ Source \/ Queue \/ Tick \/ ReconcileTimer \/ Executor
        \/ CycleFails \/ Crash

Spec == Init /\ [][Next]_vars

(* The executor polls for ever and the clock runs; nothing obliges a source
   to trade or a delivery to happen. *)
Fairness == WF_vars(Executor) /\ WF_vars(Tick) /\ WF_vars(ReconcileTimer)
FairSpec == Spec /\ Fairness

-----------------------------------------------------------------------------
(* Properties *)

PositionRow == [src : Nat, qty : Nat, cost : Nat, first : Nat, last : Nat,
                buys : Nat, peak : Nat]
OrderRow == [wallet : Wallet, token : Token, side : {"buy", "sell"},
             amount : Nat, at : Nat, after : Nat, attempts : Nat,
             status : {"pending", "filled", "skipped"}, id : Nat]
TradeRow == [sig : Sig, wallet : Wallet, token : Token,
             side : {"buy", "sell"}, amount : Nat, at : Nat, left : Nat]
IsTable(f, S) == f = [k \in DOMAIN f |-> f[k]] /\ \A k \in DOMAIN f : f[k] \in S

(* Every variable has its type.  Cash, quantities and cost bases are natural
   numbers: the portfolio is never overdrawn and no sale releases more than
   is held, although a sale may be worked out from a row that was loaded
   several steps earlier. *)
TypeOK ==
  /\ now \in Nat
  /\ balance \in [Wallet -> [Token -> Nat]]
  /\ \A tr \in trades : tr \in TradeRow
  /\ IsTable(orders, OrderRow)
  /\ cash \in Nat
  /\ positions \in [Position -> PositionRow]
  /\ invested \in Int /\ realized \in Int
  /\ pc \in {"idle", "align", "risk", "execute", "order"}
  /\ reconcileDue \in BOOLEAN
  /\ viewCash \in Nat
  /\ viewPos \in [Position -> PositionRow]
  /\ dirty \subseteq Position
  /\ todo \subseteq Position
  /\ fetched \in Wallet \cup {NoWallet}
  /\ seen \in [Token -> Nat]
  /\ pc = "risk" => cur \in todo
  /\ pc = "order" => cur \in Keys("pending")
  /\ faults \in Nat

(* What the executor works with is what the database holds: the cash, and
   every figure of a position that money depends on.  Only what the pass has
   changed itself (the tracked source quantity, the last price and the peak)
   may be ahead of the table. *)
SessionCurrent ==
  pc \in {"align", "risk", "order"} =>
    /\ viewCash = cash
    /\ \A p \in Position :
         /\ viewPos[p].qty = positions[p].qty
         /\ viewPos[p].cost = positions[p].cost
         /\ viewPos[p].first = positions[p].first
         /\ viewPos[p].buys = positions[p].buys
         /\ p \notin dirty => viewPos[p] = positions[p]

(* The books balance: cash plus the cost basis of every position is the
   initial balance plus what the filled orders realized. *)
BooksBalance ==
  /\ invested = CostOf(positions, Position)
  /\ cash + invested = InitialCash + realized

(* A position is closed and empty, or open with a cost, a tracked source
   quantity and a legal number of buys, each of at most one allocation; and
   there are never more open than the portfolio allows. *)
RowWithinLimits(pos) ==
  \/ pos = NoPosition
  \/ /\ pos.qty > 0 /\ pos.cost > 0 /\ pos.src > 0
     /\ pos.buys \in 1 .. MaxBuys
     /\ pos.cost <= pos.buys * Allocation

PositionsWithinLimits ==
  /\ \A p \in Position : RowWithinLimits(positions[p])
  /\ Cardinality(OpenSet(positions)) <= MaxOpenPositions

(* An order is never lost, never changes hands and, once filled or skipped,
   never changes again, whatever is retried, crashes or is delivered twice. *)
OrderIdentity(o) == <<o.wallet, o.token, o.side, o.amount, o.at, o.id>>
OrdersAreFinal ==
  \A k \in DOMAIN orders :
    /\ k \in DOMAIN orders'
    /\ OrderIdentity(orders'[k]) = OrderIdentity(orders[k])
    /\ orders[k].status # "pending" => orders'[k] = orders[k]
SettledOrdersStay == [][OrdersAreFinal]_vars

(* The portfolio is an implementation of the abstract ledger. *)
Ledger == INSTANCE PaperLedger
            WITH book <- [k \in DOMAIN orders |-> orders[k].status]
ImplementsLedger == Ledger!LedgerSpec

(* "Durable" (paper_copy_service.py:18): a queued order is settled in the
   end, by a fill or for a reason, however often quotes fail. *)
PendingTrade(sig, t) == <<sig, t>> \in Keys("pending")
OrdersSettle ==
  \A sig \in Sig, t \in Token : PendingTrade(sig, t) ~> ~PendingTrade(sig, t)

(* The same, if reconciliation stops colliding with its own earlier orders. *)
OrdersSettleUnlessCollision ==
  <>[][~\E p \in todo : ReduceCollides(p)]_vars => OrdersSettle

(* A source that has left a token for good is followed: our position in it
   is closed in the end, even one opened by a buy that was deferred until
   after the source's sell had been skipped, provided reconciliation stops
   colliding with its own earlier orders. *)
Abandoned(w, t) == Open(positions[<<w, t>>]) /\ balance[w][t] = 0
ExitsAreFollowed ==
  <>[][~\E p \in todo : ReduceCollides(p)]_vars =>
    \A w \in Wallet, t \in Token : ~<>[]Abandoned(w, t)

(* What we think a source holds catches up when it has bought more and no delivery
   told us: a pass that fails may lose the increases it had not yet committed, and a
   later one must make them again (reconcile). *)
Behind(w, t) == Open(positions[<<w, t>>]) /\ positions[<<w, t>>].src < balance[w][t]
IncreasesAreTracked ==
  <>[][~\E p \in todo : ReduceCollides(p)]_vars =>
    \A w \in Wallet, t \in Token : ~<>[]Behind(w, t)

=============================================================================
