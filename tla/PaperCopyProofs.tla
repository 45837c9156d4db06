-------------------------- MODULE PaperCopyProofs --------------------------
(***************************************************************************)
(* What PaperCopy guarantees for every set of wallets and tokens, every    *)
(* price and every configuration of the strategy: its types, the session   *)
(* read after a lock, the balance of cash, the orders and the ledger they  *)
(* implement, the limits of the portfolio, and its books.                  *)
(***************************************************************************)
EXTENDS PaperCopy, FiniteSetTheorems, TLAPS

-----------------------------------------------------------------------------
(* The arithmetic of a sale *)

(* A share q/n of a, rounded down, is between nothing and all of a. *)
LEMMA ShareWithin ==
  ASSUME NEW a \in Nat, NEW q \in Nat, NEW n \in Positive, q <= n
  PROVE  (a * q) \div n \in 0 .. a
<1>1. a * q \in Nat /\ a * n \in Nat
  BY DEF Positive
<1>2. a * q <= a * n
  BY DEF Positive
<1>3. (a * q) \div n \in Nat
  BY <1>1 DEF Positive
<1>4. n * ((a * q) \div n) <= a * q
  BY <1>1 DEF Positive
<1>5. n * ((a * q) \div n) <= n * a
  BY <1>1, <1>2, <1>3, <1>4 DEF Positive
<1>6. (a * q) \div n <= a
  BY <1>3, <1>5 DEF Positive
<1> QED BY <1>3, <1>6

(* A proper share leaves something. *)
LEMMA ProperShare ==
  ASSUME NEW a \in Positive, NEW q \in Nat, NEW n \in Positive, q < n
  PROVE  (a * q) \div n < a
<1>1. a * q \in Nat /\ a * q < a * n
  BY DEF Positive
<1>2. (a * q) \div n \in Nat
  BY <1>1 DEF Positive
<1>3. n * ((a * q) \div n) <= a * q
  BY <1>1 DEF Positive
<1>4. n * ((a * q) \div n) < n * a
  BY <1>1, <1>2, <1>3 DEF Positive
<1> QED BY <1>2, <1>4 DEF Positive

-----------------------------------------------------------------------------
(* Rows stay rows *)

LEMMA SellQuantityWithin ==
  ASSUME NEW pos \in PositionRow, NEW amount \in Nat
  PROVE  SellQuantity(pos, amount) \in 0 .. pos.qty
<1>1. CASE amount >= pos.src
  BY <1>1 DEF SellQuantity, PositionRow
<1>2. CASE ~(amount >= pos.src)
  <2>1. pos.src \in Positive /\ amount <= pos.src /\ pos.qty \in Nat
    BY <1>2 DEF PositionRow, Positive
  <2>2. (pos.qty * amount) \div pos.src \in 0 .. pos.qty
    BY <2>1, ShareWithin
  <2> QED BY <1>2, <2>2 DEF SellQuantity
<1> QED BY <1>1, <1>2

LEMMA ReleasedWithin ==
  ASSUME NEW pos \in PositionRow, NEW q \in Nat
  PROVE  Released(pos, q) \in 0 .. pos.cost
<1>1. CASE q >= pos.qty
  BY <1>1 DEF Released, PositionRow
<1>2. CASE ~(q >= pos.qty)
  <2>1. pos.qty \in Positive /\ q <= pos.qty /\ pos.cost \in Nat
    BY <1>2 DEF PositionRow, Positive
  <2>2. (pos.cost * q) \div pos.qty \in 0 .. pos.cost
    BY <2>1, ShareWithin
  <2> QED BY <1>2, <2>2 DEF Released
<1> QED BY <1>1, <1>2

LEMMA SoldRow ==
  ASSUME NEW pos \in PositionRow, NEW q \in Nat, NEW price \in Nat
  PROVE  Sold(pos, q, price) \in PositionRow
<1>1. CASE q >= pos.qty
  BY <1>1 DEF Sold, NoPosition, PositionRow
<1>2. CASE ~(q >= pos.qty)
  <2>1. pos.qty \in Positive /\ q <= pos.qty /\ pos.src \in Nat /\ pos.cost \in Nat
    BY <1>2 DEF PositionRow, Positive
  <2>2. (pos.src * q) \div pos.qty \in 0 .. pos.src
    BY <2>1, ShareWithin
  <2>3. Released(pos, q) \in 0 .. pos.cost
    BY ReleasedWithin
  <2>4. /\ pos.qty - q \in Nat
        /\ pos.src - ((pos.src * q) \div pos.qty) \in Nat
        /\ pos.cost - Released(pos, q) \in Nat
    BY <2>1, <2>2, <2>3 DEF Positive
  <2>5. Sold(pos, q, price) =
          [pos EXCEPT !.qty = pos.qty - q,
                      !.src = pos.src - ((pos.src * q) \div pos.qty),
                      !.cost = pos.cost - Released(pos, q), !.last = price]
    BY <1>2 DEF Sold, PositionRow
  <2> QED BY <2>4, <2>5 DEF PositionRow
<1> QED BY <1>1, <1>2

LEMMA BuyValueWithin ==
  ASSUME NEW amount \in Nat, NEW price \in Nat, NEW money \in Nat
  PROVE  /\ BuyValue(amount, price, money) \in 0 .. money
         /\ BuyValue(amount, price, money) <= Allocation
<1>1. amount * price \in Nat /\ Allocation \in Nat
  BY PaperCopyAssumption DEF Positive
<1> QED BY <1>1 DEF BuyValue, MinOf

LEMMA BoughtRow ==
  ASSUME NEW pos \in PositionRow, NEW amount \in Nat, NEW value \in Nat,
         NEW price \in Positive
  PROVE  Bought(pos, amount, value, price) \in PositionRow
<1> DEFINE base == IF Open(pos) THEN pos ELSE [NoPosition EXCEPT !.first = price]
           quantity == value \div price
<1>1. quantity \in Nat
  BY DEF Positive
<1>2. base \in PositionRow
  BY DEF NoPosition, PositionRow, Positive
<1> HIDE DEF quantity, base
<1>3. Bought(pos, amount, value, price) =
        [base EXCEPT !.src = base.src + amount, !.qty = base.qty + quantity,
                     !.cost = base.cost + value, !.last = price,
                     !.buys = base.buys + 1]
  BY <1>2 DEF Bought, PositionRow, base, quantity
<1>4. /\ base.src + amount \in Nat /\ base.qty + quantity \in Nat
      /\ base.cost + value \in Nat /\ price \in Nat /\ base.buys + 1 \in Nat
  BY <1>1, <1>2 DEF PositionRow, Positive
<1> QED BY <1>2, <1>3, <1>4 DEF PositionRow

LEMMA RepricedRow ==
  ASSUME NEW pos \in PositionRow, NEW price \in Positive, pos.cost > 0
  PROVE  /\ Repriced(pos, price) \in PositionRow
         /\ \A field \in {"src", "qty", "cost", "buys"} :
              Repriced(pos, price)[field] = pos[field]
<1> DEFINE roi == (pos.qty * price * 100) \div pos.cost - 100
<1>1. pos.qty * price * 100 \in Nat
  BY DEF PositionRow, Positive
<1>2. roi \in Int
  BY <1>1 DEF PositionRow
<1> HIDE DEF roi
<1>3. MaxOf(pos.peak, roi) \in Nat
  BY <1>2 DEF MaxOf, PositionRow
<1>4. Repriced(pos, price) = [pos EXCEPT !.last = price, !.peak = MaxOf(pos.peak, roi)]
  BY DEF Repriced, PositionRow, roi
<1> QED BY <1>3, <1>4 DEF PositionRow, Positive

LEMMA FlushedRows ==
  ASSUME positions \in [Position -> PositionRow],
         viewPos \in [Position -> PositionRow]
  PROVE  Flushed \in [Position -> PositionRow]
BY DEF Flushed, PositionRow

-----------------------------------------------------------------------------
(* Tables stay tables *)

LEMMA InsertTable ==
  ASSUME IsTable(orders, OrderRow), NEW k, NEW o \in OrderRow
  PROVE  /\ IsTable(Insert(k, o), OrderRow)
         /\ DOMAIN Insert(k, o) = DOMAIN orders \cup {k}
         /\ Insert(k, o)[k] = o
         /\ \A j \in DOMAIN orders \ {k} : Insert(k, o)[j] = orders[j]
BY DEF Insert, IsTable

LEMMA UpdateTable ==
  ASSUME IsTable(orders, OrderRow), NEW k \in DOMAIN orders, NEW o \in OrderRow
  PROVE  /\ IsTable([orders EXCEPT ![k] = o], OrderRow)
         /\ DOMAIN [orders EXCEPT ![k] = o] = DOMAIN orders
         /\ [orders EXCEPT ![k] = o][k] = o
         /\ \A j \in DOMAIN orders \ {k} : [orders EXCEPT ![k] = o][j] = orders[j]
BY DEF IsTable

-----------------------------------------------------------------------------
(* Type correctness *)

TypeInv == TypeOK /\ IsFiniteSet(DOMAIN orders)

LEMMA NewOrderRow ==
  ASSUME TypeInv, NEW p \in Position, NEW side \in {"buy", "sell"},
         NEW amount \in Nat, NEW at \in Nat, NEW after \in Nat,
         NEW status \in {"pending", "filled", "skipped"}
  PROVE  /\ NewOrder(p, side, amount, at, after, status) \in OrderRow
         /\ NewOrder(p, side, amount, at, after, status).status = status
         /\ NewOrder(p, side, amount, at, after, status).wallet = p[1]
         /\ NewOrder(p, side, amount, at, after, status).token = p[2]
<1>1. Cardinality(DOMAIN orders) \in Nat
  BY FS_CardinalityType DEF TypeInv
<1> QED BY <1>1 DEF NewOrder, OrderRow, Position

LEMMA PositionOfOrder ==
  ASSUME TypeInv, NEW k \in DOMAIN orders
  PROVE  orders[k] \in OrderRow /\ PositionOf(k) \in Position
BY DEF TypeInv, TypeOK, IsTable, OrderRow, PositionOf, Position

LEMMA EmptyViewType ==
  EmptyView \in [Position -> PositionRow] /\ NoBalances \in [Token -> Nat]
BY DEF EmptyView, NoBalances, NoPosition, PositionRow

(* Statuses change, the rest of the row does not. *)
LEMMA StatusUpdate ==
  ASSUME TypeInv, NEW k \in DOMAIN orders,
         NEW status \in {"pending", "filled", "skipped"}
  PROVE  /\ IsTable([orders EXCEPT ![k].status = status], OrderRow)
         /\ DOMAIN [orders EXCEPT ![k].status = status] = DOMAIN orders
<1>1. [orders[k] EXCEPT !.status = status] \in OrderRow
  BY PositionOfOrder DEF OrderRow
<1>2. [orders EXCEPT ![k].status = status] =
        [orders EXCEPT ![k] = [orders[k] EXCEPT !.status = status]]
  OBVIOUS
<1> QED BY <1>1, <1>2, UpdateTable DEF TypeInv, TypeOK

(* What _fill_sell writes has the right types. *)
SaleTypes(p, q, price) ==
  /\ positions' \in [Position -> PositionRow]
  /\ cash' \in Nat /\ invested' \in Int /\ realized' \in Int

LEMMA SaleTypesHold ==
  ASSUME TypeInv, NEW p \in Position, NEW q \in Nat, NEW price \in Prices,
         CommitSale(p, q, price)
  PROVE  /\ SaleTypes(p, q, price)
         /\ viewCash + q * price \in Nat
         /\ [viewPos EXCEPT ![p] = Sold(viewPos[p], q, price)]
              \in [Position -> PositionRow]
<1>1. viewPos[p] \in PositionRow /\ price \in Nat /\ q * price \in Nat
  BY PaperCopyAssumption DEF TypeInv, TypeOK, Positive
<1>2. Sold(viewPos[p], q, price) \in PositionRow
  BY <1>1, SoldRow
<1>3. Released(viewPos[p], q) \in Nat
  BY <1>1, ReleasedWithin DEF PositionRow
<1>4. Flushed \in [Position -> PositionRow]
  BY FlushedRows DEF TypeInv, TypeOK
<1> DEFINE row == Sold(viewPos[p], q, price)
           released == Released(viewPos[p], q)
           proceeds == q * price
<1>5. /\ positions' = [Flushed EXCEPT ![p] = row]
      /\ cash' = viewCash + proceeds
      /\ invested' = invested - released
      /\ realized' = realized + proceeds - released
  BY DEF CommitSale
<1>6. /\ viewCash \in Nat /\ invested \in Int /\ realized \in Int
      /\ viewPos \in [Position -> PositionRow]
  BY DEF TypeInv, TypeOK
<1>7. row \in PositionRow /\ released \in Nat /\ proceeds \in Nat
  BY <1>1, <1>2, <1>3
<1> HIDE DEF row, released, proceeds
<1>8. SaleTypes(p, q, price)
  BY <1>4, <1>5, <1>6, <1>7 DEF SaleTypes
<1>9. viewCash + proceeds \in Nat /\ [viewPos EXCEPT ![p] = row] \in [Position -> PositionRow]
  BY <1>6, <1>7
<1> QED BY <1>8, <1>9 DEF row, proceeds

LEMMA TypeInit == Init => TypeInv
<1> SUFFICES ASSUME Init PROVE TypeInv
  OBVIOUS
<1>1. IsTable(orders, OrderRow) /\ DOMAIN orders = {} /\ IsFiniteSet(DOMAIN orders)
  BY FS_EmptySet DEF Init, IsTable
<1>2. \A tr \in trades : tr \in TradeRow
  BY DEF Init
<1>3. now \in Nat /\ cash \in Nat /\ balance \in [Wallet -> [Token -> Nat]]
  BY PaperCopyAssumption DEF Init
<1>4. /\ positions \in [Position -> PositionRow]
      /\ viewPos \in [Position -> PositionRow] /\ seen \in [Token -> Nat]
  BY EmptyViewType DEF Init
<1> QED BY <1>1, <1>2, <1>3, <1>4 DEF Init, TypeInv, TypeOK

LEMMA TypeStep == TypeInv /\ [Next]_vars => TypeInv'
<1> SUFFICES ASSUME TypeInv, [Next]_vars PROVE TypeInv'
  OBVIOUS
<1> USE DEF TypeInv, TypeOK, envVars, dbVars, viewVars, passVars
<1>1. ASSUME NEW sig \in Sig, NEW w \in Wallet, NEW t \in Token,
             NEW side \in {"buy", "sell"}, NEW amount \in Amounts,
             SourceTrade(sig, w, t, side, amount)
      PROVE  TypeInv'
  <2> DEFINE left == IF side = "buy" THEN balance[w][t] + amount
                                     ELSE balance[w][t] - amount
  <2>1. left \in Nat /\ amount \in Nat
    BY <1>1, PaperCopyAssumption DEF SourceTrade, Positive
  <2>2. balance' = [balance EXCEPT ![w][t] = left]
    BY <1>1 DEF SourceTrade
  <2>3. trades' = trades \cup {[sig |-> sig, wallet |-> w, token |-> t,
                                side |-> side, amount |-> amount, at |-> now,
                                left |-> left]}
    BY <1>1 DEF SourceTrade
  <2> HIDE DEF left
  <2>4. balance' \in [Wallet -> [Token -> Nat]]
    BY <2>1, <2>2
  <2>5. \A tr \in trades' : tr \in TradeRow
    BY <2>1, <2>3 DEF TradeRow
  <2> QED BY <1>1, <2>4, <2>5 DEF SourceTrade, Keys
<1>2. ASSUME NEW tr \in trades, EnqueueTrade(tr) PROVE TypeInv'
  <2> DEFINE k == <<tr.sig, tr.token>>
             o == NewOrder(<<tr.wallet, tr.token>>, tr.side, tr.amount,
                           tr.at, now + ReactionDelay, "pending")
  <2>1. tr \in TradeRow /\ now + ReactionDelay \in Nat
    BY PaperCopyAssumption
  <2>2. o \in OrderRow
    BY <2>1, NewOrderRow DEF TradeRow, Position
  <2>3. orders' = Insert(k, o)
    BY <1>2 DEF EnqueueTrade
  <2> HIDE DEF k, o
  <2>4. IsTable(orders', OrderRow) /\ DOMAIN orders' = DOMAIN orders \cup {k}
    BY <2>2, <2>3, InsertTable
  <2>5. IsFiniteSet(DOMAIN orders')
    BY <2>4, FS_AddElement
  <2> QED BY <1>2, <2>4, <2>5 DEF EnqueueTrade
<1>3. ASSUME Tick PROVE TypeInv'
  BY <1>3 DEF Tick, Keys
<1>4. ASSUME ReconcileTimer PROVE TypeInv'
  BY <1>4 DEF ReconcileTimer, Keys
<1>5. ASSUME StartReconcile PROVE TypeInv'
  BY <1>5 DEF StartReconcile, Load, OpenSet
<1>6. ASSUME NEW w \in Wallet, FetchBalances(w) PROVE TypeInv'
  BY <1>6 DEF FetchBalances
<1>7. ASSUME NEW p \in todo, TrackSource(p) PROVE TypeInv'
  <2>1. Actual(p) \in Nat /\ p \in Position
    BY <1>7 DEF TrackSource, Aligning, Actual, Position
  <2>2. viewPos' \in [Position -> PositionRow]
    BY <1>7, <2>1 DEF TrackSource, PositionRow
  <2> QED BY <1>7, <2>1, <2>2 DEF TrackSource, Aligning
<1>8. ASSUME NEW p \in todo, ReducePending(p) PROVE TypeInv'
  <2>1. /\ p \in Position /\ Actual(p) \in Nat /\ Tracked(p) \in Nat
        /\ Tracked(p) - Actual(p) \in Nat
    BY <1>8 DEF ReducePending, Shrunk, Actual, Tracked, Position, PositionRow
  <2>2. ReduceOrder(p, "pending") \in OrderRow
    BY <2>1, NewOrderRow DEF ReduceOrder
  <2>3. orders' = Insert(ReduceKey(p), ReduceOrder(p, "pending"))
    BY <1>8 DEF ReducePending
  <2>4. /\ IsTable(orders', OrderRow)
        /\ DOMAIN orders' = DOMAIN orders \cup {ReduceKey(p)}
    BY <2>2, <2>3, InsertTable
  <2>5. IsFiniteSet(DOMAIN orders')
    BY <2>4, FS_AddElement
  <2>6. positions' \in [Position -> PositionRow]
    BY <1>8, FlushedRows DEF ReducePending
  <2> QED BY <1>8, <2>4, <2>5, <2>6 DEF ReducePending
<1>9. ASSUME NEW p \in todo, NEW price \in Prices, ReduceFilled(p, price)
      PROVE  TypeInv'
  <2>1. /\ p \in Position /\ Actual(p) \in Nat /\ Tracked(p) \in Nat
        /\ Tracked(p) - Actual(p) \in Nat
    BY <1>9 DEF ReduceFilled, Shrunk, Actual, Tracked, Position, PositionRow
  <2>2. ReduceOrder(p, "filled") \in OrderRow
    BY <2>1, NewOrderRow DEF ReduceOrder
  <2>3. orders' = Insert(ReduceKey(p), ReduceOrder(p, "filled"))
    BY <1>9 DEF ReduceFilled
  <2>4. /\ IsTable(orders', OrderRow)
        /\ DOMAIN orders' = DOMAIN orders \cup {ReduceKey(p)}
    BY <2>2, <2>3, InsertTable
  <2>5. IsFiniteSet(DOMAIN orders')
    BY <2>4, FS_AddElement
  <2> DEFINE q == SellQuantity(viewPos[p], Tracked(p) - Actual(p))
  <2>6. q \in Nat
    BY <2>1, SellQuantityWithin
  <2>7. CommitSale(p, q, price) /\ KeepViewAfterSale(p, q, price)
    BY <1>9 DEF ReduceFilled
  <2> HIDE DEF q
  <2>8. SaleTypes(p, q, price) /\ viewPos' \in [Position -> PositionRow]
                               /\ viewCash' \in Nat /\ dirty' = {}
    BY <2>1, <2>6, <2>7, SaleTypesHold DEF KeepViewAfterSale
  <2> QED BY <1>9, <2>4, <2>5, <2>8 DEF ReduceFilled, SaleTypes
<1>10. ASSUME NEW p \in todo, ReduceCollides(p) PROVE TypeInv'
  BY <1>10, EmptyViewType DEF ReduceCollides, CloseSession
<1>11. ASSUME RiskUnpriced PROVE TypeInv'
  BY <1>11 DEF RiskUnpriced, RiskDone
<1>12. ASSUME NEW p \in todo, NEW price \in Prices, RiskHold(p, price)
       PROVE  TypeInv'
  <2>1. p \in Position /\ price \in Positive /\ viewPos[p].cost > 0
    BY <1>12, PaperCopyAssumption DEF RiskHold, CanReprice
  <2>2. Repriced(viewPos[p], price) \in PositionRow
    BY <2>1, RepricedRow
  <2> QED BY <1>12, <2>1, <2>2 DEF RiskHold, RiskDone
<1>13. ASSUME NEW p \in todo, NEW price \in Prices, RiskExit(p, price)
       PROVE  TypeInv'
  <2> DEFINE o == NewOrder(p, "sell", viewPos[p].src, now, now, "filled")
             q == viewPos[p].qty
  <2>1. p \in Position /\ q \in Nat /\ o \in OrderRow
    BY NewOrderRow DEF PositionRow
  <2>2. orders' = Insert(ExitKey(p), o)
    BY <1>13 DEF RiskExit
  <2>3. CommitSale(p, q, price) /\ KeepViewAfterSale(p, q, price)
    BY <1>13 DEF RiskExit
  <2> HIDE DEF o, q
  <2>4. /\ IsTable(orders', OrderRow)
        /\ DOMAIN orders' = DOMAIN orders \cup {ExitKey(p)}
    BY <2>1, <2>2, InsertTable
  <2>5. IsFiniteSet(DOMAIN orders')
    BY <2>4, FS_AddElement
  <2>6. SaleTypes(p, q, price) /\ viewPos' \in [Position -> PositionRow]
                               /\ viewCash' \in Nat /\ dirty' = {}
    BY <2>1, <2>3, SaleTypesHold DEF KeepViewAfterSale
  <2> QED BY <1>13, <2>4, <2>5, <2>6 DEF RiskExit, RiskDone, SaleTypes
<1>14. ASSUME FinishReconcile PROVE TypeInv'
  BY <1>14, EmptyViewType, FlushedRows DEF FinishReconcile, CloseSession
<1>15. ASSUME NothingDue PROVE TypeInv'
  BY <1>15 DEF NothingDue
<1>16. ASSUME NEW k \in DOMAIN orders, SkipDue(k) PROVE TypeInv'
  BY <1>16, StatusUpdate DEF SkipDue
<1>17. ASSUME NEW k \in DOMAIN orders, BeginOrder(k) PROVE TypeInv'
  BY <1>17 DEF BeginOrder, Load, IsNextDue, Due, Keys
<1>18. ASSUME NEW k \in DOMAIN orders, DeferOrder(k) PROVE TypeInv'
  <2>1. Deferred(orders[k]) \in OrderRow
    <3>1. orders[k] \in OrderRow /\ now + RetryDelay \in Nat
      BY PositionOfOrder, PaperCopyAssumption
    <3>2. orders[k].attempts + 1 \in Nat
      BY <3>1 DEF OrderRow
    <3>3. Deferred(orders[k]) =
            IF orders[k].attempts + 1 >= MaxAttempts
            THEN [orders[k] EXCEPT !.attempts = orders[k].attempts + 1,
                                   !.status = "skipped"]
            ELSE [orders[k] EXCEPT !.attempts = orders[k].attempts + 1,
                                   !.after = now + RetryDelay]
      BY <3>1 DEF Deferred, OrderRow
    <3> QED BY <3>1, <3>2, <3>3 DEF OrderRow
  <2>2. orders' = [orders EXCEPT ![k] = Deferred(orders[k])]
    BY <1>18 DEF DeferOrder
  <2>3. IsTable(orders', OrderRow) /\ DOMAIN orders' = DOMAIN orders
    BY <2>1, <2>2, UpdateTable
  <2> QED BY <1>18, <2>3, EmptyViewType DEF DeferOrder, CloseSession
<1>19. ASSUME NEW k \in DOMAIN orders, RejectBuy(k) PROVE TypeInv'
  BY <1>19, StatusUpdate, EmptyViewType DEF RejectBuy, CloseSession
<1>20. ASSUME NEW k \in DOMAIN orders, NEW price \in Prices, FillBuy(k, price)
       PROVE  TypeInv'
  <2> DEFINE o == orders[k]
             p == PositionOf(k)
             value == BuyValue(o.amount, price, viewCash)
  <2>1. p \in Position /\ o.amount \in Nat /\ price \in Positive
    BY PositionOfOrder, PaperCopyAssumption DEF OrderRow
  <2>2. value \in 0 .. viewCash
    BY <2>1, BuyValueWithin DEF Positive
  <2>3. /\ orders' = [orders EXCEPT ![k].status = "filled"]
        /\ positions' = [positions EXCEPT ![p] =
                           Bought(viewPos[p], o.amount, value, price)]
        /\ cash' = viewCash - value
        /\ invested' = invested + value
        /\ realized' = realized
    BY <1>20 DEF FillBuy
  <2>4. IsTable(orders', OrderRow) /\ DOMAIN orders' = DOMAIN orders
    BY <2>3, StatusUpdate
  <2> HIDE DEF o, p, value
  <2>5. Bought(viewPos[p], o.amount, value, price) \in PositionRow
    BY <2>1, <2>2, BoughtRow
  <2>6. /\ positions' \in [Position -> PositionRow] /\ cash' \in Nat
        /\ invested' \in Int /\ realized' \in Int
    <3>1. value \in Nat /\ viewCash - value \in Nat /\ invested + value \in Int
      BY <2>2
    <3> QED BY <2>1, <2>3, <2>5, <3>1
  <2> QED BY <1>20, <2>4, <2>6, EmptyViewType DEF FillBuy, CloseSession
<1>21. ASSUME NEW k \in DOMAIN orders, NEW price \in Prices, FillSell(k, price)
       PROVE  TypeInv'
  <2> DEFINE p == PositionOf(k)
             q == SellQuantity(viewPos[p], orders[k].amount)
  <2>1. p \in Position /\ q \in Nat
    BY PositionOfOrder, SellQuantityWithin DEF OrderRow
  <2>2. orders' = [orders EXCEPT ![k].status = "filled"] /\ CommitSale(p, q, price)
    BY <1>21 DEF FillSell
  <2>3. IsTable(orders', OrderRow) /\ DOMAIN orders' = DOMAIN orders
    BY <2>2, StatusUpdate
  <2> HIDE DEF p, q
  <2>4. SaleTypes(p, q, price)
    BY <2>1, <2>2, SaleTypesHold
  <2> QED BY <1>21, <2>3, <2>4, EmptyViewType DEF FillSell, CloseSession, SaleTypes
<1>22. ASSUME CycleFails PROVE TypeInv'
  BY <1>22, EmptyViewType DEF CycleFails, CloseSession
<1>23. ASSUME Crash PROVE TypeInv'
  BY <1>23, EmptyViewType DEF Crash, CloseSession
<1>24. ASSUME UNCHANGED vars PROVE TypeInv'
  BY <1>24 DEF vars, Keys
<1> QED
  BY <1>1, <1>2, <1>3, <1>4, <1>5, <1>6, <1>7, <1>8, <1>9, <1>10, <1>11, <1>12,
     <1>13, <1>14, <1>15, <1>16, <1>17, <1>18, <1>19, <1>20, <1>21, <1>22, <1>23,
     <1>24
  DEF Next, Source, Queue, Executor, Reconcile, ExecuteNext

(* Every variable keeps its type; in particular the cash balance, and every
   quantity, cost and tracked amount of a position, is never negative. *)
THEOREM TypeCorrect == Spec => []TypeOK
<1>1. Init => TypeInv
  BY TypeInit
<1>2. TypeInv /\ [Next]_vars => TypeInv'
  BY TypeStep
<1>3. TypeInv => TypeOK
  BY DEF TypeInv
<1> QED BY <1>1, <1>2, <1>3, PTL DEF Spec

-----------------------------------------------------------------------------
(* The session never works with stale money *)

SessionInv == TypeInv /\ SessionCurrent
InSession == pc \in {"align", "risk", "order"}

LEMMA SameRow ==
  ASSUME NEW a \in PositionRow, NEW b \in PositionRow,
         a.src = b.src, a.qty = b.qty, a.cost = b.cost, a.first = b.first,
         a.last = b.last, a.buys = b.buys, a.peak = b.peak
  PROVE  a = b
BY DEF PositionRow

(* What a flush leaves in the table is exactly what the session sees. *)
LEMMA FlushedIsView ==
  ASSUME SessionInv, InSession
  PROVE  Flushed = viewPos
<1>1. /\ positions \in [Position -> PositionRow]
      /\ viewPos \in [Position -> PositionRow]
      /\ Flushed \in [Position -> PositionRow]
  BY FlushedRows DEF SessionInv, TypeInv, TypeOK
<1>2. ASSUME NEW p \in Position PROVE Flushed[p] = viewPos[p]
  <2>1. CASE p \notin dirty
    BY <2>1, <1>1 DEF SessionInv, SessionCurrent, InSession, Flushed
  <2>2. CASE p \in dirty
    <3>1. Flushed[p] = [positions[p] EXCEPT !.src = viewPos[p].src,
                          !.last = viewPos[p].last, !.peak = viewPos[p].peak]
      BY <2>2 DEF Flushed
    <3>2. /\ viewPos[p].qty = positions[p].qty
          /\ viewPos[p].cost = positions[p].cost
          /\ viewPos[p].first = positions[p].first
          /\ viewPos[p].buys = positions[p].buys
      BY DEF SessionInv, SessionCurrent, InSession
    <3>3. positions[p] \in PositionRow /\ viewPos[p] \in PositionRow
      BY <1>1
    <3>4. /\ Flushed[p].src = viewPos[p].src /\ Flushed[p].last = viewPos[p].last
          /\ Flushed[p].peak = viewPos[p].peak /\ Flushed[p].qty = viewPos[p].qty
          /\ Flushed[p].cost = viewPos[p].cost /\ Flushed[p].first = viewPos[p].first
          /\ Flushed[p].buys = viewPos[p].buys
      BY <3>1, <3>2, <3>3 DEF PositionRow
    <3> QED BY <3>3, <3>4, <1>1, SameRow
  <2> QED BY <2>1, <2>2
<1> QED BY <1>1, <1>2

(* A sale inside a session leaves table and session equal again. *)
LEMMA SaleKeepsSession ==
  ASSUME SessionInv, InSession, NEW p \in Position, NEW q \in Nat,
         NEW price \in Prices, CommitSale(p, q, price),
         KeepViewAfterSale(p, q, price)
  PROVE  viewCash' = cash' /\ viewPos' = positions'
BY FlushedIsView DEF CommitSale, KeepViewAfterSale

LEMMA SessionStep == SessionInv /\ [Next]_vars => SessionCurrent'
<1> SUFFICES ASSUME SessionInv, [Next]_vars PROVE SessionCurrent'
  OBVIOUS
<1>1. TypeInv /\ SessionCurrent
  BY DEF SessionInv
<1>2. /\ positions \in [Position -> PositionRow]
      /\ viewPos \in [Position -> PositionRow]
      /\ todo \subseteq Position
  BY <1>1 DEF TypeInv, TypeOK
<1> USE DEF envVars, dbVars, viewVars, passVars
<1>3. ASSUME NEW sig \in Sig, NEW w \in Wallet, NEW t \in Token,
             NEW side \in {"buy", "sell"}, NEW amount \in Amounts,
             SourceTrade(sig, w, t, side, amount)
      PROVE  SessionCurrent'
  BY <1>1, <1>3 DEF SourceTrade, SessionCurrent
<1>4. ASSUME NEW tr \in trades, EnqueueTrade(tr) PROVE SessionCurrent'
  BY <1>1, <1>4 DEF EnqueueTrade, SessionCurrent
<1>5. CASE Tick
  BY <1>1, <1>5 DEF Tick, SessionCurrent
<1>6. CASE ReconcileTimer
  BY <1>1, <1>6 DEF ReconcileTimer, SessionCurrent
<1>7. CASE StartReconcile
  BY <1>7 DEF StartReconcile, Load, SessionCurrent
<1>8. ASSUME NEW w \in Wallet, FetchBalances(w) PROVE SessionCurrent'
  BY <1>1, <1>8 DEF FetchBalances, SessionCurrent
<1>9. ASSUME NEW p \in todo, TrackSource(p) PROVE SessionCurrent'
  <2>1. /\ InSession /\ viewCash' = viewCash /\ cash' = cash
        /\ positions' = positions /\ dirty \subseteq dirty'
        /\ viewPos' = [viewPos EXCEPT ![p].src = Actual(p)]
    BY <1>9 DEF TrackSource, Aligning, InSession
  <2>2. /\ p \in Position /\ viewPos[p] \in PositionRow
        /\ Actual(p) \in Nat /\ viewPos[p].src \in Nat
    BY <1>1, <1>2 DEF TypeInv, TypeOK, Actual, Position, PositionRow
  <2>3. Actual(p) = viewPos[p].src \/ p \in dirty'
    BY <1>9, <2>2 DEF TrackSource, Tracked
  <2>4. ASSUME Actual(p) = viewPos[p].src PROVE viewPos' = viewPos
    <3> DEFINE row == [viewPos[p] EXCEPT !.src = Actual(p)]
    <3>1. row = viewPos[p]
      BY <2>2, <2>4 DEF PositionRow
    <3>2. viewPos' = [viewPos EXCEPT ![p] = row]
      BY <2>1
    <3> QED BY <3>1, <3>2, <1>2, <2>2
  <2>5. \A x \in Position :
          /\ viewPos'[x].qty = viewPos[x].qty /\ viewPos'[x].cost = viewPos[x].cost
          /\ viewPos'[x].first = viewPos[x].first
          /\ viewPos'[x].buys = viewPos[x].buys
          /\ x # p => viewPos'[x] = viewPos[x]
    BY <1>2, <2>1, <2>2 DEF PositionRow
  <2> QED BY <1>1, <2>1, <2>3, <2>4, <2>5 DEF SessionCurrent, InSession
<1>10. ASSUME NEW p \in todo, ReducePending(p) PROVE SessionCurrent'
  <2>1. InSession
    BY <1>10 DEF ReducePending, Shrunk, Aligning, InSession
  <2>2. positions' = viewPos /\ viewPos' = viewPos /\ cash' = cash
                             /\ viewCash' = viewCash
    BY <1>10, <2>1, FlushedIsView DEF ReducePending
  <2> QED BY <1>1, <2>1, <2>2 DEF SessionCurrent, InSession
<1>11. ASSUME NEW p \in todo, NEW price \in Prices, ReduceFilled(p, price)
       PROVE  SessionCurrent'
  <2> DEFINE q == SellQuantity(viewPos[p], Tracked(p) - Actual(p))
  <2>1. InSession /\ CommitSale(p, q, price) /\ KeepViewAfterSale(p, q, price)
    BY <1>11 DEF ReduceFilled, Shrunk, Aligning, InSession
  <2>2. Tracked(p) - Actual(p) \in Nat
    BY <1>1, <1>11 DEF ReduceFilled, Shrunk, Tracked, Actual, TypeInv, TypeOK,
                       PositionRow, Position
  <2>3. q \in Nat
    BY <1>2, <2>2, SellQuantityWithin DEF PositionRow
  <2> HIDE DEF q
  <2>4. viewCash' = cash' /\ viewPos' = positions'
    BY <1>2, <2>1, <2>3, SaleKeepsSession
  <2> QED BY <2>4 DEF SessionCurrent
<1>12. ASSUME NEW p \in todo, ReduceCollides(p) PROVE SessionCurrent'
  BY <1>12 DEF ReduceCollides, SessionCurrent
<1>13. CASE RiskUnpriced
  BY <1>1, <1>13 DEF RiskUnpriced, RiskDone, SessionCurrent
<1>14. ASSUME NEW p \in todo, NEW price \in Prices, RiskHold(p, price)
       PROVE  SessionCurrent'
  <2> DEFINE row == Repriced(viewPos[p], price)
  <2>1. /\ InSession /\ viewCash' = viewCash /\ cash' = cash
        /\ positions' = positions /\ dirty' = dirty \cup {p}
        /\ viewPos' = [viewPos EXCEPT ![p] = row]
    BY <1>14 DEF RiskHold, CanReprice, InSession
  <2>2. viewPos[p] \in PositionRow /\ viewPos[p].cost > 0 /\ price \in Positive
    <3>1. p \in Position /\ viewPos[p].cost > 0
      BY <1>2, <1>14 DEF RiskHold, CanReprice
    <3> QED BY <1>2, <3>1, PaperCopyAssumption
  <2>3. /\ row.qty = viewPos[p].qty /\ row.cost = viewPos[p].cost
        /\ row.buys = viewPos[p].buys /\ row.first = viewPos[p].first
    BY <2>2, RepricedRow DEF Repriced, PositionRow
  <2> HIDE DEF row
  <2> QED BY <1>1, <1>2, <2>1, <2>3 DEF SessionCurrent, InSession
<1>15. ASSUME NEW p \in todo, NEW price \in Prices, RiskExit(p, price)
       PROVE  SessionCurrent'
  <2>1. /\ InSession /\ viewPos[p].qty \in Nat
        /\ CommitSale(p, viewPos[p].qty, price)
        /\ KeepViewAfterSale(p, viewPos[p].qty, price)
    BY <1>2, <1>15 DEF RiskExit, CanReprice, InSession, PositionRow
  <2>2. viewCash' = cash' /\ viewPos' = positions'
    BY <1>2, <2>1, SaleKeepsSession
  <2> QED BY <2>2 DEF SessionCurrent
<1>16. CASE FinishReconcile
  BY <1>16 DEF FinishReconcile, SessionCurrent
<1>17. CASE NothingDue
  BY <1>17 DEF NothingDue, SessionCurrent
<1>18. ASSUME NEW k \in DOMAIN orders, SkipDue(k) PROVE SessionCurrent'
  BY <1>18 DEF SkipDue, SessionCurrent
<1>19. ASSUME NEW k \in DOMAIN orders, BeginOrder(k) PROVE SessionCurrent'
  BY <1>19 DEF BeginOrder, Load, SessionCurrent
<1>20. ASSUME NEW k \in DOMAIN orders, NEW price \in Prices,
              \/ DeferOrder(k) \/ RejectBuy(k)
              \/ FillBuy(k, price) \/ FillSell(k, price)
       PROVE  SessionCurrent'
  <2>1. pc' = "idle"
    BY <1>20 DEF DeferOrder, RejectBuy, FillBuy, FillSell
  <2> QED BY <2>1 DEF SessionCurrent
<1>21. ASSUME NEW k \in DOMAIN orders, DeferOrder(k) \/ RejectBuy(k)
       PROVE  SessionCurrent'
  BY <1>21 DEF DeferOrder, RejectBuy, SessionCurrent
<1>22. CASE CycleFails
  BY <1>22 DEF CycleFails, SessionCurrent
<1>23. CASE Crash
  BY <1>23 DEF Crash, SessionCurrent
<1>24. CASE UNCHANGED vars
  BY <1>1, <1>24 DEF vars, SessionCurrent
<1> QED
  BY <1>3, <1>4, <1>5, <1>6, <1>7, <1>8, <1>9, <1>10, <1>11, <1>12, <1>13,
     <1>14, <1>15, <1>16, <1>17, <1>18, <1>19, <1>20, <1>21, <1>22, <1>23, <1>24
  DEF Next, Source, Queue, Executor, Reconcile, ExecuteNext

(* The executor never computes with stale money: whenever it works, the cash
   and the money figures of every position in its session are those of the
   database. *)
THEOREM SessionIsCurrent == Spec => []SessionCurrent
<1>1. Init => SessionInv
  BY TypeInit DEF Init, SessionInv, SessionCurrent
<1>2. SessionInv /\ [Next]_vars => SessionInv'
  BY TypeStep, SessionStep DEF SessionInv
<1>3. SessionInv => SessionCurrent
  BY DEF SessionInv
<1> QED BY <1>1, <1>2, <1>3, PTL DEF Spec

-----------------------------------------------------------------------------
(* Cash is conserved *)

(* The half of BooksBalance that does not sum over the positions: no schedule, retry,
   failure or crash makes or loses paper money. *)
CashBalance == cash + invested = InitialCash + realized
CashInv == SessionInv /\ CashBalance
MoneySame == UNCHANGED <<cash, invested, realized>>

LEMMA SaleBalances ==
  ASSUME CashInv, InSession, NEW p \in Position, NEW q \in Nat,
         NEW price \in Prices, CommitSale(p, q, price)
  PROVE  CashBalance'
<1> DEFINE released == Released(viewPos[p], q)
           proceeds == q * price
<1>1. viewPos[p] \in PositionRow /\ price \in Nat
  BY PaperCopyAssumption DEF CashInv, SessionInv, TypeInv, TypeOK, Positive
<1>2. released \in Nat /\ proceeds \in Nat
  BY <1>1, ReleasedWithin DEF PositionRow
<1>3. /\ cash' = cash + proceeds /\ invested' = invested - released
      /\ realized' = realized + proceeds - released
  BY DEF CommitSale, CashInv, SessionInv, SessionCurrent, InSession
<1>4. cash \in Nat /\ invested \in Int /\ realized \in Int /\ InitialCash \in Nat
  BY PaperCopyAssumption DEF CashInv, SessionInv, TypeInv, TypeOK
<1> HIDE DEF released, proceeds
<1> QED BY <1>2, <1>3, <1>4 DEF CashInv, CashBalance

(* Which actions move money. *)
LEMMA MoneyMoves ==
  ASSUME [Next]_vars
  PROVE  \/ MoneySame
         \/ \E p \in todo, price \in Prices :
              ReduceFilled(p, price) \/ RiskExit(p, price)
         \/ \E k \in DOMAIN orders, price \in Prices :
              FillBuy(k, price) \/ FillSell(k, price)
<1> USE DEF envVars, dbVars, MoneySame
<1>1. Source \/ Queue \/ Tick \/ ReconcileTimer \/ CycleFails \/ Crash => MoneySame
  <2>1. ASSUME NEW sig, NEW w, NEW t, NEW side, NEW amount,
               SourceTrade(sig, w, t, side, amount)
        PROVE  MoneySame
    BY <2>1 DEF SourceTrade
  <2>2. ASSUME NEW tr, EnqueueTrade(tr) PROVE MoneySame
    BY <2>2 DEF EnqueueTrade
  <2>3. Tick \/ ReconcileTimer \/ CycleFails \/ Crash => MoneySame
    BY DEF Tick, ReconcileTimer, CycleFails, Crash
  <2> QED BY <2>1, <2>2, <2>3 DEF Source, Queue
<1>2. StartReconcile \/ (\E w \in Wallet : FetchBalances(w)) \/ RiskUnpriced
        \/ FinishReconcile \/ NothingDue => MoneySame
  BY DEF StartReconcile, FetchBalances, RiskUnpriced, FinishReconcile, NothingDue
<1>3. ASSUME NEW p \in todo,
             TrackSource(p) \/ ReducePending(p) \/ ReduceCollides(p)
      PROVE  MoneySame
  BY <1>3 DEF TrackSource, ReducePending, ReduceCollides
<1>4. ASSUME NEW p \in todo, NEW price \in Prices, RiskHold(p, price)
      PROVE  MoneySame
  BY <1>4 DEF RiskHold
<1>5. ASSUME NEW k \in DOMAIN orders,
             SkipDue(k) \/ BeginOrder(k) \/ DeferOrder(k) \/ RejectBuy(k)
      PROVE  MoneySame
  BY <1>5 DEF SkipDue, BeginOrder, DeferOrder, RejectBuy
<1>6. UNCHANGED vars => MoneySame
  BY DEF vars
<1> QED
  <2>1. CASE Reconcile
    BY <2>1, <1>2, <1>3, <1>4 DEF Reconcile
  <2>2. CASE ExecuteNext
    BY <2>2, <1>2, <1>5 DEF ExecuteNext
  <2> QED BY <1>1, <1>6, <2>1, <2>2 DEF Next, Executor

LEMMA CashStep == CashInv /\ [Next]_vars => CashBalance'
<1> SUFFICES ASSUME CashInv, [Next]_vars PROVE CashBalance'
  OBVIOUS
<1>1. /\ todo \subseteq Position /\ viewPos \in [Position -> PositionRow]
      /\ cash \in Nat /\ invested \in Int /\ realized \in Int
      /\ InitialCash \in Nat /\ seen \in [Token -> Nat]
  BY PaperCopyAssumption DEF CashInv, SessionInv, TypeInv, TypeOK
<1>2. CASE MoneySame
  BY <1>2 DEF MoneySame, CashInv, CashBalance
<1>3. ASSUME NEW p \in todo, NEW price \in Prices, ReduceFilled(p, price)
      PROVE  CashBalance'
  <2> DEFINE q == SellQuantity(viewPos[p], Tracked(p) - Actual(p))
  <2>1. InSession /\ CommitSale(p, q, price)
    BY <1>3 DEF ReduceFilled, Shrunk, Aligning, InSession
  <2>2. Tracked(p) - Actual(p) \in Nat
    BY <1>1, <1>3 DEF ReduceFilled, Shrunk, Tracked, Actual, PositionRow, Position
  <2>3. q \in Nat
    BY <1>1, <2>2, SellQuantityWithin DEF PositionRow
  <2> HIDE DEF q
  <2> QED BY <1>1, <2>1, <2>3, SaleBalances
<1>4. ASSUME NEW p \in todo, NEW price \in Prices, RiskExit(p, price)
      PROVE  CashBalance'
  <2>1. InSession /\ CommitSale(p, viewPos[p].qty, price) /\ viewPos[p].qty \in Nat
    BY <1>1, <1>4 DEF RiskExit, CanReprice, InSession, PositionRow
  <2> QED BY <1>1, <2>1, SaleBalances
<1>5. ASSUME NEW k \in DOMAIN orders, NEW price \in Prices, FillBuy(k, price)
      PROVE  CashBalance'
  <2> DEFINE value == BuyValue(orders[k].amount, price, viewCash)
  <2>1. cash' = viewCash - value /\ invested' = invested + value
                                 /\ realized' = realized
    BY <1>5 DEF FillBuy
  <2>2. viewCash = cash
    BY <1>5 DEF FillBuy, InHand, CashInv, SessionInv, SessionCurrent
  <2>3. orders[k].amount \in Nat /\ price \in Nat
    BY PositionOfOrder, PaperCopyAssumption
    DEF CashInv, SessionInv, OrderRow, Positive
  <2>4. value \in Int
    <3>1. viewCash \in Nat
      BY <1>1, <2>2
    <3>2. value \in 0 .. viewCash
      BY <2>3, <3>1, BuyValueWithin
    <3> QED BY <3>1, <3>2
  <2> HIDE DEF value
  <2> QED BY <1>1, <2>1, <2>2, <2>4 DEF CashInv, CashBalance
<1>6. ASSUME NEW k \in DOMAIN orders, NEW price \in Prices, FillSell(k, price)
      PROVE  CashBalance'
  <2> DEFINE p == PositionOf(k)
             q == SellQuantity(viewPos[p], orders[k].amount)
  <2>1. InSession /\ CommitSale(p, q, price)
    BY <1>6 DEF FillSell, InHand, InSession
  <2>2. p \in Position /\ orders[k].amount \in Nat
    BY PositionOfOrder DEF CashInv, SessionInv, OrderRow
  <2>3. q \in Nat
    BY <1>1, <2>2, SellQuantityWithin DEF PositionRow
  <2> HIDE DEF p, q
  <2> QED BY <2>1, <2>2, <2>3, SaleBalances
<1> QED BY <1>2, <1>3, <1>4, <1>5, <1>6, MoneyMoves

-----------------------------------------------------------------------------
(* Settled orders stay settled, and the portfolio implements the abstract ledger:
   both follow from what a step can do to the table of orders. *)

-----------------------------------------------------------------------------
(* What a step does to the orders *)

QueuesOrder ==
  \E k : \E o \in OrderRow :
    /\ k \notin DOMAIN orders /\ o.status = "pending"
    /\ orders' = Insert(k, o)

SettlesNothing ==    \* an order in hand is skipped or put back
  \E k \in Keys("pending"), o \in OrderRow :
    /\ OrderIdentity(o) = OrderIdentity(orders[k])
    /\ o.status \in {"pending", "skipped"}
    /\ orders' = [orders EXCEPT ![k] = o]

FillsOrder ==
  \E k \in Keys("pending"), o \in OrderRow :
    /\ OrderIdentity(o) = OrderIdentity(orders[k]) /\ o.status = "filled"
    /\ orders' = [orders EXCEPT ![k] = o]

FillsNewOrder ==
  \E k : \E o \in OrderRow :
    /\ k \notin DOMAIN orders /\ o.status = "filled"
    /\ orders' = Insert(k, o)

(* Money moves with a fill, within the session's figures. *)
BuyStep ==
  \E value \in Nat : /\ value <= cash
                     /\ cash' = cash - value /\ invested' = invested + value
                     /\ realized' = realized

SaleStep ==
  \E proceeds, released \in Nat :
    /\ cash' = cash + proceeds /\ invested' = invested - released
    /\ realized' = realized + proceeds - released

LEMMA SaleStepHolds ==
  ASSUME SessionInv, InSession, NEW p \in Position, NEW q \in Nat,
         NEW price \in Prices, CommitSale(p, q, price)
  PROVE  SaleStep
<1> DEFINE released == Released(viewPos[p], q)
           proceeds == q * price
<1>1. viewPos[p] \in PositionRow /\ price \in Nat
  BY PaperCopyAssumption DEF SessionInv, TypeInv, TypeOK, Positive
<1>2. released \in Nat /\ proceeds \in Nat
  BY <1>1, ReleasedWithin DEF PositionRow
<1>3. /\ cash' = cash + proceeds /\ invested' = invested - released
      /\ realized' = realized + proceeds - released
  BY DEF CommitSale, SessionInv, SessionCurrent, InSession
<1> HIDE DEF released, proceeds
<1> QED BY <1>2, <1>3 DEF SaleStep

(* The status of one row is all that changes. *)
LEMMA StatusOnly ==
  ASSUME TypeInv, NEW k \in Keys("pending"),
         NEW status \in {"filled", "skipped"},
         orders' = [orders EXCEPT ![k].status = status]
  PROVE  \E o \in OrderRow : /\ OrderIdentity(o) = OrderIdentity(orders[k])
                             /\ o.status = status
                             /\ orders' = [orders EXCEPT ![k] = o]
<1> DEFINE o == [orders[k] EXCEPT !.status = status]
<1>1. orders[k] \in OrderRow
  BY PositionOfOrder DEF Keys
<1>2. o \in OrderRow /\ o.status = status /\ OrderIdentity(o) = OrderIdentity(orders[k])
  BY <1>1 DEF OrderRow, OrderIdentity
<1>3. orders' = [orders EXCEPT ![k] = o]
  OBVIOUS
<1> QED BY <1>2, <1>3

LEMMA OrderInHandPends ==
  ASSUME TypeInv, NEW k, InHand(k)
  PROVE  k \in Keys("pending")
BY DEF TypeInv, TypeOK, InHand

LEMMA PassEffect ==    \* one step of reconcile
  ASSUME SessionInv, Reconcile
  PROVE  \/ orders' = orders /\ MoneySame
         \/ QueuesOrder /\ MoneySame
         \/ FillsNewOrder /\ SaleStep
<1> USE DEF envVars, dbVars, MoneySame
<1>1. /\ TypeInv /\ todo \subseteq Position /\ now \in Nat
      /\ seen \in [Token -> Nat] /\ viewPos \in [Position -> PositionRow]
  BY DEF SessionInv, TypeInv, TypeOK
<1>2. CASE \/ StartReconcile \/ RiskUnpriced \/ FinishReconcile
           \/ \E w \in Wallet : FetchBalances(w)
  BY <1>2 DEF StartReconcile, RiskUnpriced, FinishReconcile, FetchBalances
<1>3. ASSUME NEW p \in todo, TrackSource(p) \/ ReduceCollides(p)
      PROVE  orders' = orders /\ MoneySame
  BY <1>3 DEF TrackSource, ReduceCollides
<1>4. ASSUME NEW p \in todo, NEW price \in Prices, RiskHold(p, price)
      PROVE  orders' = orders /\ MoneySame
  BY <1>4 DEF RiskHold
<1>5. ASSUME NEW p \in todo, Shrunk(p), NEW status \in {"pending", "filled"}
      PROVE  /\ Tracked(p) - Actual(p) \in Nat
             /\ ReduceOrder(p, status) \in OrderRow
             /\ ReduceOrder(p, status).status = status
  <2>1. p \in Position /\ Tracked(p) - Actual(p) \in Nat
    BY <1>1, <1>5 DEF Shrunk, Actual, Tracked, Position, PositionRow
  <2>2. ReduceOrder(p, status) \in OrderRow
    BY <1>1, <1>5, <2>1, NewOrderRow DEF ReduceOrder
  <2> QED BY <2>1, <2>2 DEF ReduceOrder, NewOrder
<1>6. ASSUME NEW p \in todo, ReducePending(p) PROVE QueuesOrder /\ MoneySame
  BY <1>5, <1>6 DEF ReducePending, QueuesOrder
<1>7. ASSUME NEW p \in todo, NEW price \in Prices, ReduceFilled(p, price)
      PROVE  FillsNewOrder /\ SaleStep
  <2> DEFINE q == SellQuantity(viewPos[p], Tracked(p) - Actual(p))
  <2>1. Shrunk(p) /\ CommitSale(p, q, price) /\ InSession
    BY <1>7 DEF ReduceFilled, Shrunk, Aligning, InSession
  <2>2. q \in Nat
    BY <1>1, <1>5, <2>1, SellQuantityWithin DEF PositionRow
  <2>3. FillsNewOrder
    BY <1>5, <1>7, <2>1 DEF ReduceFilled, FillsNewOrder
  <2> HIDE DEF q
  <2> QED BY <1>1, <2>1, <2>2, <2>3, SaleStepHolds
<1>8. ASSUME NEW p \in todo, NEW price \in Prices, RiskExit(p, price)
      PROVE  FillsNewOrder /\ SaleStep
  <2>1. /\ InSession /\ CommitSale(p, viewPos[p].qty, price)
        /\ viewPos[p].qty \in Nat /\ viewPos[p].src \in Nat /\ p \in Position
    BY <1>1, <1>8 DEF RiskExit, CanReprice, InSession, PositionRow
  <2> DEFINE o == NewOrder(p, "sell", viewPos[p].src, now, now, "filled")
  <2>2. o \in OrderRow
    BY <1>1, <2>1, NewOrderRow
  <2>4. o.status = "filled"
    BY DEF NewOrder
  <2>3. ExitKey(p) \notin DOMAIN orders /\ orders' = Insert(ExitKey(p), o)
    BY <1>8 DEF RiskExit
  <2> HIDE DEF o
  <2> QED BY <2>1, <2>2, <2>3, <2>4, SaleStepHolds DEF FillsNewOrder
<1> QED BY <1>2, <1>3, <1>4, <1>6, <1>7, <1>8 DEF Reconcile

LEMMA ExecuteEffect ==    \* one step of execute_next
  ASSUME SessionInv, ExecuteNext
  PROVE  \/ orders' = orders /\ MoneySame
         \/ SettlesNothing /\ MoneySame
         \/ FillsOrder /\ (BuyStep \/ SaleStep)
<1> USE DEF envVars, dbVars, MoneySame
<1>1. /\ TypeInv /\ viewPos \in [Position -> PositionRow] /\ cash \in Nat
      /\ pc = "order" => viewCash = cash
  BY DEF SessionInv, SessionCurrent, TypeInv, TypeOK
<1>2. CASE NothingDue
  BY <1>2 DEF NothingDue
<1>3. ASSUME NEW k \in DOMAIN orders, BeginOrder(k) PROVE orders' = orders /\ MoneySame
  BY <1>3 DEF BeginOrder
<1>4. ASSUME NEW k \in DOMAIN orders, SkipDue(k) \/ RejectBuy(k)
      PROVE  SettlesNothing /\ MoneySame
  <2>1. k \in Keys("pending")
    BY <1>1, <1>4, OrderInHandPends DEF SkipDue, RejectBuy, IsNextDue, Due
  <2>2. orders' = [orders EXCEPT ![k].status = "skipped"] /\ MoneySame
    BY <1>4 DEF SkipDue, RejectBuy
  <2>3. \E o \in OrderRow : /\ OrderIdentity(o) = OrderIdentity(orders[k])
                            /\ o.status = "skipped"
                            /\ orders' = [orders EXCEPT ![k] = o]
    BY <1>1, <2>1, <2>2, StatusOnly
  <2> QED BY <2>1, <2>2, <2>3 DEF SettlesNothing
<1>5. ASSUME NEW k \in DOMAIN orders, DeferOrder(k)
      PROVE  SettlesNothing /\ MoneySame
  <2> DEFINE o == Deferred(orders[k])
  <2>1. k \in Keys("pending") /\ orders[k].status = "pending"
    BY <1>1, <1>5, OrderInHandPends DEF DeferOrder, Keys
  <2>2. orders[k] \in OrderRow /\ now + RetryDelay \in Nat
    BY <1>1, PositionOfOrder, PaperCopyAssumption DEF TypeInv, TypeOK
  <2>3. orders[k].attempts + 1 \in Nat
    BY <2>2 DEF OrderRow
  <2>4. /\ o \in OrderRow /\ o.status \in {"pending", "skipped"}
        /\ OrderIdentity(o) = OrderIdentity(orders[k])
    BY <2>1, <2>2, <2>3 DEF Deferred, OrderRow, OrderIdentity
  <2>5. orders' = [orders EXCEPT ![k] = o] /\ MoneySame
    BY <1>5 DEF DeferOrder
  <2> HIDE DEF o
  <2> QED BY <2>1, <2>4, <2>5 DEF SettlesNothing
<1>6. ASSUME NEW k \in DOMAIN orders, NEW price \in Prices,
             FillBuy(k, price) \/ FillSell(k, price)
      PROVE  /\ FillsOrder /\ InSession /\ k \in Keys("pending")
             /\ orders[k].amount \in Nat /\ PositionOf(k) \in Position
             /\ price \in Nat
  <2>1. InHand(k) /\ orders' = [orders EXCEPT ![k].status = "filled"]
    BY <1>6 DEF FillBuy, FillSell
  <2>2. k \in Keys("pending") /\ InSession
    BY <1>1, <2>1, OrderInHandPends DEF InHand, InSession
  <2>3. \E o \in OrderRow : /\ OrderIdentity(o) = OrderIdentity(orders[k])
                            /\ o.status = "filled"
                            /\ orders' = [orders EXCEPT ![k] = o]
    BY <1>1, <2>1, <2>2, StatusOnly
  <2>4. orders[k].amount \in Nat /\ PositionOf(k) \in Position
    BY <1>1, PositionOfOrder DEF OrderRow
  <2> QED BY <2>2, <2>3, <2>4, PaperCopyAssumption DEF FillsOrder, Positive
<1>7. ASSUME NEW k \in DOMAIN orders, NEW price \in Prices, FillBuy(k, price)
      PROVE  BuyStep
  <2> DEFINE value == BuyValue(orders[k].amount, price, viewCash)
  <2>1. /\ cash' = viewCash - value /\ invested' = invested + value
        /\ realized' = realized
    BY <1>7 DEF FillBuy
  <2>2. viewCash = cash
    BY <1>1, <1>7 DEF FillBuy, InHand
  <2>3. value \in 0 .. cash
    BY <1>1, <1>6, <1>7, <2>2, BuyValueWithin
  <2> HIDE DEF value
  <2>4. value \in Nat /\ value <= cash
    BY <1>1, <2>3
  <2> QED BY <2>1, <2>2, <2>4 DEF BuyStep
<1>8. ASSUME NEW k \in DOMAIN orders, NEW price \in Prices, FillSell(k, price)
      PROVE  SaleStep
  <2> DEFINE p == PositionOf(k)
             q == SellQuantity(viewPos[p], orders[k].amount)
  <2>1. p \in Position /\ CommitSale(p, q, price) /\ InSession
    BY <1>6, <1>8 DEF FillSell
  <2>2. q \in Nat
    BY <1>1, <1>6, <1>8, <2>1, SellQuantityWithin DEF PositionRow
  <2> HIDE DEF p, q
  <2> QED BY <2>1, <2>2, SaleStepHolds
<1> QED BY <1>2, <1>3, <1>4, <1>5, <1>6, <1>7, <1>8 DEF ExecuteNext

(* Every step leaves the orders alone, queues one, puts one back, or fills
   one; and money moves exactly when an order is filled. *)
LEMMA StepEffect ==
  ASSUME SessionInv, [Next]_vars
  PROVE  \/ orders' = orders /\ MoneySame
         \/ (QueuesOrder \/ SettlesNothing) /\ MoneySame
         \/ FillsOrder /\ (BuyStep \/ SaleStep)
         \/ FillsNewOrder /\ SaleStep
<1> USE DEF envVars, dbVars, MoneySame
<1>1. TypeInv
  BY DEF SessionInv
<1>2. ASSUME NEW sig, NEW w, NEW t, NEW side, NEW amount,
             SourceTrade(sig, w, t, side, amount)
      PROVE  orders' = orders /\ MoneySame
  BY <1>2 DEF SourceTrade
<1>3. ASSUME NEW tr \in trades, EnqueueTrade(tr)
      PROVE  QueuesOrder /\ MoneySame
  <2> DEFINE k == <<tr.sig, tr.token>>
             o == NewOrder(<<tr.wallet, tr.token>>, tr.side, tr.amount,
                           tr.at, now + ReactionDelay, "pending")
  <2>1. tr \in TradeRow /\ now + ReactionDelay \in Nat
    BY <1>1, PaperCopyAssumption DEF TypeInv, TypeOK
  <2>2. o \in OrderRow
    BY <1>1, <2>1, NewOrderRow DEF TradeRow, Position
  <2>4. o.status = "pending"
    BY DEF NewOrder
  <2>3. k \notin DOMAIN orders /\ orders' = Insert(k, o) /\ MoneySame
    BY <1>3 DEF EnqueueTrade, NotQueued
  <2> HIDE DEF k, o
  <2> QED BY <2>2, <2>3, <2>4 DEF QueuesOrder
<1>4. Tick \/ ReconcileTimer \/ CycleFails \/ Crash \/ UNCHANGED vars
        => orders' = orders /\ MoneySame
  BY DEF Tick, ReconcileTimer, CycleFails, Crash, vars
<1> QED BY <1>2, <1>3, <1>4, PassEffect, ExecuteEffect
        DEF Next, Source, Queue, Executor

-----------------------------------------------------------------------------
(* An order never leaves the table or changes what it is for, and one that
   was filled or skipped never changes again: no duplicate delivery, retry,
   crash or reconciliation fills an order twice. *)
THEOREM SettledOrdersAreFinal == Spec => SettledOrdersStay
<1>1. SessionInv /\ [Next]_vars => OrdersAreFinal \/ UNCHANGED vars
  <2> SUFFICES ASSUME SessionInv, [Next]_vars PROVE OrdersAreFinal
    OBVIOUS
  <2>1. IsTable(orders, OrderRow)
    BY DEF SessionInv, TypeInv, TypeOK
  <2>2. CASE orders' = orders
    BY <2>2 DEF OrdersAreFinal
  <2>3. CASE QueuesOrder \/ FillsNewOrder
    <3>1. PICK k : \E o \in OrderRow : k \notin DOMAIN orders /\ orders' = Insert(k, o)
      BY <2>3 DEF QueuesOrder, FillsNewOrder
    <3>2. PICK o \in OrderRow : orders' = Insert(k, o)
      BY <3>1
    <3>3. \A j \in DOMAIN orders : j \in DOMAIN orders' /\ orders'[j] = orders[j]
      BY <3>1, <3>2 DEF Insert
    <3> QED BY <3>3 DEF OrdersAreFinal, OrderIdentity
  <2>4. CASE SettlesNothing \/ FillsOrder
    BY <2>1, <2>4, UpdateTable
    DEF SettlesNothing, FillsOrder, OrdersAreFinal, Keys
  <2> QED BY <2>2, <2>3, <2>4, StepEffect
<1>2. SessionInv /\ [Next]_vars => [OrdersAreFinal]_vars
  BY <1>1
<1>3. Init => SessionInv
  BY TypeInit DEF Init, SessionInv, SessionCurrent
<1>4. SessionInv /\ [Next]_vars => SessionInv'
  BY TypeStep, SessionStep DEF SessionInv
<1> QED BY <1>2, <1>3, <1>4, PTL DEF Spec, SettledOrdersStay

-----------------------------------------------------------------------------
(* The portfolio implements the ledger *)

Book == [k \in DOMAIN orders |-> orders[k].status]

LEMMA BookOfInsert ==
  ASSUME NEW k, NEW o, k \notin DOMAIN orders, orders' = Insert(k, o)
  PROVE  /\ k \in DOMAIN Book'
         /\ Ledger!Enter(k, o.status)
BY DEF Book, Insert, Ledger!Enter

LEMMA BookOfUpdate ==
  ASSUME NEW k \in Keys("pending"), NEW o, orders' = [orders EXCEPT ![k] = o],
         o.status # "pending"
  PROVE  k \in DOMAIN Book /\ Ledger!SettleEntry(k, o.status)
BY DEF Book, Keys, Ledger!SettleEntry

LEMMA LedgerStep ==
  ASSUME SessionInv, SessionInv', [Next]_vars
  PROVE  [Ledger!LedgerNext]_(Ledger!ledgerVars)
<1> USE DEF MoneySame, Ledger!MoneyUnchanged
<1>1. cash \in Nat /\ cash' \in Nat /\ invested \in Int /\ realized \in Int
  BY DEF SessionInv, TypeInv, TypeOK
<1>2. BuyStep => Ledger!MoneyBuys
  BY <1>1 DEF BuyStep, Ledger!MoneyBuys
<1>3. SaleStep => Ledger!MoneySells
  BY <1>1 DEF SaleStep, Ledger!MoneySells
<1>4. CASE orders' = orders /\ MoneySame
  BY <1>4 DEF Ledger!ledgerVars
<1>5. CASE QueuesOrder /\ MoneySame
  <2>1. Ledger!Accept
    BY <1>5, BookOfInsert DEF QueuesOrder, Book, Ledger!Accept
  <2> QED BY <2>1 DEF Ledger!LedgerNext
<1>6. CASE SettlesNothing /\ MoneySame
  <2>1. PICK k \in Keys("pending"), o \in OrderRow :
          /\ o.status \in {"pending", "skipped"}
          /\ orders' = [orders EXCEPT ![k] = o]
    BY <1>6 DEF SettlesNothing
  <2>2. CASE o.status = "pending"
    <3>1. Book' = Book
      BY <2>1, <2>2 DEF Book, Keys
    <3> QED BY <1>6, <3>1 DEF Book, Ledger!ledgerVars
  <2>3. CASE o.status = "skipped"
    <3>1. Ledger!Skip
      BY <1>6, <2>1, <2>3, BookOfUpdate DEF Book, Ledger!Skip
    <3> QED BY <3>1 DEF Ledger!LedgerNext
  <2> QED BY <2>1, <2>2, <2>3
<1>7. CASE FillsOrder /\ (BuyStep \/ SaleStep)
  <2>1. \E k \in DOMAIN Book : Ledger!SettleEntry(k, "filled")
    BY <1>7, BookOfUpdate DEF FillsOrder
  <2>2. Ledger!Buy \/ Ledger!Sell
    BY <1>2, <1>3, <1>7, <2>1 DEF Book, Ledger!Buy, Ledger!Sell
  <2> QED BY <2>2 DEF Ledger!LedgerNext
<1>8. CASE FillsNewOrder /\ SaleStep
  <2>1. \E k \in DOMAIN Book' : Ledger!Enter(k, "filled")
    BY <1>8, BookOfInsert DEF FillsNewOrder
  <2>2. Ledger!Sell
    BY <1>3, <1>8, <2>1 DEF Book, Ledger!Sell
  <2> QED BY <2>2 DEF Ledger!LedgerNext
<1> QED BY <1>4, <1>5, <1>6, <1>7, <1>8, StepEffect

(* The queue, the executor and the reconciliation together are a ledger:
   every step accepts, skips or fills at most one order, and accounts for
   all the money it moves. *)
THEOREM PortfolioImplementsLedger == Spec => ImplementsLedger
<1>1. Init => SessionInv
  BY TypeInit DEF Init, SessionInv, SessionCurrent
<1>2. SessionInv /\ [Next]_vars => SessionInv'
  BY TypeStep, SessionStep DEF SessionInv
<1>3. Init => Ledger!LedgerInit
  BY DEF Init, Ledger!LedgerInit
<1>4. SessionInv /\ SessionInv' /\ [Next]_vars
        => [Ledger!LedgerNext]_(Ledger!ledgerVars)
  BY LedgerStep
<1> QED BY <1>1, <1>2, <1>3, <1>4, PTL DEF Spec, ImplementsLedger, Ledger!LedgerSpec

-----------------------------------------------------------------------------
(* The limits of the portfolio.  A buy is admitted against figures read before
   its quotes are awaited, and a sale is computed from rows loaded several commits
   earlier; that the limits hold nevertheless rests on the session being current,
   on the portfolio lock that keeps new orders out while one is in hand, and on a
   pass visiting a position only once. *)

-----------------------------------------------------------------------------
(* The inductive invariant *)

RowsWithinLimits(ps) == \A p \in Position : RowWithinLimits(ps[p])

(* What the pass has still to visit is open: rows are closed only when
   visited. *)
TodoIsOpen ==
  /\ pc = "align" => \A p \in todo : Open(viewPos[p])
  /\ pc = "risk" => \A p \in todo \ {cur} : Open(viewPos[p])

(* What admitted the order in hand is still true when it is filled. *)
OrderAdmitted ==
  pc = "order" => ~Blocked(orders[cur], positions[PositionOf(cur)])

AmountsPositive ==
  /\ \A tr \in trades : tr.amount > 0
  /\ \A k \in DOMAIN orders : orders[k].side = "buy" => orders[k].amount > 0

LimitsInv ==
  /\ SessionInv
  /\ PositionsWithinLimits
  /\ InSession => RowsWithinLimits(viewPos)
  /\ TodoIsOpen /\ OrderAdmitted /\ AmountsPositive

-----------------------------------------------------------------------------
(* Rows within limits stay within limits *)

LEMMA OpenRow ==
  ASSUME NEW pos, RowWithinLimits(pos), Open(pos)
  PROVE  /\ pos.cost > 0 /\ pos.src > 0 /\ pos.buys \in 1 .. MaxBuys
         /\ pos.cost <= pos.buys * Allocation
BY DEF RowWithinLimits, Open, NoPosition

LEMMA SoldWithinLimits ==
  ASSUME NEW pos \in PositionRow, NEW q \in Nat, NEW price \in Nat,
         RowWithinLimits(pos)
  PROVE  /\ RowWithinLimits(Sold(pos, q, price))
         /\ Open(Sold(pos, q, price)) => Open(pos)
<1>1. CASE q >= pos.qty
  BY <1>1 DEF Sold, RowWithinLimits, NoPosition, Open
<1>2. CASE ~(q >= pos.qty)
  <2>1. /\ pos.qty \in Positive /\ q < pos.qty
        /\ pos.src \in Positive /\ pos.cost \in Positive
        /\ pos.buys \in 1 .. MaxBuys /\ pos.cost <= pos.buys * Allocation
    BY <1>2, OpenRow DEF PositionRow, Positive, Open
  <2> DEFINE gone == (pos.src * q) \div pos.qty
             released == Released(pos, q)
  <2>2. gone < pos.src /\ gone \in 0 .. pos.src
    BY <2>1, ProperShare, ShareWithin DEF Positive
  <2>3. released < pos.cost /\ released \in 0 .. pos.cost
    BY <1>2, <2>1, ProperShare, ShareWithin DEF Positive, Released
  <2>4. Sold(pos, q, price) =
          [pos EXCEPT !.qty = pos.qty - q, !.src = pos.src - gone,
                      !.cost = pos.cost - released, !.last = price]
    BY <1>2 DEF Sold, PositionRow
  <2> HIDE DEF gone, released
  <2>5. /\ pos.qty - q > 0 /\ pos.src - gone > 0 /\ pos.cost - released > 0
        /\ pos.cost - released <= pos.cost
    BY <2>1, <2>2, <2>3 DEF Positive
  <2>6. pos.buys * Allocation \in Nat
    BY <2>1, PaperCopyAssumption DEF PositionRow, Positive
  <2>7. pos.cost - released <= pos.buys * Allocation
    BY <2>1, <2>3, <2>5, <2>6 DEF Positive
  <2> QED BY <2>1, <2>4, <2>5, <2>7 DEF RowWithinLimits, Open, PositionRow, Positive
<1> QED BY <1>1, <1>2

LEMMA BoughtWithinLimits ==
  ASSUME NEW pos \in PositionRow, NEW amount \in Positive, NEW value \in Nat,
         NEW price \in Positive, RowWithinLimits(pos),
         Open(pos) => pos.buys < MaxBuys,
         value <= Allocation, value \div price > 0
  PROVE  RowWithinLimits(Bought(pos, amount, value, price))
<1> DEFINE base == IF Open(pos) THEN pos ELSE [NoPosition EXCEPT !.first = price]
           quantity == value \div price
<1>1. quantity \in Nat /\ quantity > 0 /\ MaxBuys \in Positive /\ Allocation \in Positive
  BY PaperCopyAssumption DEF Positive
<1>2. value > 0
  <2>1. value = 0 => value \div price = 0
    BY DEF Positive
  <2> QED BY <2>1
<1>3. /\ base \in PositionRow /\ base.buys \in Nat /\ base.buys < MaxBuys
      /\ base.cost <= base.buys * Allocation
  <2>1. CASE Open(pos)
    BY <2>1, OpenRow DEF PositionRow
  <2>2. CASE ~Open(pos)
    <3>1. base = [NoPosition EXCEPT !.first = price]
      BY <2>2
    <3>2. base.buys = 0 /\ base.cost = 0 /\ base \in PositionRow
      BY <3>1 DEF NoPosition, PositionRow, Positive
    <3> QED BY <1>1, <3>2 DEF Positive
  <2> QED BY <2>1, <2>2
<1> HIDE DEF base, quantity
<1>4. Bought(pos, amount, value, price) =
        [base EXCEPT !.src = base.src + amount, !.qty = base.qty + quantity,
                     !.cost = base.cost + value, !.last = price,
                     !.buys = base.buys + 1]
  BY <1>3 DEF Bought, PositionRow, base, quantity
<1>5. /\ base.src + amount > 0 /\ base.qty + quantity > 0 /\ base.cost + value > 0
      /\ base.buys + 1 \in 1 .. MaxBuys
  BY <1>1, <1>2, <1>3 DEF PositionRow, Positive
<1>6. base.cost + value <= (base.buys + 1) * Allocation
  <2>1. (base.buys + 1) * Allocation = base.buys * Allocation + Allocation
    BY <1>1, <1>3 DEF Positive
  <2>2. base.buys * Allocation \in Nat /\ base.cost \in Nat
    BY <1>1, <1>3 DEF PositionRow, Positive
  <2> QED BY <1>1, <1>3, <2>1, <2>2 DEF Positive
<1> QED BY <1>3, <1>4, <1>5, <1>6 DEF RowWithinLimits, PositionRow

LEMMA OpenSetFinite ==
  ASSUME NEW ps
  PROVE  /\ IsFiniteSet(OpenSet(ps)) /\ Cardinality(OpenSet(ps)) \in Nat
<1>1. IsFiniteSet(Position)
  BY PaperCopyAssumption, FS_Product DEF Position
<1>2. OpenSet(ps) \subseteq Position
  BY DEF OpenSet
<1> QED BY <1>1, <1>2, FS_Subset, FS_CardinalityType

(* Fewer rows open, fewer slots used. *)
LEMMA FewerOpen ==
  ASSUME NEW ps, NEW qs, OpenSet(qs) \subseteq OpenSet(ps),
         Cardinality(OpenSet(ps)) <= MaxOpenPositions
  PROVE  Cardinality(OpenSet(qs)) <= MaxOpenPositions
<1>1. Cardinality(OpenSet(qs)) <= Cardinality(OpenSet(ps))
  BY OpenSetFinite, FS_Subset
<1> QED BY <1>1, OpenSetFinite, PaperCopyAssumption DEF Positive

-----------------------------------------------------------------------------
(* Steps keep the limits *)

(* A step that moves nothing the limits depend on. *)
LEMMA NothingMoves ==
  ASSUME LimitsInv, SessionInv',
         UNCHANGED <<trades, orders, cash, positions, viewPos, pc, todo, cur>>
  PROVE  LimitsInv'
BY DEF LimitsInv, PositionsWithinLimits, RowsWithinLimits, TodoIsOpen,
       OrderAdmitted, AmountsPositive, InSession, OpenSet, Blocked, PositionOf

(* A step that ends a cycle without touching the positions. *)
LEMMA CycleEnds ==
  ASSUME LimitsInv, SessionInv', AmountsPositive', positions' = positions,
         pc' \in {"idle", "execute"}
  PROVE  LimitsInv'
BY DEF LimitsInv, PositionsWithinLimits, TodoIsOpen, OrderAdmitted, InSession,
       OpenSet

(* The session sees the same rows open as the table. *)
LEMMA SameOpen ==
  ASSUME SessionInv, InSession
  PROVE  OpenSet(viewPos) = OpenSet(positions)
BY DEF SessionInv, SessionCurrent, InSession, OpenSet, Open

LEMMA FlushWithinLimits ==
  ASSUME LimitsInv, InSession, positions' = Flushed
  PROVE  PositionsWithinLimits'
<1>1. SessionInv /\ RowsWithinLimits(viewPos) /\ PositionsWithinLimits
  BY DEF LimitsInv
<1>2. positions' = viewPos
  BY <1>1, FlushedIsView
<1>3. OpenSet(positions') = OpenSet(positions)
  BY <1>1, <1>2, SameOpen
<1> QED BY <1>1, <1>2, <1>3 DEF PositionsWithinLimits, RowsWithinLimits, OpenSet

LEMMA SaleWithinLimits ==
  ASSUME LimitsInv, InSession, NEW p \in Position, NEW q \in Nat,
         NEW price \in Prices, CommitSale(p, q, price)
  PROVE  /\ PositionsWithinLimits'
         /\ positions' = [viewPos EXCEPT ![p] = Sold(viewPos[p], q, price)]
<1> DEFINE row == Sold(viewPos[p], q, price)
<1>1. /\ SessionInv /\ RowsWithinLimits(viewPos)
      /\ Cardinality(OpenSet(positions)) <= MaxOpenPositions
      /\ viewPos \in [Position -> PositionRow] /\ price \in Nat
  BY PaperCopyAssumption
  DEF LimitsInv, PositionsWithinLimits, SessionInv, TypeInv, TypeOK, Positive
<1>2. positions' = [viewPos EXCEPT ![p] = row]
  BY <1>1, FlushedIsView DEF CommitSale
<1>3. RowWithinLimits(row) /\ (Open(row) => Open(viewPos[p]))
  BY <1>1, SoldWithinLimits DEF RowsWithinLimits
<1> HIDE DEF row
<1>4. \A x \in Position : RowWithinLimits(positions'[x])
  BY <1>1, <1>2, <1>3 DEF RowsWithinLimits
<1>5. OpenSet(positions') \subseteq OpenSet(viewPos)
  BY <1>1, <1>2, <1>3 DEF OpenSet
<1>6. Cardinality(OpenSet(positions')) <= MaxOpenPositions
  BY <1>1, <1>5, SameOpen, FewerOpen
<1>7. PositionsWithinLimits'
  BY <1>4, <1>6 DEF PositionsWithinLimits, OpenSet
<1> QED BY <1>2, <1>7 DEF row

(* Aligning or repricing one position, the others stay as they are. *)
LEMMA SaleInPass ==
  ASSUME LimitsInv, SessionInv', NEW p \in todo, NEW q \in Nat,
         NEW price \in Prices, CommitSale(p, q, price),
         KeepViewAfterSale(p, q, price), AmountsPositive',
         \/ pc = "align" /\ pc' = "risk" /\ cur' = p /\ todo' = todo
         \/ pc = "risk" /\ cur = p /\ pc' = "align" /\ todo' = todo \ {p}
  PROVE  LimitsInv'
<1>1. InSession /\ p \in Position /\ viewPos \in [Position -> PositionRow]
      /\ todo \subseteq Position
  BY DEF InSession, LimitsInv, SessionInv, TypeInv, TypeOK
<1>2. /\ PositionsWithinLimits'
      /\ positions' = [viewPos EXCEPT ![p] = Sold(viewPos[p], q, price)]
  BY <1>1, SaleWithinLimits
<1>3. viewPos' = positions'
  BY <1>2 DEF KeepViewAfterSale
<1>4. RowsWithinLimits(viewPos)'
  BY <1>2, <1>3 DEF PositionsWithinLimits, RowsWithinLimits
<1>5. \A x \in todo \ {p} : Open(viewPos[x]) /\ viewPos'[x] = viewPos[x]
  BY <1>1, <1>2, <1>3 DEF LimitsInv, TodoIsOpen
<1>6. TodoIsOpen' /\ OrderAdmitted'
  BY <1>5 DEF TodoIsOpen, OrderAdmitted
<1> QED BY <1>2, <1>4, <1>6 DEF LimitsInv

LEMMA InsertSell ==
  ASSUME LimitsInv, UNCHANGED trades, NEW k, NEW o, o.side = "sell",
         orders' = Insert(k, o)
  PROVE  AmountsPositive'
BY DEF LimitsInv, AmountsPositive, Insert

LEMMA UpdateOrder ==
  ASSUME LimitsInv, UNCHANGED trades, NEW k \in DOMAIN orders, NEW o,
         o.side = orders[k].side, o.amount = orders[k].amount,
         orders' = [orders EXCEPT ![k] = o]
  PROVE  AmountsPositive'
BY DEF LimitsInv, AmountsPositive

LEMMA StatusAmounts ==
  ASSUME LimitsInv, UNCHANGED trades, NEW k \in DOMAIN orders, NEW status,
         orders' = [orders EXCEPT ![k].status = status]
  PROVE  AmountsPositive'
<1> DEFINE o == [orders[k] EXCEPT !.status = status]
<1>1. orders[k] \in OrderRow
  BY PositionOfOrder DEF LimitsInv, SessionInv
<1>2. o.side = orders[k].side /\ o.amount = orders[k].amount
  BY <1>1 DEF OrderRow
<1>3. orders' = [orders EXCEPT ![k] = o]
  OBVIOUS
<1> HIDE DEF o
<1> QED BY <1>2, <1>3, UpdateOrder

LEMMA PassKeepsLimits ==
  ASSUME LimitsInv, SessionInv', Reconcile
  PROVE  LimitsInv'
<1> USE DEF envVars, dbVars, viewVars, passVars
<1>1. /\ SessionInv /\ AmountsPositive /\ PositionsWithinLimits
      /\ todo \subseteq Position /\ viewPos \in [Position -> PositionRow]
      /\ seen \in [Token -> Nat]
  BY DEF LimitsInv, SessionInv, TypeInv, TypeOK
<1>2. CASE StartReconcile
  BY <1>1, <1>2
  DEF StartReconcile, Load, LimitsInv, PositionsWithinLimits, RowsWithinLimits,
      TodoIsOpen, OrderAdmitted, AmountsPositive, OpenSet
<1>3. ASSUME NEW w \in Wallet, FetchBalances(w) PROVE LimitsInv'
  BY <1>3, NothingMoves DEF FetchBalances
<1>4. ASSUME NEW p \in todo, TrackSource(p) PROVE LimitsInv'
  <2>1. /\ InSession /\ pc = "align" /\ p \in Position /\ Actual(p) >= viewPos[p].src
        /\ Actual(p) \in Nat /\ Open(viewPos[p])
    BY <1>1, <1>4 DEF TrackSource, Aligning, Tracked, Actual, InSession, LimitsInv,
                      TodoIsOpen, Position
  <2>2. viewPos' = [viewPos EXCEPT ![p].src = Actual(p)]
    BY <1>4 DEF TrackSource
  <2>3. RowWithinLimits(viewPos[p]) /\ viewPos[p].src > 0 /\ viewPos[p].src \in Nat
    BY <1>1, <2>1, OpenRow DEF LimitsInv, RowsWithinLimits, PositionRow
  <2>4. RowWithinLimits([viewPos[p] EXCEPT !.src = Actual(p)])
    <3>1. Actual(p) > 0
      BY <2>1, <2>3
    <3>2. viewPos[p] \in PositionRow
      BY <1>1, <2>1
    <3> QED BY <2>1, <2>3, <3>1, <3>2, OpenRow DEF RowWithinLimits, PositionRow, Open
  <2>5. RowsWithinLimits(viewPos)'
    BY <1>1, <2>1, <2>2, <2>4 DEF LimitsInv, RowsWithinLimits
  <2>6. \A x \in todo \ {p} : Open(viewPos'[x])
    BY <1>1, <2>1, <2>2 DEF LimitsInv, TodoIsOpen
  <2> QED BY <1>1, <1>4, <2>5, <2>6
          DEF TrackSource, LimitsInv, PositionsWithinLimits, TodoIsOpen,
              OrderAdmitted, AmountsPositive, OpenSet
<1>5. ASSUME NEW p \in todo, ReducePending(p) PROVE LimitsInv'
  <2>1. InSession /\ PositionsWithinLimits'
    BY <1>5, FlushWithinLimits DEF ReducePending, Shrunk, Aligning, InSession
  <2>2. ReduceOrder(p, "pending").side = "sell"
    BY DEF ReduceOrder, NewOrder
  <2>3. AmountsPositive'
    BY <1>5, <2>2, InsertSell DEF ReducePending
  <2>4. TodoIsOpen' /\ OrderAdmitted' /\ RowsWithinLimits(viewPos)'
    BY <1>5, <2>1
    DEF ReducePending, Shrunk, Aligning, LimitsInv, TodoIsOpen, OrderAdmitted,
        RowsWithinLimits
  <2> QED BY <2>1, <2>3, <2>4 DEF LimitsInv
<1>6. ASSUME NEW p \in todo, NEW price \in Prices, ReduceFilled(p, price)
      PROVE  LimitsInv'
  <2> DEFINE q == SellQuantity(viewPos[p], Tracked(p) - Actual(p))
  <2>1. Tracked(p) - Actual(p) \in Nat /\ p \in Position
    BY <1>1, <1>6 DEF ReduceFilled, Shrunk, Tracked, Actual, PositionRow, Position
  <2>2. q \in Nat
    BY <1>1, <2>1, SellQuantityWithin DEF PositionRow
  <2>3. ReduceOrder(p, "filled").side = "sell"
    BY DEF ReduceOrder, NewOrder
  <2>4. AmountsPositive'
    BY <1>6, <2>3, InsertSell DEF ReduceFilled
  <2>5. /\ CommitSale(p, q, price) /\ KeepViewAfterSale(p, q, price)
        /\ pc = "align" /\ pc' = "risk" /\ cur' = p /\ todo' = todo
    BY <1>6 DEF ReduceFilled, Shrunk, Aligning
  <2> HIDE DEF q
  <2> QED BY <2>2, <2>4, <2>5, SaleInPass
<1>7. ASSUME NEW p \in todo, ReduceCollides(p) PROVE LimitsInv'
  <2>1. AmountsPositive'
    BY <1>1, <1>7 DEF ReduceCollides, AmountsPositive
  <2> QED BY <1>7, <2>1, CycleEnds DEF ReduceCollides
<1>8. CASE RiskUnpriced
  BY <1>8 DEF RiskUnpriced, RiskDone, LimitsInv, PositionsWithinLimits,
              RowsWithinLimits, TodoIsOpen, OrderAdmitted, AmountsPositive,
              InSession, OpenSet
<1>9. ASSUME NEW p \in todo, NEW price \in Prices, RiskHold(p, price)
      PROVE  LimitsInv'
  <2> DEFINE row == Repriced(viewPos[p], price)
  <2>1. /\ InSession /\ pc = "risk" /\ p = cur /\ p \in Position
        /\ Open(viewPos[p]) /\ viewPos[p].cost > 0 /\ price \in Positive
    BY <1>1, <1>9, PaperCopyAssumption DEF RiskHold, CanReprice, InSession
  <2>2. viewPos' = [viewPos EXCEPT ![p] = row]
    BY <1>9 DEF RiskHold
  <2>3. /\ row.src = viewPos[p].src /\ row.qty = viewPos[p].qty
        /\ row.cost = viewPos[p].cost /\ row.buys = viewPos[p].buys
    BY <1>1, <2>1, RepricedRow
  <2>4. RowWithinLimits(viewPos[p])
    BY <2>1 DEF LimitsInv, RowsWithinLimits
  <2>5. RowWithinLimits(row)
    BY <2>1, <2>3, <2>4, OpenRow DEF RowWithinLimits, Open
  <2> HIDE DEF row
  <2>6. RowsWithinLimits(viewPos)'
    BY <1>1, <2>1, <2>2, <2>5 DEF LimitsInv, RowsWithinLimits
  <2>7. \A x \in todo \ {p} : Open(viewPos'[x])
    BY <1>1, <2>1, <2>2 DEF LimitsInv, TodoIsOpen
  <2> QED BY <1>1, <1>9, <2>1, <2>6, <2>7
          DEF RiskHold, RiskDone, LimitsInv, PositionsWithinLimits, TodoIsOpen,
              OrderAdmitted, AmountsPositive, OpenSet
<1>10. ASSUME NEW p \in todo, NEW price \in Prices, RiskExit(p, price)
       PROVE  LimitsInv'
  <2> DEFINE q == viewPos[p].qty
             o == NewOrder(p, "sell", viewPos[p].src, now, now, "filled")
  <2>1. q \in Nat /\ o.side = "sell"
    BY <1>1 DEF PositionRow, NewOrder
  <2>2. orders' = Insert(ExitKey(p), o) /\ UNCHANGED trades
    BY <1>10 DEF RiskExit
  <2>3. /\ CommitSale(p, q, price) /\ KeepViewAfterSale(p, q, price)
        /\ pc = "risk" /\ cur = p /\ pc' = "align" /\ todo' = todo \ {p}
    BY <1>10 DEF RiskExit, CanReprice, RiskDone
  <2> HIDE DEF q, o
  <2>4. AmountsPositive'
    BY <2>1, <2>2, InsertSell
  <2> QED BY <2>1, <2>3, <2>4, SaleInPass
<1>11. CASE FinishReconcile
  <2>1. PositionsWithinLimits'
    BY <1>11, FlushWithinLimits DEF FinishReconcile, InSession
  <2> QED BY <1>1, <1>11, <2>1
          DEF FinishReconcile, LimitsInv, TodoIsOpen, OrderAdmitted,
              AmountsPositive, InSession
<1> QED BY <1>2, <1>3, <1>4, <1>5, <1>6, <1>7, <1>8, <1>9, <1>10, <1>11
        DEF Reconcile

(* The order in hand was admitted when it was read, and nothing that could
   refuse it has moved since. *)
LEMMA BuyWithinLimits ==
  ASSUME LimitsInv, NEW k \in DOMAIN orders, NEW price \in Prices,
         FillBuy(k, price)
  PROVE  PositionsWithinLimits'
<1> DEFINE o == orders[k]
           p == PositionOf(k)
           value == BuyValue(o.amount, price, viewCash)
           row == Bought(viewPos[p], o.amount, value, price)
<1>1. /\ k = cur /\ pc = "order" /\ InSession /\ o.side = "buy"
      /\ value \div price > 0 /\ positions' = [positions EXCEPT ![p] = row]
  BY DEF FillBuy, InHand, InSession
<1>2. /\ SessionInv /\ PositionsWithinLimits /\ RowsWithinLimits(viewPos)
      /\ ~Blocked(o, positions[p]) /\ o.amount > 0
  BY <1>1 DEF LimitsInv, OrderAdmitted, AmountsPositive
<1>3. /\ p \in Position /\ o.amount \in Positive /\ price \in Positive
      /\ viewCash \in Nat /\ positions \in [Position -> PositionRow]
      /\ viewPos \in [Position -> PositionRow]
  BY <1>2, PositionOfOrder, PaperCopyAssumption
  DEF SessionInv, TypeInv, TypeOK, OrderRow, Positive
<1>4. value \in Nat /\ value <= Allocation
  BY <1>3, BuyValueWithin DEF Positive
<1>5. Open(viewPos[p]) <=> Open(positions[p])
  BY <1>1, <1>2, <1>3 DEF SessionInv, SessionCurrent, InSession, Open
<1>6. /\ Open(positions[p]) => ~(positions[p].buys >= MaxBuys)
      /\ ~Open(positions[p]) => ~(Cardinality(OpenSet(positions)) >= MaxOpenPositions)
  BY <1>1, <1>2 DEF Blocked, LimitReached
<1>7. Open(viewPos[p]) => viewPos[p].buys < MaxBuys
  <2>1. viewPos[p].buys = positions[p].buys /\ positions[p].buys \in Nat
    BY <1>1, <1>2, <1>3 DEF SessionInv, SessionCurrent, InSession, PositionRow
  <2> QED BY <1>5, <1>6, <2>1, PaperCopyAssumption DEF Positive
<1> HIDE DEF o, p, value
<1>8. RowWithinLimits(row)
  BY <1>1, <1>2, <1>3, <1>4, <1>7, BoughtWithinLimits DEF RowsWithinLimits
<1> HIDE DEF row
<1>9. \A x \in Position : RowWithinLimits(positions'[x])
  BY <1>1, <1>2, <1>3, <1>8 DEF PositionsWithinLimits
<1>10. Cardinality(OpenSet(positions')) <= MaxOpenPositions
  <2>1. Cardinality(OpenSet(positions)) <= MaxOpenPositions
    BY <1>2 DEF PositionsWithinLimits
  <2>2. CASE Open(positions[p])
    <3>1. OpenSet(positions') \subseteq OpenSet(positions)
      BY <1>1, <1>3, <2>2 DEF OpenSet
    <3> QED BY <2>1, <3>1, FewerOpen
  <2>3. CASE ~Open(positions[p])
    <3>1. OpenSet(positions') \subseteq OpenSet(positions) \cup {p}
      BY <1>1, <1>3 DEF OpenSet
    <3>2. /\ IsFiniteSet(OpenSet(positions) \cup {p})
          /\ Cardinality(OpenSet(positions) \cup {p})
               = Cardinality(OpenSet(positions)) + 1
      <4>1. IsFiniteSet(OpenSet(positions)) /\ p \notin OpenSet(positions)
        BY <2>3, OpenSetFinite DEF OpenSet
      <4> QED BY <4>1, FS_AddElement
    <3>3. Cardinality(OpenSet(positions'))
            <= Cardinality(OpenSet(positions) \cup {p})
      BY <3>1, <3>2, FS_Subset
    <3>4. /\ Cardinality(OpenSet(positions)) \in Nat
          /\ Cardinality(OpenSet(positions')) \in Nat
          /\ Cardinality(OpenSet(positions) \cup {p}) \in Nat
      BY <3>2, OpenSetFinite, FS_CardinalityType
    <3> QED BY <1>6, <2>3, <3>2, <3>3, <3>4, PaperCopyAssumption DEF Positive
  <2> QED BY <2>2, <2>3
<1> QED BY <1>9, <1>10 DEF PositionsWithinLimits, OpenSet

LEMMA ExecuteKeepsLimits ==
  ASSUME LimitsInv, SessionInv', ExecuteNext
  PROVE  LimitsInv'
<1> USE DEF envVars, dbVars, viewVars, passVars
<1>1. /\ SessionInv /\ TypeInv /\ AmountsPositive /\ PositionsWithinLimits
      /\ viewPos \in [Position -> PositionRow]
  BY DEF LimitsInv, SessionInv, TypeInv, TypeOK
<1>2. CASE NothingDue
  BY <1>1, <1>2, CycleEnds DEF NothingDue, AmountsPositive
<1>3. ASSUME NEW k \in DOMAIN orders, SkipDue(k) \/ RejectBuy(k)
      PROVE  LimitsInv'
  <2>1. /\ orders' = [orders EXCEPT ![k].status = "skipped"]
        /\ UNCHANGED <<trades, positions>> /\ pc' = "idle"
    BY <1>3 DEF SkipDue, RejectBuy
  <2> QED BY <2>1, StatusAmounts, CycleEnds
<1>4. ASSUME NEW k \in DOMAIN orders, BeginOrder(k) PROVE LimitsInv'
  <2>1. OrderAdmitted'
    BY <1>4 DEF BeginOrder, OrderAdmitted, Blocked, PositionOf, OpenSet
  <2> QED BY <1>1, <1>4, <2>1
          DEF BeginOrder, Load, LimitsInv, PositionsWithinLimits,
              RowsWithinLimits, TodoIsOpen, AmountsPositive, OpenSet
<1>5. ASSUME NEW k \in DOMAIN orders, DeferOrder(k) PROVE LimitsInv'
  <2> DEFINE o == Deferred(orders[k])
  <2>1. orders[k] \in OrderRow
    BY <1>1, PositionOfOrder
  <2>2. o.side = orders[k].side /\ o.amount = orders[k].amount
    BY <2>1 DEF Deferred, OrderRow
  <2>3. orders' = [orders EXCEPT ![k] = o] /\ pc' = "idle"
        /\ UNCHANGED <<trades, positions>>
    BY <1>5 DEF DeferOrder
  <2> HIDE DEF o
  <2> QED BY <2>2, <2>3, UpdateOrder, CycleEnds
<1>6. ASSUME NEW k \in DOMAIN orders, NEW price \in Prices, FillBuy(k, price)
      PROVE  LimitsInv'
  <2>1. /\ orders' = [orders EXCEPT ![k].status = "filled"]
        /\ UNCHANGED trades /\ pc' = "idle"
    BY <1>6 DEF FillBuy
  <2> QED BY <1>6, <2>1, BuyWithinLimits, StatusAmounts
          DEF LimitsInv, TodoIsOpen, OrderAdmitted, InSession
<1>7. ASSUME NEW k \in DOMAIN orders, NEW price \in Prices, FillSell(k, price)
      PROVE  LimitsInv'
  <2> DEFINE p == PositionOf(k)
             q == SellQuantity(viewPos[p], orders[k].amount)
  <2>1. /\ orders' = [orders EXCEPT ![k].status = "filled"]
        /\ UNCHANGED trades /\ pc' = "idle" /\ InSession
        /\ CommitSale(p, q, price)
    BY <1>7 DEF FillSell, InHand, InSession
  <2>2. p \in Position /\ orders[k].amount \in Nat
    BY <1>1, PositionOfOrder DEF OrderRow
  <2>3. q \in Nat
    BY <1>1, <2>2, SellQuantityWithin DEF PositionRow
  <2> HIDE DEF p, q
  <2> QED BY <2>1, <2>2, <2>3, SaleWithinLimits, StatusAmounts
          DEF LimitsInv, TodoIsOpen, OrderAdmitted, InSession
<1> QED BY <1>2, <1>3, <1>4, <1>5, <1>6, <1>7 DEF ExecuteNext

LEMMA LimitsStep == LimitsInv /\ SessionInv' /\ [Next]_vars => LimitsInv'
<1> SUFFICES ASSUME LimitsInv, SessionInv', [Next]_vars PROVE LimitsInv'
  OBVIOUS
<1> USE DEF envVars, dbVars, viewVars, passVars
<1>1. AmountsPositive /\ IsTable(orders, OrderRow) /\ \A tr \in trades : tr \in TradeRow
  BY DEF LimitsInv, SessionInv, TypeInv, TypeOK
<1>2. ASSUME NEW sig \in Sig, NEW w \in Wallet, NEW t \in Token,
             NEW side \in {"buy", "sell"}, NEW amount \in Amounts,
             SourceTrade(sig, w, t, side, amount)
      PROVE  LimitsInv'
  <2>1. amount > 0
    BY PaperCopyAssumption DEF Positive
  <2>2. AmountsPositive'
    BY <1>1, <1>2, <2>1 DEF SourceTrade, AmountsPositive
  <2> QED BY <1>2, <2>2
          DEF SourceTrade, LimitsInv, PositionsWithinLimits, RowsWithinLimits,
              TodoIsOpen, OrderAdmitted, InSession, OpenSet, Blocked, PositionOf
<1>3. ASSUME NEW tr \in trades, EnqueueTrade(tr) PROVE LimitsInv'
  <2> DEFINE k == <<tr.sig, tr.token>>
             o == NewOrder(<<tr.wallet, tr.token>>, tr.side, tr.amount,
                           tr.at, now + ReactionDelay, "pending")
  <2>1. orders' = Insert(k, o) /\ UNCHANGED trades /\ pc # "order" /\ pc' = pc
    BY <1>3 DEF EnqueueTrade
  <2>2. o.amount > 0
    BY <1>1 DEF AmountsPositive, NewOrder
  <2> HIDE DEF o, k
  <2>3. AmountsPositive'
    BY <1>1, <2>1, <2>2 DEF AmountsPositive, Insert
  <2> QED BY <1>3, <2>1, <2>3
          DEF EnqueueTrade, LimitsInv, PositionsWithinLimits, RowsWithinLimits,
              TodoIsOpen, OrderAdmitted, InSession, OpenSet
<1>4. CASE Tick \/ ReconcileTimer \/ UNCHANGED vars
  BY <1>4, NothingMoves DEF Tick, ReconcileTimer, vars
<1>5. CASE CycleFails \/ Crash
  BY <1>1, <1>5, CycleEnds DEF CycleFails, Crash, AmountsPositive
<1> QED BY <1>2, <1>3, <1>4, <1>5, PassKeepsLimits, ExecuteKeepsLimits
        DEF Next, Source, Queue, Executor

LEMMA LimitsInit == Init => LimitsInv
<1> SUFFICES ASSUME Init PROVE LimitsInv
  OBVIOUS
<1>1. SessionInv
  BY TypeInit DEF Init, SessionInv, SessionCurrent
<1>2. OpenSet(positions) = {}
  BY DEF Init, EmptyView, NoPosition, OpenSet, Open
<1>3. Cardinality(OpenSet(positions)) <= MaxOpenPositions
  BY <1>2, FS_EmptySet, PaperCopyAssumption DEF Positive
<1>4. RowsWithinLimits(positions)
  BY DEF Init, EmptyView, RowsWithinLimits, RowWithinLimits
<1> QED BY <1>1, <1>3, <1>4
        DEF Init, LimitsInv, PositionsWithinLimits, RowsWithinLimits,
            TodoIsOpen, OrderAdmitted, AmountsPositive, InSession

(* A portfolio never holds more positions than it may, and each open one has
   a cost, a tracked source and at most MaxBuys buys of one allocation each,
   however the quotes, the passes and the deliveries interleave. *)
THEOREM LimitsHold == Spec => []PositionsWithinLimits
<1>1. Init => LimitsInv
  BY LimitsInit
<1>2. LimitsInv /\ [Next]_vars => LimitsInv'
  BY TypeStep, SessionStep, LimitsStep DEF LimitsInv, SessionInv
<1>3. LimitsInv => PositionsWithinLimits
  BY DEF LimitsInv
<1> QED BY <1>1, <1>2, <1>3, PTL DEF Spec

-----------------------------------------------------------------------------
(* Sums over finite sets.  SumFunctionOnSet is defined by recursion over the subsets
   of a finite set; that such a function exists, and what it computes, is proved by
   induction on those subsets, in the form that every non-empty set of them has a
   minimal one. *)

Chosen(s) == CHOOSE x \in s : TRUE

(* it computes, for every subset of S, the sum of f over it. *)
SumsUp(it, f, S) ==
  it = [s \in SUBSET S |-> IF s = {} THEN 0 ELSE f[Chosen(s)] + it[s \ {Chosen(s)}]]

LEMMA SumIsChosen ==
  ASSUME NEW f, NEW S
  PROVE  SumFunctionOnSet(f, S) = (CHOOSE it : SumsUp(it, f, S))[S]
BY DEF SumFunctionOnSet, FoldFunctionOnSet, MapThenFoldSet, SumsUp, Chosen

LEMMA SubsetInduction ==
  ASSUME NEW S, IsFiniteSet(S), NEW T \in SUBSET SUBSET S, T # {}
  PROVE  \E x \in T : \A y \in T : ~ (y \subseteq x /\ y # x)
<1>1. IsWellFoundedOn(StrictSubsetOrdering(S), SUBSET S)
  BY FS_StrictSubsetOrderingWellFounded, FS_FiniteSubsetsOfFinite
<1>2. \E x \in T : \A y \in T : ~ (<<y, x>> \in StrictSubsetOrdering(S))
  BY <1>1, WFMin
<1> QED BY <1>2 DEF StrictSubsetOrdering

(* A non-empty set of numbers has a least one. *)
LEMMA LeastNumber ==
  ASSUME NEW T \in SUBSET Nat, T # {}
  PROVE  \E x \in T : \A y \in T : x <= y
<1>1. PICK t \in T : TRUE
  OBVIOUS
<1> DEFINE I == {0 .. k : k \in {n \in T : n <= t}}
<1>2. I \in SUBSET SUBSET (0 .. t) /\ I # {}
  <2>1. 0 .. t \in I
    BY <1>1
  <2> QED BY <2>1
<1>3. IsFiniteSet(0 .. t)
  BY FS_Interval
<1>4. PICK s \in I : \A y \in I : ~ (y \subseteq s /\ y # s)
  <2> DEFINE R == 0 .. t
  <2>1. I \in SUBSET SUBSET R /\ I # {} /\ IsFiniteSet(R)
    BY <1>2, <1>3
  <2> HIDE DEF I, R
  <2> QED BY <2>1, SubsetInduction
<1>5. PICK k \in T : k <= t /\ s = 0 .. k
  BY <1>4
<1>6. ASSUME NEW y \in T, y < k PROVE FALSE
  <2>1. 0 .. y \in I
    BY <1>5, <1>6
  <2>2. 0 .. y \subseteq 0 .. k /\ k \in 0 .. k /\ k \notin 0 .. y
    BY <1>6
  <2> QED BY <1>4, <1>5, <2>1, <2>2
<1> QED BY <1>5, <1>6

(* The sums exist, so that the recursion which defines them can be unfolded. *)
LEMMA SumsExist ==
  ASSUME NEW f, NEW S, IsFiniteSet(S)
  PROVE  \E it : SumsUp(it, f, S)
<1> DEFINE Small(n) == {s \in SUBSET S : Cardinality(s) <= n}
           Step(it, s) == IF s = {} THEN 0 ELSE f[Chosen(s)] + it[s \ {Chosen(s)}]
           Sums(it, n) == it = [s \in Small(n) |-> Step(it, s)]
           Bad == {n \in Nat : ~ \E it : Sums(it, n)}
<1>1. \A s \in SUBSET S : IsFiniteSet(s) /\ Cardinality(s) \in Nat
                           /\ Cardinality(s) <= Cardinality(S)
  BY FS_Subset, FS_CardinalityType
<1>2. \A s \in SUBSET S : s # {} =>
        /\ Chosen(s) \in s /\ s \ {Chosen(s)} \in SUBSET S
        /\ Cardinality(s \ {Chosen(s)}) = Cardinality(s) - 1
  BY <1>1, FS_RemoveElement DEF Chosen
<1>3. \E it : Sums(it, 0)
  <2>1. Small(0) = {{}}
    BY <1>1, FS_EmptySet
  <2>2. Sums([s \in {{}} |-> 0], 0)
    BY <2>1
  <2> QED BY <2>2
<1>4. ASSUME NEW n \in Nat, NEW it, Sums(it, n)
      PROVE  \E new : Sums(new, n + 1)
  <2> DEFINE new == [s \in Small(n + 1) |-> Step(it, s)]
  <2>1. ASSUME NEW s \in Small(n) PROVE new[s] = it[s]
    <3>1. s \in Small(n + 1)
      BY <1>1
    <3> QED BY <1>4, <3>1
  <2>2. ASSUME NEW s \in Small(n + 1) PROVE new[s] = Step(new, s)
    <3>1. CASE s = {}
      BY <3>1
    <3>2. CASE s # {}
      <4>1. s \ {Chosen(s)} \in Small(n)
        BY <1>1, <1>2, <3>2
      <4>2. new[s \ {Chosen(s)}] = it[s \ {Chosen(s)}]
        BY <2>1, <4>1
      <4> QED BY <3>2, <4>2
    <3> QED BY <3>1, <3>2
  <2>3. new = [s \in Small(n + 1) |-> Step(new, s)]
    BY <2>2
  <2> QED BY <2>3
<1>5. Bad = {}
  <2> SUFFICES ASSUME Bad # {} PROVE FALSE
    OBVIOUS
  <2>1. PICK n \in Bad : \A m \in Bad : n <= m
    <3> HIDE DEF Bad
    <3>1. Bad \in SUBSET Nat
      BY DEF Bad
    <3> QED BY <3>1, LeastNumber
  <2> HIDE DEF Sums
  <2>2. n \in Nat /\ ~ \E it : Sums(it, n)
    OBVIOUS
  <2>3. n # 0
    BY <1>3, <2>2
  <2>4. n - 1 \in Nat /\ n = (n - 1) + 1 /\ ~(n <= n - 1)
    BY <2>2, <2>3
  <2>5. n - 1 \notin Bad
    <3> HIDE DEF Bad
    <3> QED BY <2>1, <2>4
  <2>6. \E it : Sums(it, n - 1)
    BY <2>4, <2>5
  <2>7. \E it : Sums(it, (n - 1) + 1)
    BY <1>4, <2>4, <2>6
  <2> QED BY <2>2, <2>4, <2>7
<1>6. PICK it : Sums(it, Cardinality(S))
  <2>1. Cardinality(S) \in Nat
    BY FS_CardinalityType
  <2> HIDE DEF Sums
  <2> QED BY <1>5, <2>1
<1>7. Small(Cardinality(S)) = SUBSET S
  BY <1>1
<1> QED BY <1>6, <1>7 DEF SumsUp

(* A sum is taken one element at a time, in an order that f has no part in. *)
IsSumOf(it, f, S) ==
  /\ it[{}] = 0
  /\ \A s \in SUBSET S : s # {} =>
       Chosen(s) \in s /\ it[s] = f[Chosen(s)] + it[s \ {Chosen(s)}]

LEMMA SumUnfolds ==
  ASSUME NEW f, NEW S, IsFiniteSet(S)
  PROVE  \E it : SumFunctionOnSet(f, S) = it[S] /\ IsSumOf(it, f, S)
<1> DEFINE it == CHOOSE g : SumsUp(g, f, S)
<1>1. SumFunctionOnSet(f, S) = it[S]
  BY SumIsChosen
<1>2. SumsUp(it, f, S)
  BY SumsExist
<1> HIDE DEF it
<1>3. \A s \in SUBSET S : it[s] = IF s = {} THEN 0 ELSE f[Chosen(s)] + it[s \ {Chosen(s)}]
  BY <1>2 DEF SumsUp
<1>4. \A s \in SUBSET S : s # {} => Chosen(s) \in s
  BY DEF Chosen
<1>5. it[{}] = 0
  BY <1>3
<1> QED BY <1>1, <1>3, <1>4, <1>5 DEF IsSumOf

(* A sum of zeros is zero. *)
LEMMA SumOfZeros ==
  ASSUME NEW f, NEW S, IsFiniteSet(S), \A x \in S : f[x] = 0
  PROVE  SumFunctionOnSet(f, S) = 0
<1>1. PICK it : SumFunctionOnSet(f, S) = it[S] /\ IsSumOf(it, f, S)
  BY SumUnfolds
<1> DEFINE Bad == {s \in SUBSET S : it[s] # 0}
<1>2. ASSUME Bad # {} PROVE FALSE
  <2>1. PICK s \in Bad : \A y \in Bad : ~ (y \subseteq s /\ y # s)
    <3>1. Bad \in SUBSET SUBSET S
      OBVIOUS
    <3> HIDE DEF Bad
    <3> QED BY <1>2, <3>1, SubsetInduction
  <2>2. s \in SUBSET S /\ s # {} /\ it[s] # 0
    BY <1>1 DEF IsSumOf
  <2>3. Chosen(s) \in s /\ it[s] = f[Chosen(s)] + it[s \ {Chosen(s)}]
    BY <1>1, <2>2 DEF IsSumOf
  <2>4. it[s \ {Chosen(s)}] = 0
    BY <2>1, <2>2, <2>3
  <2> QED BY <2>2, <2>3, <2>4
<1> QED BY <1>1, <1>2

(* A sum of integers changes by what one of them changes. *)
LEMMA SumChanges ==
  ASSUME NEW f, NEW g, NEW S, IsFiniteSet(S), NEW p \in S,
         \A x \in S : f[x] \in Int /\ g[x] \in Int,
         \A x \in S \ {p} : g[x] = f[x]
  PROVE  /\ SumFunctionOnSet(f, S) \in Int /\ SumFunctionOnSet(g, S) \in Int
         /\ SumFunctionOnSet(g, S) = SumFunctionOnSet(f, S) + g[p] - f[p]
<1>1. PICK F : SumFunctionOnSet(f, S) = F[S] /\ IsSumOf(F, f, S)
  BY SumUnfolds
<1>2. PICK G : SumFunctionOnSet(g, S) = G[S] /\ IsSumOf(G, g, S)
  BY SumUnfolds
<1> DEFINE Agree(s) == /\ F[s] \in Int /\ G[s] \in Int
                       /\ G[s] = F[s] + (IF p \in s THEN g[p] - f[p] ELSE 0)
           Bad == {s \in SUBSET S : ~ Agree(s)}
<1>3. ASSUME Bad # {} PROVE FALSE
  <2>1. PICK s \in Bad : \A y \in Bad : ~ (y \subseteq s /\ y # s)
    <3>1. Bad \in SUBSET SUBSET S
      OBVIOUS
    <3> HIDE DEF Bad
    <3> QED BY <1>3, <3>1, SubsetInduction
  <2>2. s \in SUBSET S /\ s # {} /\ ~ Agree(s)
    <3>1. F[{}] = 0 /\ G[{}] = 0 /\ p \notin {}
      BY <1>1, <1>2 DEF IsSumOf
    <3>2. Agree({})
      BY <3>1
    <3>3. s \in SUBSET S /\ ~ Agree(s)
      OBVIOUS
    <3> HIDE DEF Agree
    <3> QED BY <3>2, <3>3
  <2> DEFINE x == Chosen(s)
             rest == s \ {x}
  <2>3. x \in s /\ F[s] = f[x] + F[rest] /\ G[s] = g[x] + G[rest]
    BY <1>1, <1>2, <2>2 DEF IsSumOf
  <2> HIDE DEF x
  <2>4. Agree(rest)
    BY <2>1, <2>2, <2>3
  <2>5. x \in S /\ f[x] \in Int /\ g[x] \in Int
    BY <2>2, <2>3
  <2>6. CASE x = p
    BY <2>2, <2>3, <2>4, <2>5, <2>6
  <2>7. CASE x # p
    BY <2>2, <2>3, <2>4, <2>5, <2>7
  <2> QED BY <2>6, <2>7
<1>4. Agree(S)
  BY <1>3
<1> QED BY <1>1, <1>2, <1>4

-----------------------------------------------------------------------------
(* What is invested is the cost of the positions *)

BooksInv == LimitsInv /\ CashBalance /\ invested = CostOf(positions, Position)

CostsKept ==
  /\ \A x \in Position : positions'[x].cost = positions[x].cost
  /\ invested' = invested

CostMoves(p) ==
  /\ \A x \in Position \ {p} : positions'[x].cost = positions[x].cost
  /\ invested' = invested + positions'[p].cost - positions[p].cost

LEMMA PositionsFinite == IsFiniteSet(Position)
BY FS_Product, PaperCopyAssumption DEF Position

LEMMA InvestedFollows ==
  ASSUME BooksInv, TypeInv', CostsKept \/ \E p \in Position : CostMoves(p)
  PROVE  invested' = CostOf(positions', Position)
<1> DEFINE costs == [p \in Position |-> positions[p].cost]
           after == [p \in Position |-> positions'[p].cost]
<1>1. \A p \in Position : costs[p] \in Int /\ after[p] \in Int
  BY DEF BooksInv, LimitsInv, SessionInv, TypeInv, TypeOK, PositionRow
<1>2. CASE CostsKept
  <2>1. after = costs
    BY <1>2 DEF CostsKept
  <2> QED BY <1>2, <2>1 DEF CostsKept, BooksInv, CostOf
<1>3. ASSUME NEW p \in Position, CostMoves(p)
      PROVE  invested' = CostOf(positions', Position)
  <2>1. \A x \in Position \ {p} : after[x] = costs[x]
    BY <1>3 DEF CostMoves
  <2>2. invested' = invested + after[p] - costs[p]
    BY <1>3 DEF CostMoves
  <2>3. invested = SumFunctionOnSet(costs, Position)
    BY DEF BooksInv, CostOf
  <2>4. CostOf(positions', Position) = SumFunctionOnSet(after, Position)
    BY DEF CostOf
  <2> HIDE DEF costs, after
  <2>5. SumFunctionOnSet(after, Position)
          = SumFunctionOnSet(costs, Position) + after[p] - costs[p]
    BY <1>1, <2>1, PositionsFinite, SumChanges
  <2> QED BY <2>2, <2>3, <2>4, <2>5
<1> QED BY <1>2, <1>3

(* A sale takes out of the cost what it releases, a flush nothing. *)
LEMMA FlushKeepsCosts ==
  ASSUME TypeInv, NEW x \in Position
  PROVE  Flushed[x].cost = positions[x].cost
<1>1. positions[x] \in PositionRow
  BY DEF TypeInv, TypeOK
<1> QED BY <1>1 DEF Flushed, PositionRow

LEMMA SaleMovesCost ==
  ASSUME SessionInv, InSession, NEW p \in Position, NEW q \in Nat,
         NEW price \in Prices, CommitSale(p, q, price)
  PROVE  CostMoves(p)
<1> DEFINE row == Sold(viewPos[p], q, price)
<1>1. /\ viewPos[p] \in PositionRow /\ positions[p] \in PositionRow
      /\ viewPos[p].cost = positions[p].cost /\ invested \in Int
      /\ positions \in [Position -> PositionRow] /\ viewPos \in [Position -> PositionRow]
  BY DEF SessionInv, SessionCurrent, InSession, TypeInv, TypeOK
<1>2. Released(viewPos[p], q) \in 0 .. viewPos[p].cost
  BY <1>1, ReleasedWithin
<1>3. row.cost = viewPos[p].cost - Released(viewPos[p], q)
  <2>1. CASE q >= viewPos[p].qty
    BY <1>1, <2>1 DEF Sold, Released, NoPosition, PositionRow
  <2>2. CASE ~(q >= viewPos[p].qty)
    BY <1>1, <1>2, <2>2 DEF Sold, PositionRow
  <2> QED BY <2>1, <2>2
<1>4. positions' = [Flushed EXCEPT ![p] = row]
      /\ invested' = invested - Released(viewPos[p], q)
  BY DEF CommitSale
<1> HIDE DEF row
<1>5. Flushed \in [Position -> PositionRow]
  BY <1>1, FlushedRows
<1>6. positions'[p] = row
  BY <1>4, <1>5
<1>7. \A x \in Position \ {p} : positions'[x].cost = positions[x].cost
  BY <1>4, <1>5, FlushKeepsCosts DEF SessionInv
<1>8. invested' = invested + positions'[p].cost - positions[p].cost
  BY <1>1, <1>2, <1>3, <1>4, <1>6 DEF PositionRow
<1> QED BY <1>7, <1>8 DEF CostMoves

LEMMA BuyMovesCost ==
  ASSUME LimitsInv, NEW k \in DOMAIN orders, NEW price \in Prices, FillBuy(k, price)
  PROVE  CostMoves(PositionOf(k))
<1> DEFINE p == PositionOf(k)
           o == orders[k]
           value == BuyValue(o.amount, price, viewCash)
           row == Bought(viewPos[p], o.amount, value, price)
<1>1. /\ p \in Position /\ o \in OrderRow /\ viewPos[p] \in PositionRow
      /\ positions \in [Position -> PositionRow] /\ invested \in Int /\ viewCash \in Nat
  BY PositionOfOrder DEF LimitsInv, SessionInv, TypeInv, TypeOK
<1>2. viewPos[p].cost = positions[p].cost /\ RowWithinLimits(viewPos[p])
  BY <1>1 DEF FillBuy, InHand, LimitsInv, SessionInv, SessionCurrent, InSession,
              RowsWithinLimits
<1>3. value \in Nat
  <2>1. o.amount \in Nat /\ price \in Nat
    BY <1>1, PaperCopyAssumption DEF OrderRow, Positive
  <2>2. value \in 0 .. viewCash
    BY <1>1, <2>1, BuyValueWithin
  <2> QED BY <1>1, <2>2
<1>4. positions' = [positions EXCEPT ![p] = row] /\ invested' = invested + value
  BY DEF FillBuy
<1>5. row.cost = viewPos[p].cost + value
  <2> HIDE DEF value
  <2>1. CASE Open(viewPos[p])
    BY <1>1, <1>3, <2>1 DEF Bought, PositionRow
  <2>2. CASE ~Open(viewPos[p])
    <3>1. viewPos[p].cost = 0
      BY <1>2, <2>2 DEF RowWithinLimits, Open, NoPosition
    <3> QED BY <1>1, <1>3, <2>2, <3>1 DEF Bought, NoPosition
  <2> QED BY <2>1, <2>2
<1> HIDE DEF row, value, o, p
<1>6. \A x \in Position \ {p} : positions'[x].cost = positions[x].cost
  BY <1>1, <1>4
<1>7. invested' = invested + positions'[p].cost - positions[p].cost
  BY <1>1, <1>2, <1>3, <1>4, <1>5 DEF PositionRow
<1> QED BY <1>6, <1>7 DEF CostMoves, p

(* Every step keeps the costs, or moves the cost of one position along with what is
   invested. *)
LEMMA CostEffect ==
  ASSUME LimitsInv, [Next]_vars
  PROVE  CostsKept \/ \E p \in Position : CostMoves(p)
<1> USE DEF envVars, dbVars
<1>1. /\ SessionInv /\ TypeInv /\ todo \subseteq Position /\ seen \in [Token -> Nat]
      /\ viewPos \in [Position -> PositionRow]
  BY DEF LimitsInv, SessionInv, TypeInv, TypeOK
<1>2. (positions' = positions /\ invested' = invested) => CostsKept
  BY DEF CostsKept
<1>3. (positions' = Flushed /\ invested' = invested) => CostsKept
  BY <1>1, FlushKeepsCosts DEF CostsKept
<1>4. CASE Source \/ Queue \/ Tick \/ ReconcileTimer \/ CycleFails \/ Crash \/ UNCHANGED vars
  <2>1. ASSUME NEW sig, NEW w, NEW t, NEW side, NEW amount,
               SourceTrade(sig, w, t, side, amount)
        PROVE  CostsKept
    BY <1>2, <2>1 DEF SourceTrade
  <2>2. ASSUME NEW tr, EnqueueTrade(tr) PROVE CostsKept
    BY <1>2, <2>2 DEF EnqueueTrade
  <2>3. CASE Tick \/ ReconcileTimer \/ CycleFails \/ Crash \/ UNCHANGED vars
    BY <1>2, <2>3 DEF Tick, ReconcileTimer, CycleFails, Crash, vars
  <2> QED BY <1>4, <2>1, <2>2, <2>3 DEF Source, Queue
<1>5. CASE StartReconcile \/ (\E w \in Wallet : FetchBalances(w)) \/ RiskUnpriced
             \/ FinishReconcile
  BY <1>2, <1>3, <1>5 DEF StartReconcile, FetchBalances, RiskUnpriced, FinishReconcile
<1>6. ASSUME NEW p \in todo, TrackSource(p) \/ ReducePending(p) \/ ReduceCollides(p)
      PROVE  CostsKept
  BY <1>2, <1>3, <1>6 DEF TrackSource, ReducePending, ReduceCollides
<1>7. ASSUME NEW p \in todo, NEW price \in Prices, RiskHold(p, price)
      PROVE  CostsKept
  BY <1>2, <1>7 DEF RiskHold
<1>8. ASSUME NEW p \in todo, NEW price \in Prices, ReduceFilled(p, price)
      PROVE  CostMoves(p)
  <2> DEFINE q == SellQuantity(viewPos[p], Tracked(p) - Actual(p))
  <2>1. InSession /\ CommitSale(p, q, price) /\ p \in Position
    BY <1>1, <1>8 DEF ReduceFilled, Shrunk, Aligning, InSession
  <2>2. Tracked(p) - Actual(p) \in Nat
    BY <1>1, <1>8 DEF ReduceFilled, Shrunk, Tracked, Actual, PositionRow, Position
  <2>3. q \in Nat
    BY <1>1, <2>1, <2>2, SellQuantityWithin DEF PositionRow
  <2> HIDE DEF q
  <2> QED BY <1>1, <2>1, <2>3, SaleMovesCost
<1>9. ASSUME NEW p \in todo, NEW price \in Prices, RiskExit(p, price)
      PROVE  CostMoves(p)
  <2>1. /\ InSession /\ CommitSale(p, viewPos[p].qty, price)
        /\ p \in Position /\ viewPos[p].qty \in Nat
    BY <1>1, <1>9 DEF RiskExit, CanReprice, InSession, PositionRow
  <2> QED BY <1>1, <2>1, SaleMovesCost
<1>10. CASE NothingDue
  BY <1>2, <1>10 DEF NothingDue
<1>11. ASSUME NEW k \in DOMAIN orders,
              SkipDue(k) \/ BeginOrder(k) \/ DeferOrder(k) \/ RejectBuy(k)
       PROVE  CostsKept
  BY <1>2, <1>11 DEF SkipDue, BeginOrder, DeferOrder, RejectBuy
<1>12. ASSUME NEW k \in DOMAIN orders, NEW price \in Prices,
              FillBuy(k, price) \/ FillSell(k, price)
       PROVE  PositionOf(k) \in Position /\ CostMoves(PositionOf(k))
  <2> DEFINE p == PositionOf(k)
             q == SellQuantity(viewPos[p], orders[k].amount)
  <2>1. p \in Position /\ orders[k].amount \in Nat
    BY <1>1, PositionOfOrder DEF OrderRow
  <2>2. q \in Nat
    BY <1>1, <2>1, SellQuantityWithin DEF PositionRow
  <2>3. CASE FillSell(k, price)
    <3>1. InSession /\ CommitSale(p, q, price)
      BY <2>3 DEF FillSell, InHand, InSession
    <3> HIDE DEF q, p
    <3> QED BY <1>1, <2>1, <2>2, <3>1, SaleMovesCost DEF p
  <2> QED BY <1>12, <2>1, <2>3, BuyMovesCost
<1> QED
  <2>1. CASE Reconcile
    BY <1>1, <1>5, <1>6, <1>7, <1>8, <1>9, <2>1 DEF Reconcile
  <2>2. CASE ExecuteNext
    BY <1>10, <1>11, <1>12, <2>2 DEF ExecuteNext
  <2> QED BY <1>4, <2>1, <2>2 DEF Next, Executor

(* What the portfolio says it has invested is the sum of the costs of its positions,
   after every commit of a pass, a fill, a failure or a crash, for any number of
   positions: no sale releases cost from the totals without taking it from the row
   it sold from, and no row is overwritten with a copy loaded before another one
   was committed; and with cash it is the initial balance plus realized profit
   (PaperCopyService._fill_buy and _fill_sell). *)
THEOREM BooksAlwaysBalance == Spec => []BooksBalance
<1>1. Init => BooksInv
  <2> SUFFICES ASSUME Init PROVE BooksInv
    OBVIOUS
  <2>1. LimitsInv
    BY LimitsInit
  <2>2. CashBalance
    BY PaperCopyAssumption DEF Init, CashBalance
  <2>3. CostOf(positions, Position) = 0
    <3> DEFINE costs == [p \in Position |-> positions[p].cost]
    <3>1. \A p \in Position : costs[p] = 0
      BY DEF Init, EmptyView, NoPosition
    <3>2. CostOf(positions, Position) = SumFunctionOnSet(costs, Position)
      BY DEF CostOf
    <3> HIDE DEF costs
    <3> QED BY <3>1, <3>2, PositionsFinite, SumOfZeros
  <2> QED BY <2>1, <2>2, <2>3 DEF Init, BooksInv
<1>2. BooksInv /\ [Next]_vars => BooksInv'
  <2> SUFFICES ASSUME BooksInv, [Next]_vars PROVE BooksInv'
    OBVIOUS
  <2>1. LimitsInv /\ SessionInv /\ CashInv
    BY DEF BooksInv, LimitsInv, CashInv
  <2>2. TypeInv' /\ SessionInv'
    BY <2>1, TypeStep, SessionStep DEF SessionInv
  <2>3. LimitsInv' /\ CashBalance'
    BY <2>1, <2>2, LimitsStep, CashStep
  <2>4. invested' = CostOf(positions', Position)
    BY <2>1, <2>2, CostEffect, InvestedFollows
  <2>5. CostOf(positions', Position) = CostOf(positions, Position)'
    BY DEF CostOf
  <2> QED BY <2>3, <2>4, <2>5 DEF BooksInv
<1>3. BooksInv => BooksBalance
  BY DEF BooksInv, CashBalance, BooksBalance
<1> QED BY <1>1, <1>2, <1>3, PTL DEF Spec
=============================================================================
