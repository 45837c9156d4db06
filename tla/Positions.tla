-------------------------------- MODULE Positions --------------------------------
(***************************************************************************)
(* PositionCalculator: the position of a wallet in a token, at its average *)
(* cost.  Tokens may be bought for an unknown price and sold without ever  *)
(* having been seen bought, so a position keeps apart the part that is     *)
(* priced, and what was sold unmatched.                                    *)
(***************************************************************************)
EXTENDS TradeHistory

NoPosition ==
  [quantity |-> 0, priced |-> Zero, cost |-> Zero, realized |-> Zero,
   basis |-> Zero, unmatched |-> 0]

Buy(p, x) ==
  [p EXCEPT !.quantity = @ + x.amount,
            !.priced = IF Spent(x) > 0 THEN Plus(@, Whole(x.amount)) ELSE @,
            !.cost = Plus(@, Whole(Spent(x)))]

(* The part of a sale that meets what is held, and its cost as far as known. *)
Match(p, x) ==
  LET matched == Min({p.quantity, x.amount})
      priced == Share(Times(Whole(matched), p.priced), Whole(p.quantity))
  IN [quantity |-> matched, priced |-> priced, cost |-> Times(Share(p.cost, p.priced), priced)]

AllProceeds(m, x) == Whole(Received(x))    \* slip: what was not matched counts, too

(* The share of the proceeds for the matched part with a known cost. *)
Proceeds(m, x) == Over(Times(Whole(Received(x)), m.priced), Whole(x.amount))

(* _apply_sell: only what is sold for something and was bought for something
   is realized; the cost leaves the position either way.  The code clears the
   cost of an emptied position, which in exact arithmetic is zero already. *)
Sell(p, x) ==
  LET m == Match(p, x)
      counts == Received(x) > 0 /\ Positive(m.priced)
      left == [p EXCEPT !.quantity = @ - m.quantity, !.unmatched = @ + x.amount - m.quantity,
                        !.priced = Minus(@, m.priced), !.cost = Minus(@, m.cost)]
      booked == [left EXCEPT !.realized = Plus(@, Minus(Proceeds(m, x), m.cost)),
                             !.basis = Plus(@, m.cost)]
  IN IF counts THEN booked ELSE left

(* calculate: h is the trades of one wallet and one token in order. *)
Replay(h) ==
  FoldLeft(LAMBDA p, x : IF IsBuy(x) THEN Buy(p, x) ELSE Sell(p, x), NoPosition, h)

Position(h, t) == Replay(OfToken(Ordered(h), t))

(* AnalyticsService.get_wallet_positions, with closed ones or only those held *)
WalletPositions(h, includeClosed) ==
  LET all == [t \in Tokens(h) |-> Position(h, t)]
  IN Restrict(all, {t \in Tokens(h) : includeClosed \/ all[t].quantity > 0})
==================================================================================
