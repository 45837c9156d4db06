----------------------------- MODULE MCCalculations -----------------------------
(***************************************************************************)
(* The calculators checked against independent definitions of their        *)
(* results, on every short history that trades make as they are stored.    *)
(* What is varied depends on the aspect looked at; the rest is fixed.      *)
(***************************************************************************)
EXTENDS Scores, StyleByDefinition

VARIABLES aspect, history
vars == <<aspect, history>>

Trade(wallets, tokens, bought, sold, buySol, sellSol, times) ==
  [wallet : wallets, token : tokens, side : {"buy"}, amount : bought, sol : buySol, at : times]
    \cup
  [wallet : wallets, token : tokens, side : {"sell"}, amount : sold, sol : sellSol, at : times]

Samples ==
  [style |-> Trade({1}, {1, 2}, {2}, {1, 2}, {-1}, {1}, {0, 1, 3}),
   holders |-> Trade({1, 2}, {1}, {2}, {1, 2}, {-1}, {1}, {0, 1}),
   books |-> Trade({1}, {1}, {1, 2}, {1, 2}, {-3, 1}, {-1, 2}, {0, 1}),
   grades |-> Trade({1}, {1, 2}, {1}, {1}, {-2}, {1, 3}, {0})]

Longest == [style |-> 4, holders |-> 4, books |-> 4, grades |-> 5]

(* A toy of floating point: ten numbers are exact, of the others every third. *)
ToyRounded(x) == IF x \in -10 .. 10 THEN x ELSE 3 * ((x + 1) \div 3)

Now == 4    \* the time at which positions still held are looked at

Init == aspect \in DOMAIN Samples /\ history = <<>>

Store(x) == history' = Append(history, x) /\ UNCHANGED aspect

(* Tokens are numbered as they turn up. *)
Next ==
  /\ Len(history) < Longest[aspect]
  /\ \E x \in Samples[aspect] : x.token <= Cardinality(Tokens(history)) + 1 /\ Store(x)

Spec == Init /\ [][Next]_vars

-----------------------------------------------------------------------------
(* The rolling maxima and the cycles that the style filter counts in one pass over
   the trades are what they are by definition, in whatever order the trades were
   stored, although positions are sums of doubles that may never come back to zero:
   as long as what they leave is dust, an eligible wallet has a position it really
   held, and no more fast round trips than allowed
   (TraderStyleService.evaluate_trades). *)
StyleIsByDefinition ==
  LET style == Style(history, Now)
      ordered == Ordered(history)
      OfEach(t) == OfToken(ordered, t)
      rapid == SumFunction([t \in Tokens(history) |-> RapidOf(OfEach(t), Now)])
      long == SumFunction([t \in Tokens(history) |-> LongOf(OfEach(t), Now)])
      atOnce(i) == Cardinality(AtOnce(history, Burst, i))
  IN aspect = "style" =>
     /\ style.burst = Peak({Cardinality(Window(history, Burst, i)) : i \in DOMAIN history})
     /\ style.tokens = Peak({atOnce(i) : i \in DOMAIN history})
     /\ (\A t \in Tokens(history) : Tolerated(OfEach(t))) =>
          /\ style.rapid = rapid /\ style.long = long
          /\ Eligible(style) => rapid <= MaxRapid /\ long >= 1

(* The database finds holders from running sums of doubles, the position calculator
   trade by trade in decimals.  What they find held, and sold without having been
   bought, differs by no more than two roundings a trade and a sum make; the pages
   of one list whoever holds more than that, each once, and nobody before one who
   holds more than the roundings of both explain
   (AnalyticsRepository._holder_expressions, PositionCalculator). *)
HoldingsAgree ==
  LET holders == HolderAggregate(history, 1)
      held == [w \in DOMAIN holders |-> Position(OfWallet(history, w), 1)]
      slack(w) == (4 * Len(holders[w]) + 1) * Error
      pages == [n \in 1 .. Cardinality(Wallets(history)) |->
                  ListTokenHolders(history, 1, 1, n - 1)]
      full == {n \in DOMAIN pages : Len(pages[n]) = 1}
      listed(n) == pages[n][1]
  IN aspect = "holders"
       /\ (\A w \in DOMAIN holders : InRange(Total(holders[w], Traded), Len(holders[w]))) =>
     /\ \A w \in DOMAIN held :
          /\ Near(Quantity(holders[w]), Unit * held[w].quantity, slack(w))
          /\ Near(UnmatchedSells(holders[w]), Unit * held[w].unmatched, 2 * Len(holders[w]) * Error)
          /\ Unit * held[w].quantity > slack(w) => \E n \in full : listed(n) = w
     /\ \A n \in DOMAIN pages : Len(pages[n]) <= 1
     /\ \A m, n \in full : m < n =>
          /\ listed(m) # listed(n)
          /\ Unit * held[listed(n)].quantity - slack(listed(n))
               <= Unit * held[listed(m)].quantity + slack(listed(m))

(* No token is lost or made up, the part of a position with a known cost is no more
   than the position and never costs less than nothing; of a sale that is matched
   in part, no token brings more than the best price paid for one; and when every
   buy has a price and every sale was matched and paid, profit is what was received
   less what was spent on what is no longer held (PositionCalculator._apply_sell). *)
PositionsKeepBooks ==
  LET p == Position(history, 1)
      received == Whole(Total(history, Received))
      spent == Whole(Total(history, Spent))
      complete == p.unmatched = 0 /\ \A i \in DOMAIN history : Priced(history[i])
      prices == {Share(Whole(Received(history[i])), Whole(history[i].amount)) : i \in DOMAIN history}
      matched == Whole(Total(history, Sold) - p.unmatched)
  IN aspect = "books" =>
     /\ p.quantity = Total(history, Signed) + p.unmatched
     /\ AtMost(Zero, p.priced) /\ AtMost(p.priced, Whole(p.quantity))
     /\ AtMost(Zero, p.cost) /\ AtMost(Plus(p.cost, p.basis), spent)
     /\ history # <<>> =>
          \E best \in prices : AtMost(Plus(p.realized, p.basis), Times(best, matched))
     /\ complete => Same(p.realized, Minus(received, Minus(spent, p.cost)))

Within0And100(score) == AtMost(Zero, score) /\ AtMost(score, Whole(100))

(* How a wallet with these positions and this style may be rated. *)
RatedByProfit(wallet, style) ==
  /\ wallet.grade = "A" => Positive(wallet.pnl)
  /\ Within0And100(wallet.score) /\ Within0And100(CopyScore(wallet, style))
  /\ CopyMode(wallet, style) # "automatic" \/ Positive(wallet.pnl)

(* How a token with n trades may be. *)
RatedByTrades(n, token, early) ==
  /\ Within0And100(token) /\ Within0And100(early)
  /\ n = 1 => TokenGrade(token) = "E" /\ EarlyTokenGrade(early) = "E"

(* Grades want evidence: a wallet that realized no profit is never graded A however
   active it is, and one trade gives a token no better grade than E ("without
   treating one buy as conviction"); no score leaves 0 to 100, so that the clamps
   of the code never hide a part (WalletScoreCalculator, TokenScoreCalculator,
   EarlyTokenScoreCalculator, CopyTradingScoreCalculator). *)
GradesNeedEvidence ==
  aspect = "grades" =>
    /\ RatedByProfit(ScoreWallet(history), Style(history, Now))
    /\ \A t \in Tokens(history) :
         RatedByTrades(Len(history), ScoreToken(history, t, {1, 2}), ScoreEarlyToken(history, t))
==================================================================================
