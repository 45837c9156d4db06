--------------------------------- MODULE Scores ---------------------------------
(***************************************************************************)
(* The heuristic scores: of a wallet (WalletScoreCalculator), of a token   *)
(* with a history (TokenScoreCalculator) or without (EarlyToken...), and   *)
(* of how well a wallet can be copied (CopyTradingScoreCalculator).  They  *)
(* are exact fractions here.  Wallets and tokens are graded by the score   *)
(* before it is rounded, the mode of copying follows from the rounded one. *)
(***************************************************************************)
EXTENDS Positions, TraderStyle

CONSTANTS FullTrades, FullTokens    \* trades and tokens for full marks: 50 and 10

ASSUME ScoreAssumption == {FullTrades, FullTokens} \subseteq Nat \ {0}

Between0And1(x) == Most(Zero, Least(x, One))
Points(points, part) == Times(Whole(points), Between0And1(part))
Rest(part) == Minus(One, part)
Sum(f) == FoldFunction(Plus, Zero, f)

(* _grade: bounds are the least scores for A, B, C and D. *)
Grade(score, bounds) ==
  LET reached == {i \in 1 .. 4 : AtMost(Whole(bounds[i]), score)}
  IN <<"A", "B", "C", "D", "E">>[Min(reached \cup {5})]

-----------------------------------------------------------------------------
(* WalletScoreCalculator *)

(* What was realized: with and without the most profitable position. *)
Performance(p, sold) ==
  LET realized == {t \in DOMAIN p : Positive(p[t].basis)}
      profitable == {t \in realized : Positive(p[t].realized)}
      pnl == Sum([t \in DOMAIN p |-> p[t].realized])
      basis == Sum([t \in DOMAIN p |-> p[t].basis])
      gross == Sum([t \in profitable |-> p[t].realized])
      first == {t \in profitable : \A u \in profitable : AtMost(p[u].realized, p[t].realized)}
      top == IF profitable = {} THEN NoPosition ELSE p[Min(first)]
      pnlExTop == Minus(pnl, top.realized)
  IN [pnl |-> pnl, roi |-> Share(pnl, basis), gross |-> gross,
      positions |-> Cardinality(realized),
      wins |-> Share(Whole(Cardinality(profitable)), Whole(Cardinality(realized))),
      concentration |-> Share(top.realized, gross),
      pnlExTop |-> pnlExTop, roiExTop |-> Share(pnlExTop, Minus(basis, top.basis)),
      unmatched |-> Share(Whole(SumFunction([t \in DOMAIN p |-> p[t].unmatched])), Whole(sold))]

GrossPoints(f) ==    \* slip: the return is that of the profitable positions
  << Points(10, IF Positive(f.gross) THEN One ELSE Zero), Points(10, f.wins),
     IF Positive(f.gross) THEN Points(5, Times(Rest(f.concentration), Frac(5, 4))) ELSE Zero,
     Points(10, Times(f.roiExTop, Whole(2))) >>

(* For a return of half the cost, for the positions that won, for profits that do
   not all come from one position, and for the return without the best one. *)
PerformancePoints(f) ==
  << Points(10, Times(f.roi, Whole(2))), Points(10, f.wins),
     IF Positive(f.gross) THEN Points(5, Times(Rest(f.concentration), Frac(5, 4))) ELSE Zero,
     Points(10, Times(f.roiExTop, Whole(2))) >>

(* What is stored of a wallet with its score. *)
Snapshot(f, priced, score) ==
  [pnl |-> f.pnl, roi |-> f.roi, positions |-> f.positions, wins |-> f.wins,
   concentration |-> f.concentration, pnlExTop |-> f.pnlExTop, roiExTop |-> f.roiExTop,
   unmatched |-> Between0And1(f.unmatched), pricedRatio |-> priced,
   score |-> score, grade |-> Grade(score, <<80, 65, 50, 35>>)]

WalletScore(m, positions) ==
  LET f == Performance(positions, m.sold)
      priced == Share(Whole(m.priced), Whole(m.trades))
      score == Sum(<< Points(20, Frac(m.trades, FullTrades)), Points(15, Frac(m.tokens, FullTokens)),
                      Points(20, Frac(m.sells, Max({m.buys, 1}))),
                      Points(10, Times(Rest(f.unmatched), priced)) >> \o PerformancePoints(f))
  IN Snapshot(f, priced, score)

(* ScoringService.score_wallet: from closed positions, too. *)
ScoreWallet(h) == WalletScore(WalletMetrics(h), WalletPositions(h, TRUE))

-----------------------------------------------------------------------------
(* CopyTradingScoreCalculator *)

StyleFactor ==
  [none |-> One, no_proven_long_hold |-> Frac(6, 10), insufficient_history |-> Frac(4, 10),
   repeated_buy_sell_switching |-> Frac(3, 10), rapid_round_trip |-> Frac(1, 10),
   multi_token_burst |-> Zero]

CopyScore(snapshot, style) ==
  Sum(<< Points(25, snapshot.pricedRatio), Points(20, Rest(snapshot.unmatched)),
         Points(15, Frac(snapshot.positions, 10)), Points(15, snapshot.wins),
         Points(10, Rest(snapshot.concentration)),
         Points(5, Times(Plus(snapshot.roiExTop, Frac(1, 4)), Whole(2))),
         Points(5, StyleFactor[Reason(style)]), Points(5, Frac(10 - style.burst, 9)) >>)

RobustHistory(snapshot) ==
  /\ snapshot.positions >= 20
  /\ Positive(snapshot.pnl) /\ Positive(snapshot.pnlExTop)
  /\ AtMost(snapshot.concentration, Frac(3, 4))

(* round(score, 2); a float that stands for a half may round either way, here it is
   upwards *)
ToHundredths(score) == Frac((200 * score[1] + score[2]) \div (2 * score[2]), 100)

CopyMode(snapshot, style) ==
  LET score == ToHundredths(CopyScore(snapshot, style))
      automatic == AtMost(Whole(75), score) /\ Eligible(style) /\ RobustHistory(snapshot)
  IN IF automatic THEN "automatic"
     ELSE IF AtMost(Whole(55), score) THEN "manual" ELSE "unsuitable"

-----------------------------------------------------------------------------
(* TokenScoreCalculator and EarlyTokenScoreCalculator *)

(* How evenly buys and sells are balanced, and how much of the flow is buys. *)
Balance(m) ==
  LET gap == Max({m.bought - m.sold, m.sold - m.bought})
  IN IF m.bought + m.sold = 0 THEN Zero ELSE Rest(Frac(gap, m.bought + m.sold))

BuyRatio(m) == Share(Whole(m.bought), Whole(m.bought + m.sold))

Spread(holders, few, points, breadth) ==
  IF holders.active = 0 THEN Zero
  ELSE Plus(Points(points, Rest(holders.topShare)), Points(breadth, Frac(holders.active, few)))

Complete(holders, points) ==
  IF holders.observed = 0 THEN Zero ELSE Points(points, Rest(holders.incomplete))

CreatorHistory(creator) ==
  IF creator.tokens = 0 THEN Zero
  ELSE Plus(Points(5, Frac(creator.tokens, 5)), Points(10, Frac(creator.traded, creator.tokens)))

TokenScore(m, holders, creator, creatorKnown) ==
  Sum(<< Points(20, Frac(m.trades, 50)), Points(15, Frac(m.wallets, 20)),
         Spread(holders, 10, 20, 5), Points(15, Balance(m)), CreatorHistory(creator),
         Complete(holders, 7), Whole(IF creatorKnown THEN 3 ELSE 0) >>)

TokenGrade(score) == Grade(score, <<80, 65, 50, 35>>)

(* ScoringService.score_token: launched is what the creator of the token created,
   none when it is unknown. *)
ScoreToken(h, t, launched) ==
  TokenScore(TokenMetrics(OfToken(h, t)), HolderSummary(h, t),
             CreatorMetrics(h, launched), launched # {})

(* Buys weigh by the evidence of five trades. *)
EarlyTokenScore(m, holders) ==
  Sum(<< Points(15, Frac(m.trades, 10)), Points(20, Frac(m.wallets, 5)),
         Points(30, Times(BuyRatio(m), Between0And1(Frac(m.trades, 5)))),
         Spread(holders, 5, 15, 5), Complete(holders, 10),
         Points(5, Frac(holders.observed, 5)) >>)

EarlyTokenGrade(score) == Grade(score, <<75, 60, 45, 30>>)

(* ScoringService.score_early_token *)
ScoreEarlyToken(h, t) == EarlyTokenScore(TokenMetrics(OfToken(h, t)), HolderSummary(h, t))
==================================================================================
