------------------------------ MODULE TradeHistory ------------------------------
(***************************************************************************)
(* What AnalyticsRepository computes in SQL from the stored trades.  A     *)
(* history is a sequence of trades in the order they were stored, which is *)
(* not the order of their times: pages are read backwards, trades are also *)
(* pushed, and polls catch up.  A trade has a wallet, a token, a side, an  *)
(* amount of tokens, the change sol of the wallet's SOL, and its time at.  *)
(* Wallets and tokens are numbers, in the order of their addresses.        *)
(***************************************************************************)
EXTENDS Fractions, Doubles, FiniteSets, Sequences, SequencesExt

(* The members of a finite set in an order: the n-th has n - 1 of them before it. *)
Listed(S, before) ==
  [n \in 1 .. Cardinality(S) |->
     CHOOSE x \in S : Cardinality({y \in S : <<y, x>> \in before}) = n - 1]

Rows(h, S, before) ==
  LET order == Listed(S, before) IN [n \in DOMAIN order |-> h[order[n]]]

(* ORDER BY timestamp, id: ids grow in the order of storing. *)
Earlier(h) ==
  {x \in (DOMAIN h) \X (DOMAIN h) :
     h[x[1]].at < h[x[2]].at \/ (h[x[1]].at = h[x[2]].at /\ x[1] < x[2])}

Ordered(h) == Rows(h, DOMAIN h, Earlier(h))

Tokens(h) == {h[i].token : i \in DOMAIN h}
Wallets(h) == {h[i].wallet : i \in DOMAIN h}
Sooner(S) == {x \in S \X S : x[1] < x[2]}
Kept(h, S) == Rows(h, S, Sooner(S))
OfToken(h, t) == Kept(h, {i \in DOMAIN h : h[i].token = t})
OfWallet(h, w) == Kept(h, {i \in DOMAIN h : h[i].wallet = w})

Total(h, f(_)) == SumFunction([i \in DOMAIN h |-> f(h[i])])
Count(h, Holds(_)) == Cardinality({i \in DOMAIN h : Holds(h[i])})

IsBuy(x) == x.side = "buy"
Bought(x) == IF IsBuy(x) THEN x.amount ELSE 0
Sold(x) == IF IsBuy(x) THEN 0 ELSE x.amount
Signed(x) == Bought(x) - Sold(x)
Traded(x) == x.amount
Spent(x) == IF IsBuy(x) THEN Max({-x.sol, 0}) ELSE 0
Received(x) == IF IsBuy(x) THEN 0 ELSE Max({x.sol, 0})
Priced(x) == Spent(x) + Received(x) > 0

-----------------------------------------------------------------------------
(* get_wallet_metrics, on the trades of one wallet *)
WalletMetrics(h) ==
  [trades |-> Len(h), buys |-> Count(h, IsBuy), sells |-> Len(h) - Count(h, IsBuy),
   tokens |-> Cardinality(Tokens(h)), priced |-> Count(h, Priced), sold |-> Total(h, Sold),
   spent |-> Total(h, Spent), received |-> Total(h, Received)]

(* get_token_metrics, on the trades of one token *)
TokenMetrics(h) ==
  [trades |-> Len(h), wallets |-> Cardinality(Wallets(h)),
   bought |-> Total(h, Bought), sold |-> Total(h, Sold)]

(* get_creator_metrics: an outer join counts the tokens nobody traded, too. *)
CreatorMetrics(h, launched) ==
  [tokens |-> Cardinality(launched), traded |-> Cardinality(launched \cap Tokens(h))]

-----------------------------------------------------------------------------
(* Who holds a token: h is the trades of one wallet and one token in order.  The
   database adds up doubles. *)
SignedAmount(x) == IF IsBuy(x) THEN Double(x.amount) ELSE -Double(x.amount)

(* running_quantity: the sum over the first n trades *)
RunningQuantity(h) ==
  LET sum[n \in 0 .. Len(h)] == IF n = 0 THEN 0 ELSE Add(sum[n - 1], SignedAmount(h[n]))
  IN sum

NetQuantity(h) == RunningQuantity(h)[Len(h)]

AtTheEnd(h) == Max({-NetQuantity(h), 0})    \* slip: from the sum of all

(* _holder_expressions: what was sold beyond what was seen bought is the least
   running sum below zero. *)
UnmatchedSells(h) == Max({-RunningQuantity(h)[n] : n \in DOMAIN h} \cup {0})

Quantity(h) == Add(NetQuantity(h), UnmatchedSells(h))

(* _token_holder_aggregate: per wallet, over its trades of the token. *)
HolderAggregate(h, t) ==
  LET of == OfToken(Ordered(h), t) IN [w \in Wallets(of) |-> OfWallet(of, w)]

Active(aggregate) == {w \in DOMAIN aggregate : Quantity(aggregate[w]) > 0}

(* list_token_holders: the largest first. *)
ListTokenHolders(h, t, limit, offset) ==
  LET of == HolderAggregate(h, t)
      more == {x \in Active(of) \X Active(of) :
                 \/ Quantity(of[x[1]]) > Quantity(of[x[2]])
                 \/ Quantity(of[x[1]]) = Quantity(of[x[2]]) /\ x[1] < x[2]}
      all == Listed(Active(of), more)
  IN SubSeq(all, offset + 1, Min({offset + limit, Len(all)}))

(* get_token_holder_summary: the total is that of the active ones. *)
HolderSummary(h, t) ==
  LET of == HolderAggregate(h, t)
      held == [w \in Active(of) |-> Quantity(of[w])]
      incomplete == {w \in DOMAIN of : UnmatchedSells(of[w]) > 0}
  IN [observed |-> Cardinality(DOMAIN of), active |-> Cardinality(Active(of)),
      topShare |-> Share(Whole(Max({held[w] : w \in Active(of)} \cup {0})),
                         Whole(SumFunction(held))),
      incomplete |-> Share(Whole(Cardinality(incomplete)), Whole(Cardinality(DOMAIN of)))]
==================================================================================
