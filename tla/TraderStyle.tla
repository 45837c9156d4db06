------------------------------- MODULE TraderStyle -------------------------------
(***************************************************************************)
(* TraderStyleService: whether a wallet holds what it buys or trades like  *)
(* a bot, from all the trades stored of it.                                *)
(***************************************************************************)
EXTENDS TradeHistory

CONSTANTS
  Burst,         \* the rolling window for trades and tokens: 60 seconds
  SwitchWindow,  \* side_switch_window_seconds
  RapidExit,     \* rapid_round_trip_seconds
  MinHold,       \* min_hold_seconds
  MinTrades, MaxTokens, MaxSwitches, MaxRapid,   \* the limits of evaluate_trades
  Dust           \* what may be left of a position that is closed: 1e-12

ASSUME StyleAssumption ==
  {Burst, SwitchWindow, RapidExit, MinHold, MinTrades, MaxTokens, MaxSwitches, MaxRapid, Dust}
    \subseteq Nat

Peak(S) == Max(S \cup {0})
Within(h, i, j, seconds) == h[j].at - h[i].at <= seconds

(* The left end of a window moves up to the first trade that is not too old. *)
Left(h, left, right, seconds) ==
  Min({i \in left .. right : Within(h, i, right, seconds)})

(* _maximum_rolling_trades *)
RollingTrades(h, seconds) ==
  FoldLeft(LAMBDA s, right :
             LET left == Left(h, s.left, right, seconds)
             IN [left |-> left, most |-> Max({s.most, right - left + 1})],
           [left |-> 1, most |-> 0], [i \in DOMAIN h |-> i]).most

(* _maximum_rolling_distinct_tokens *)
RollingTokens(h, seconds) ==
  LET Seen(i) == {h[j].token : j \in {k \in i .. Len(h) : Within(h, i, k, seconds)}}
  IN Peak({Cardinality(Seen(i)) : i \in DOMAIN h})

(* _maximum_rolling_side_switches, on the trades of one token *)
RollingSwitches(h, seconds) ==
  LET Switches(i) ==
        {j \in i + 1 .. Len(h) : Within(h, i, j, seconds) /\ h[j].side # h[j - 1].side}
  IN Peak({Cardinality(Switches(i)) : i \in DOMAIN h})

-----------------------------------------------------------------------------
(* One pass over the trades of a token.  A cycle goes from the buy that opens a
   position, at the time since, to the sell that leaves no more than dust of it. *)
NoCycle == [open |-> 0, since |-> 0, rapid |-> 0, long |-> 0]

OpenLast(c, x) ==    \* slip: each buy starts the time held again
  [c EXCEPT !.open = Add(@, Double(x.amount)), !.since = x.at]

Open(c, x) ==
  IF c.open > 0 THEN [c EXCEPT !.open = Add(@, Double(x.amount))]
  ELSE [c EXCEPT !.open = Add(0, Double(x.amount)), !.since = x.at]

(* What is sold when nothing is held, or beyond it, opens nothing. *)
Close(c, x) ==
  LET held == x.at - c.since  left == Add(c.open, -Double(x.amount))
      emptied == c.open > 0 /\ left <= Dust
  IN [open |-> IF emptied THEN 0 ELSE IF c.open > 0 THEN left ELSE c.open, since |-> c.since,
      rapid |-> IF emptied /\ held <= RapidExit THEN c.rapid + 1 ELSE c.rapid,
      long |-> IF emptied /\ held >= MinHold THEN c.long + 1 ELSE c.long]

(* What is still held counts as held until now. *)
Cycles(h, now) ==
  LET c == FoldLeft(LAMBDA s, x : IF IsBuy(x) THEN Open(s, x) ELSE Close(s, x), NoCycle, h)
  IN IF c.open > 0 /\ now - c.since >= MinHold THEN [c EXCEPT !.long = @ + 1] ELSE c

(* The first of these that holds makes a wallet ineligible. *)
Reasons(s) ==
  << <<s.trades < MinTrades, "insufficient_history">>,
     <<s.tokens > MaxTokens, "multi_token_burst">>,
     <<s.switches > MaxSwitches, "repeated_buy_sell_switching">>,
     <<s.rapid > MaxRapid, "rapid_round_trip">>,
     <<s.long < 1, "no_proven_long_hold">>, <<TRUE, "none">> >>

Reason(s) == Reasons(s)[Min({i \in DOMAIN Reasons(s) : Reasons(s)[i][1]})][2]

(* evaluate_trades: what is measured *)
Style(stored, now) ==
  LET h == Ordered(stored)
      of == [t \in Tokens(h) |-> OfToken(h, t)]
      cycles == [t \in Tokens(h) |-> Cycles(of[t], now)]
  IN [trades |-> Len(h), burst |-> RollingTrades(h, Burst), tokens |-> RollingTokens(h, Burst),
      switches |-> Peak({RollingSwitches(of[t], SwitchWindow) : t \in Tokens(h)}),
      rapid |-> SumFunction([t \in Tokens(h) |-> cycles[t].rapid]),
      long |-> SumFunction([t \in Tokens(h) |-> cycles[t].long])]

Eligible(style) == Reason(style) = "none"
==================================================================================
