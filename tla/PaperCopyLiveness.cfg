\* The executor under weak fairness, with one failed cycle or crash.
SPECIFICATION FairSpec
CONSTANTS
  Wallet = {w1}
  Token = {t1}
  Sig = {s1, s2}
  NoWallet = NoWallet
  NoKey = NoKey
  Amounts = {4}
  Holdings = {0}
  Prices = {1}
  StartedAt = 1
  InitialCash = 8
  Allocation = 4
  MaxOpenPositions = 1
  ReactionDelay = 1
  RetryDelay = 1
  MaxAttempts = 2
  MaxAge = 1
  MaxBuys = 2
  AllowAveragingDown = FALSE
  MinSourceValue = 1
  SourceCapPct = 100
  TokenCapPct = 100
  StopLossPct = 30
  BreakEvenPct = 50
  TrailingPct = 100
  TrailingDrawdownPct = 25
  MaxBalance = 8
  MaxFaults = 1
PROPERTY OrdersSettleUnlessCollision
PROPERTY ExitsAreFollowed
PROPERTY IncreasesAreTracked
