\* Two source wallets compete for one slot; two swaps, two prices, one fault.
SPECIFICATION Spec
CONSTANTS
  Wallet = {w1, w2}
  Token = {t1}
  Sig = {s1, s2}
  NoWallet = NoWallet
  NoKey = NoKey
  Amounts = {4, 8}
  Holdings = {0}
  Prices = {1, 2}
  StartedAt = 1
  InitialCash = 8
  Allocation = 4
  MaxOpenPositions = 1
  ReactionDelay = 1
  RetryDelay = 1
  MaxAttempts = 2
  MaxAge = 1
  MaxBuys = 2
  AllowAveragingDown = FALSE
  MinSourceValue = 1
  SourceCapPct = 100
  TokenCapPct = 100
  StopLossPct = 30
  BreakEvenPct = 50
  TrailingPct = 100
  TrailingDrawdownPct = 25
  MaxBalance = 8
  MaxFaults = 1
SYMMETRY SigSymmetry
INVARIANT TypeOK
INVARIANT SessionCurrent
INVARIANT BooksBalance
INVARIANT PositionsWithinLimits
PROPERTY SettledOrdersStay
PROPERTY ImplementsLedger
