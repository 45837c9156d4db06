\* Three wallets, one of them a copy source; the poll and another loop promote.
SPECIFICATION FairSpec
CONSTANTS
  Wallet = {w1, w2, w3}
  Poll = Poll
  Discovery = {Discovery}
  Automatic = {w1}
  NoWallet = NoWallet
  Max = 1
  MaxChanges = 1
  MaxFaults = 1
INVARIANTS
  TypeOK
  OverrunBounded
PROPERTIES
  SourcesAreMonitored
  WorthyAreMonitored
