\* One copied wallet; three pages of one transaction.
SPECIFICATION FairSpec
CONSTANTS
  Wallet = {1}
  Source = {1}
  PageSize = 1
  MaxPages = 3
  MaxHeight = 4
  MaxFaults = 1
INVARIANTS
  TypeOK
  OnlyGapsAreMissed
PROPERTIES
  OnlyLongBacklogsAreSkipped
  PolledInOrder
  EveryTransactionSettles
