\* Two programs, a window of one transaction; one of the wallets is handled elsewhere, too.
SPECIFICATION FairSpec
CONSTANTS
  Programs <- MCPrograms
  Wallet = {w1, w2}
  Monitored = {w2}
  Token = {k}
  NoTx = NoTx
  Window = 1
  MaxTx = 2
  MaxFaults = 1
INVARIANTS
  TypeOK
  SampledIsPublished
  PublishedIsScored
PROPERTIES
  SampledIsHandled
