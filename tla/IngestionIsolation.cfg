\* Two wallets, one of them pushed while it is polled.
SPECIFICATION Spec
CONSTANTS
  Wallet = {1, 2}
  Source = {2}
  PageSize = 1
  MaxPages = 2
  MaxHeight = 2
  MaxFaults = 0
PROPERTIES
  PollVisitsEveryWallet
