\* Two workers, two recipients; two orders, one in each summary; one signal.
SPECIFICATION FairSpec
CONSTANTS
  Worker = {v1, v2}
  Recipients = 2
  Orders = 2
  Key = {k1}
  Report = Report
  Started = Started
  Limit = 1
  Attempts = 2
  MaxKinds = 1
  MaxFaults = 1
INVARIANTS
  TypeOK
  SentWasTold
  MarkedWasReported
  ToldByOneJob
PROPERTIES
  OrdersAreTold
