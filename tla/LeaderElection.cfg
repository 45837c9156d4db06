SPECIFICATION FairSpec
CONSTANTS
  Replica = {r1, r2}
  Heartbeat = heartbeat
  Loop = {heartbeat, discovery}
  Nobody = Nobody
  Abandoned = Abandoned
  MaxFaults = 3
INVARIANTS
  TypeOK
  ExclusiveUnlessLost
PROPERTIES
  StaleLeaderNotices
  SomebodyLeads
