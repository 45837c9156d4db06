\* Two top traders, one of which may fail for ever; one attempt per cycle.
SPECIFICATION FairSpec
CONSTANTS
  Candidate = {1, 2}
  External = {1, 2}
  NoCandidate = NoCandidate
  Flaky = {1}
  PageSize = 1
  MaxHistory = 2
  EarlyAt = 1
  MaxCandidates = 1
  MaxHeight = 1
  MaxFaults = 0
PROPERTIES
  AuditsFinish
  OthersGoOnUnlessObstinate
