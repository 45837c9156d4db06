\* One candidate of the leaderboard with more history than the cap, pages of two.
SPECIFICATION FairSpec
CONSTANTS
  Candidate = {1}
  External = {}
  NoCandidate = NoCandidate
  Flaky = {}
  PageSize = 2
  MaxHistory = 3
  EarlyAt = 2
  MaxCandidates = 1
  MaxHeight = 4
  MaxFaults = 2
INVARIANTS
  TypeOK
  CompleteIsWhole
PROPERTIES
  NoProgressLost
