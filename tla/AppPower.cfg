SPECIFICATION FairSpec
CONSTANTS
  MaxSeq = 3
  MaxOs = 0
  MaxCuts = 2
  MaxKills = 1
  MaxIOErrors = 0
PROPERTIES
  JobEnds
  AutoStops
