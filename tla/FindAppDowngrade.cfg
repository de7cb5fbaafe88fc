SPECIFICATION Spec
CONSTANTS
  MaxSeq = 3
  MaxOs = 0
  MaxCuts = 1
  MaxKills = 0
  MaxIOErrors = 0
PROPERTIES
  NoDowngrade
