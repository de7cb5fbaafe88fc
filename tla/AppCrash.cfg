SPECIFICATION Spec
CONSTANTS
  MaxSeq = 3
  MaxOs = 1
  MaxCuts = 1
  MaxKills = 1
  MaxIOErrors = 1
INVARIANTS
  PromotedProven
  RunsPromoted
  FallbackKeepsApp
