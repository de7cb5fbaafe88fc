SPECIFICATION Spec
CONSTANTS
  Parties = {a, b}
  Nothing = Nothing
  MaxEpoch = 3
  MaxSeq = 2
  MaxCuts = 1
  MaxKills = 1
  MaxIOErrors = 1
INVARIANT InstallsAdmitted
PROPERTY TrustForward
