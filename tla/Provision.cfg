SPECIFICATION Spec
CONSTANTS
  Ssids = {"home"}
  Keys = {"k1", "k2"}
  Hashes = {"h1"}
  Ports = {"3000", "80"}
  Zones = {"UTC", "Lagos"}
  ZoneCountry <- MCZoneCountry
  Threads = {t1, t2}
  MaxRequests = 2
  MaxFaults = 1
  Cards <- MCCards
  Edits <- MCEdits
  MaxEdits = 2
  MaxCuts = 2
  MaxMixed = 1
INVARIANTS InForce NothingWaits
PROPERTIES UnlinkedIsSaved NeverTwice KeysKept
SYMMETRY ThreadSymmetry
CHECK_DEADLOCK FALSE
