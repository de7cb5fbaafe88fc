SPECIFICATION Spec
CONSTANTS
  MaxWrites = 2
  ADV_FAILURES_BEFORE_RESET = 2
INVARIANTS AdvertisementAgrees WorkingKept
PROPERTIES PhoneAnswered SetupFollows
