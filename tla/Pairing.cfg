SPECIFICATION FairSpec
CONSTANTS
  Devices = {d1,d2}
  MaxRequests = 3
  MaxRestarts = 1
  MaxFaults = 1
INVARIANTS ClosedIsQuiet
PROPERTIES AnswerMeant WindowEnds AgentFollows
CHECK_DEADLOCK FALSE
