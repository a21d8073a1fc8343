CONSTANTS
  JoinTries = 2
  MaxFlight = 2
  MaxVisits = 1
SPECIFICATION SessionSpec
INVARIANT TimedOutMeansNotJoined
CHECK_DEADLOCK FALSE
