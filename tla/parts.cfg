CONSTANTS
  Net = {u1, u2}
  Main = Main
  MaxInputs = 4
  MaxMessages = 1
  Char <- MCChar
  Strings <- MCStrings
  Limit = 4
  MaxKeys = 2
  Name = {n1, n2}
  IpAddress = {i1}
  MaxCalls = 2
  Achievement <- MCAchievement
  MaxGames = 2
  MaxUses = 2
  MaxDamages = 2
  MaxFrames = 4
  MaxRollbacks = 2
  MaxMatches = 3
SYMMETRY Symmetry
SPECIFICATION PartsSpec
INVARIANTS
  TypeOK DeadlockNeedsMain JoinWaitsForTheKicked
  PartsTypeOK
  PressActsAsMeant EscapeReachesTheGame
  TextAsTyped
  ListSurvives UnblockedStays
  ProgressSurvives
  GamesAsPlayed
CHECK_DEADLOCK FALSE
