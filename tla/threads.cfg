CONSTANTS
  g1 = g1
  g2 = g2
  g3 = g3
  Game <- MCGame
  NoGame = NoGame
  Visible = 2
  Answers <- MCAnswers
  JoinTries = 2
  MaxFlight = 2
  MaxVisits = 2
  Listable = {l1, l2}
  Unsteady = {l1}
  MaxEntries = 3
  MaxQueue = 3
  Batch = 2
  RetryEvery = 2
  MaxMishaps = 2
  Conn = {c1, c2}
  Ip = {i1}
  Wanted <- MCWanted
SPECIFICATION ThreadsSpec
INVARIANTS
  ThreadsTypeOK
  JoinsWhatWasSeen
  DiesOnlyLeaving ScreenMatchesSession HandshakeKept
  HangNeedsADrop
  NamesDiffer BannedAreOut
PROPERTIES
  ClosedListIsErased JoiningEnds NamesAppear Reconnects
CHECK_DEADLOCK FALSE
