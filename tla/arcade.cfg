CONSTANTS
  Conn = {c1, c2, c3}
  Machine = {m1, m2}
  NoMachine = NoMachine
  NoConn = NoConn
  NoSoku2 = NoSoku2
  Profile <- TwoVersions
  Packet = {"Hello", "PlayerLeave", "GameRequest", "JoinCommand", "GameStart", "ArcadeLeave"}
  MaxPlayers = 3
  MaxKicks = 0
  MaxSeats = 3
SYMMETRY Symmetry
SPECIFICATION ArcadeSpec
INVARIANTS SameVersionSeats
PROPERTIES FirstComeFirstServed
