CONSTANTS
  Conn = {c1, c2, c3}
  Machine = {m1}
  NoMachine = NoMachine
  NoConn = NoConn
  NoSoku2 = NoSoku2
  Profile <- OneProfile
  Packet = {"GameRequest", "GameStart", "ArcadeLeave"}
  MaxPlayers = 3
  MaxKicks = 0
  MaxSeats = 3
SYMMETRY Symmetry
SPECIFICATION ArcadeSpec
PROPERTY BootsEveryone
