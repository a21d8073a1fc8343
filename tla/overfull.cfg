CONSTANTS
  Conn = {c1, c2}
  Machine = {m1}
  NoMachine = NoMachine
  NoConn = NoConn
  NoSoku2 = NoSoku2
  Profile <- OneProfile
  Packet = {"Hello"}
  MaxPlayers = 1
  MaxKicks = 0
  MaxSeats = 0
SYMMETRY Symmetry
SPECIFICATION Spec
INVARIANT CapacityRespected
