CONSTANTS
  Conn = {c1, c2, c3}
  Machine = {m1}
  NoMachine = NoMachine
  NoConn = NoConn
  NoSoku2 = NoSoku2
  Profile <- OneProfile
  Packet = {"Hello", "PlayerLeave", "Report", "GameRequest", "ArcadeLeave"}
  MaxPlayers = 2
  MaxKicks = 1
  MaxSeats = 2
SYMMETRY Symmetry
SPECIFICATION MembershipSpec
INVARIANTS
  TypeOK RosterExact CapacityUnlessRushed
  SeatsMatch NoDanglingSeat CountDrift
CHECK_DEADLOCK FALSE
