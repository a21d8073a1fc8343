CONSTANTS
  m0 = m0
  Conn = {c1, c2, c3}
  Machine = {m0}
  Machine0 = m0
  NoMachine = NoMachine
  NoConn = NoConn
  NoSoku2 = NoSoku2
  ProfileOf <- SameVersion
  PrefOf <- MostlyClients
  Hostlist = {}
  BadIp = {}
  Watched = {}
  Reporting = {}
  Joining = FALSE
  MaxSits = 3
SYMMETRY Symmetry
SPECIFICATION Spec
CHECK_DEADLOCK FALSE
INVARIANTS TypeOK Agreement RogueIsExcused NobodyWaitsInVain
