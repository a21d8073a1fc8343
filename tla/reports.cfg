CONSTANTS
  m0 = m0
  c1 = c1
  c2 = c2
  Conn = {c1, c2}
  Machine = {m0}
  Machine0 = m0
  NoMachine = NoMachine
  NoConn = NoConn
  NoSoku2 = NoSoku2
  ProfileOf <- SameVersion
  PrefOf <- NoPreference
  Hostlist = {c1}
  BadIp = {c1}
  Watched = {}
  Reporting = {c2}
  Joining = TRUE
  MaxSits = 2
SPECIFICATION FairSpec
CHECK_DEADLOCK FALSE
INVARIANTS RequestsMakeSense
PROPERTIES StatusConverges
