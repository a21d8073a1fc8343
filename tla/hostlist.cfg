CONSTANTS
  m0 = m0
  c1 = c1
  Conn = {c1}
  Machine = {m0}
  Machine0 = m0
  NoMachine = NoMachine
  NoConn = NoConn
  NoSoku2 = NoSoku2
  ProfileOf <- SameVersion
  PrefOf <- NoPreference
  Hostlist = {c1}
  BadIp = {}
  Watched = {c1}
  Reporting = {}
  Joining = FALSE
  MaxSits = 2
SPECIFICATION Spec
CHECK_DEADLOCK FALSE
PROPERTY HostsWhenAlone
