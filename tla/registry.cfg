CONSTANTS
  Lobby = {l1, l2}
  Link = {k1, k2, k3, k4}
  NoLink = NoLink
  Limit <- ThirtySeconds
  MaxFaults = 2
SPECIFICATION Spec
INVARIANTS TypeOK
PROPERTIES NoFalseTimeout ListRightInTheEnd
