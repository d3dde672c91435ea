SPECIFICATION MonitoredSpec
CONSTANTS
  Request = {r1, r2}
  Profile = {home, planned}
  MaxUsage = 2
  MaxSystems = 1
  Legacy = Legacy
SYMMETRY Symmetry
INVARIANTS
  TypeOK
  
  HourlyAgrees
  FiguresAgree
  FiguresAreOfOneUsage
  
CHECK_DEADLOCK FALSE
