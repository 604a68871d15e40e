\* One request at a time on two drives with a cylinder, two heads and two sectors
\* per track.
CONSTANTS
  Ids = {0, 1}
  Cylinders = 1
  Heads = 2
  Spt = 2
  MotorTicks = 2
  BufAddrs = {0, 3}
  SectorBytes = 2
  DmaPage = 4
  MaxOps = 2
SPECIFICATION FlpSpec
INVARIANT SectorNamed
CHECK_DEADLOCK FALSE
