\* The parts that wait, each with its own fairness.
SPECIFICATION LivenessSpec
CONSTANTS
    Parts = {"threads", "usb", "floppy", "serial"}
    Threads = {t1, t2}  Main = main  ThreadOptionroms = TRUE  MaxSpawn = 3
    r1 = r1  r2 = r2  h1 = h1  h2 = h2
    RootPorts = {r1, r2}  HubPorts = {h1, h2}  Plugged <- MCPlugged  MaxUsbAddr = 3  Nobody = nobody
    Ids = {0}  Cylinders = 1  Heads = 1  Spt = 1  MotorTicks = 2  BufAddrs = {0, 3}  SectorBytes = 2  DmaPage = 4  MaxOps = 2
    ComPorts <- MCComPorts  LptPorts <- MCLptPorts  ComTimeout = 3  LptTimeout = 4  WordSize = 4

    
PROPERTIES
    WaitsEnd EnumerationEnds  CallEnds
CHECK_DEADLOCK FALSE
