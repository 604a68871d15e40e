\* Every service and driver on small devices; calls, keys, transfers and reports
\* are bounded, so a behaviour ends.
SPECIFICATION ServicesSpec
CONSTANTS
    Parts = {"clock", "keyboard", "ps2", "disk", "ata", "uhci schedule", "uhci bulk", "uhci intr", "usb keys", "ohci list", "ohci ring", "vga"}
    TicksPerDay = 2  UsecPerRtc = 2  ClockSets = {1, 3}  WaitTimes = {1, 4}  RtcSticks = TRUE
    MaxTicks = 1  MaxWaits = 2
    KbdKeys = {"lshift", "rctrl", "lctrl", "ralt", "num", "pause", "del", "unknown"}
    BufSize = 3  MaxKeys = 4
    MaxCmds = 5  MaxData = 1  Late = FALSE
    DriveSets <- MCDriveSets  MaxDrives = 2  HdStart = 4  CdStart = 8  CdImages <- MCImages
    Counts = {1, 7}  LbaSet = {6}  ChsSet <- MCChs  MaxCalls = 2
    Buses <- MCBuses  Masters = {0}  RegBase = 4  Half28 = 2  BlockSize = 4  Page = 8  MaxPrd = 3
    AtaRequests <- MCRequests  MaxRequests = 1
    Pipes = {p1, p2}  Frames = 4  MaxExp = 2  StackTds = 2  MaxPackets = 5  MaxTransfers = 3
    IntrTds = 2  MaxReports = 7
    Slots = 3  AllKeys = {2, 3, 4}  KnownKeys = {2, 3}  Modifiers = {{}, {"shift"}}
    RepeatWait = 2  MaxUsbReports = 3
    OPipes = {1, 2}  MaxMessages = 2  OTds = 3  MaxOReports = 4  MaxPolls = 5
    Modes <- MCModes  Fonts = {1, 2}  Pages = {0, 1}  PageAlign = 4  TextCells = 40  TabStop = 2  Byte = 8
    Characters = {"a", "tab", "lf"}  Strings <- MCStrings  Windows <- MCWindows
    ScrollCounts = {0, 1}  WriteCounts = {4}  Positions <- MCPositions  MaxVgaCalls = 3
INVARIANTS
    ClockKept      KeysFollowReports  
CHECK_DEADLOCK FALSE
