SPECIFICATION Spec
CONSTANTS
    Argv <- AllArgv
    Record <- AllRecords
    Source <- AllSources
    Content = {"blank", "drawn"}
    Blank = "blank"
    Level = {0, 1}
    UseBacklight = TRUE
    MaxEdges = 3
    Iface = {0, 1}
    Task = {t1, t2}
    Params = {"start", "landing"}
    Kind <- TwoKinds
    ReportLength = 34
    Setup <- AllSetups
    MaxPacket = 2
    Buffer = 5
    Capacity = 4
    MaxLength = 6
    Refused = Refused
    Delay = 2
    Width = 4
    IntMax = 2
    Frames = 2
    MaxTime = 6
INVARIANTS
    Ep0TypeOK
    StartsAsTold
    DevicesBalanced
    PanelDarkAtExit
    ButtonsSeen
    InterfacesServed
    ToldBeforeParking
    ControlAnswered
    Ep0Result
    AwakeTimeOnly
    NeverOversleeps
    WaitBlocks
    PanelFollows
PROPERTY FlushLasts
