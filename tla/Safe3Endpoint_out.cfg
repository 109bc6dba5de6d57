SPECIFICATION FairSpec
CONSTANTS
    webusb = webusb
    debug = debug
    Interface = {webusb}
    Endpoint <- OutOnly
    Packet = {p1, p2}
    Empty = Empty
    Usb = Usb
    Wfi = Wfi
    Records <- LiveRecords
    MaxRecords = 2
INVARIANT NoSleepOnReady
PROPERTIES
    PipeRefined
    PipeEnds
    StopTerminates
    WfiWakes
