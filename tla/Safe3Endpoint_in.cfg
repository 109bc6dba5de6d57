SPECIFICATION FairSpec
CONSTANTS
    webusb = webusb
    debug = debug
    Interface = {webusb}
    Endpoint <- InOnly
    Packet = {p1, p2}
    Empty = Empty
    Usb = Usb
    Wfi = Wfi
    Records <- AllRecords
    MaxRecords = 2
INVARIANT PacketInv
PROPERTIES
    PipeEnds
    StopTerminates
    WfiWakes
