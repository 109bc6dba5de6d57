SPECIFICATION Spec
CONSTANTS
    webusb = webusb
    debug = debug
    Interface = {webusb, debug}
    Endpoint <- OutAndIn
    Packet = {p1}
    Empty = Empty
    Usb = Usb
    Wfi = Wfi
    Records <- BusRecords
    MaxRecords = 1
INVARIANTS
    NoLostWakeup
    ResourcesOutliveHelper
    MutexReleased
    HelpersMatchEnabled
