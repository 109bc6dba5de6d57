SPECIFICATION Spec
CONSTANTS
    webusb = webusb
    debug = debug
    Interface = {webusb}
    Endpoint <- OutOnly
    Packet = {p1}
    Empty = Empty
    Usb = Usb
    Wfi = Wfi
    Records <- AllRecords
    MaxRecords = 1
INVARIANT StaleSnapshotHarmless
