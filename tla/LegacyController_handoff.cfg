SPECIFICATION FairSpec
CONSTANTS
    Endpoint = {1, 3}
    Packet = {p1, p2}
    Empty = Empty
    MaxDepth = 2
    Records <- AllRecords
    MaxRecords = 1
INVARIANTS
    AnnouncedOnce
    NoSecondReader
PROPERTIES
    ReadsOpenEvents
    PipeRefined
    PipeEnds
    QuiesceServed
